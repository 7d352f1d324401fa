---------------------------- MODULE ChatDispatch ----------------------------
(***************************************************************************)
(* The message dispatcher of dify-on-wechat (channel/chat_channel.py).     *)
(*                                                                         *)
(* Channel threads call produce(), which puts a message in the queue of    *)
(* its session.  One consumer thread walks over the sessions, takes one    *)
(* message at a time for which the session's semaphore still has a permit, *)
(* and submits it to a thread pool.  A worker runs the handler; the        *)
(* future's done-callback gives the permit back.  The commands #reset and  *)
(* #resetall are messages too: their handler, run by a worker, cancels the *)
(* tasks of one session or of all of them.                                 *)
(*                                                                         *)
(* One step is what happens between two acquisitions of ChatChannel.lock   *)
(* or two reads of an object that another thread may change; a critical    *)
(* section that cannot block is one step, enabled while the lock is free.  *)
(* Of a permit count the model keeps how many are taken, so that an absent *)
(* session and a fresh one look alike.                                     *)
(***************************************************************************)
EXTENDS Naturals, Sequences, FiniteSets

CONSTANTS
    Sessions,      \* session ids
    Msgs,          \* messages, numbered in the order they arrive
    SessionOf,     \* the session of a message
    KindOf,        \* "chat", "reset" or "resetall"
    MaxWorkers,    \* threads of handler_pool (8 in the code)
    Concurrency,   \* concurrency_in_session: permits of a session's semaphore
    Nil            \* no session, no message, nobody holds the lock

Kinds == {"chat", "reset", "resetall"}

ASSUME DispatchAssumption ==
    /\ Msgs \subseteq Nat
    /\ IsFiniteSet(Msgs)
    /\ SessionOf \in [Msgs -> Sessions]
    /\ KindOf \in [Msgs -> Kinds]
    /\ MaxWorkers \in Nat \ {0}
    /\ Concurrency \in Nat \ {0}
    /\ Nil \notin Sessions
    /\ Nil \notin Msgs

VARIABLES
    lock,       \* the message whose handler keeps ChatChannel.lock, or Nil
    sessions,   \* the keys of ChatChannel.sessions
    queue,      \* sessions[s][0], the session's Dequeue
    slots,      \* permits taken from the semaphore sessions[s][1]
    tracked,    \* the keys of ChatChannel.futures
    futures,    \* futures[s], the tasks submitted for s and not yet forgotten
    status,     \* where a message is
    pool,       \* work queue of handler_pool
    pc,         \* what the consumer thread does next
    todo,       \* session ids of this round the consumer has yet to visit
    cur,        \* session_id in the consumer's loop
    job,        \* the task the consumer has submitted and not yet recorded
    ref,        \* the queue the consumer refers to: the session's "current"
                \* one, or one that a reset has "replaced" since
    held,       \* what that queue, reachable by the consumer only, contains
    resetTodo   \* sessions a #resetall has yet to visit

consumerVars == <<pc, todo, cur, job, ref, held>>
vars == <<lock, sessions, queue, slots, tracked, futures, status, pool,
          consumerVars, resetTodo>>

-----------------------------------------------------------------------------
(* Statuses of a message.                                                  *)

\* A worker thread is occupied by the handler or by the done-callback.
Working == {"running", "resetting", "returning", "callback", "stuck"}
\* The task holds a permit of its session.
Submitted == {"pending", "cancelled", "finished"} \cup Working
\* Future.done() is true.
DoneStates == {"cancelled", "finished", "callback", "done"}
Statuses == {"new", "queued", "discarded", "lost", "done"} \cup Submitted

InFlight(s) == {m \in Msgs : SessionOf[m] = s /\ status[m] \in Submitted}
Busy == {m \in Msgs : status[m] \in Working}
Elements(q) == {q[i] : i \in DOMAIN q}

\* The queue the consumer reads: the session's own, or the one it still
\* refers to after a reset put an empty queue in its place.
Referenced == IF ref = "replaced" THEN held ELSE queue[cur]

\* The consumer itself holds a permit between acquire() and its release.
ConsumerHolds(s) == cur = s /\ pc \in {"check", "delete"}

\* BoundedSemaphore.release() on the semaphore found in the dictionary; a
\* missing session or a release too many raises and gives nothing back.
Released(s) == IF s \in sessions /\ slots[s] > 0
               THEN [slots EXCEPT ![s] = @ - 1] ELSE slots

-----------------------------------------------------------------------------
Init ==
    /\ lock = Nil
    /\ sessions = {}
    /\ queue = [s \in Sessions |-> <<>>]
    /\ slots = [s \in Sessions |-> 0]
    /\ tracked = {}
    /\ futures = [s \in Sessions |-> {}]
    /\ status = [m \in Msgs |-> "new"]
    /\ pool = <<>>
    /\ pc = "each"
    /\ todo = {}
    /\ cur = Nil
    /\ job = Nil
    /\ ref = "current"
    /\ held = <<>>
    /\ resetTodo = {}

\* Mutation: put() for commands as well.
Produce_CommandsLast(m) ==
    LET s == SessionOf[m] IN
    /\ lock = Nil
    /\ status[m] = "new"
    /\ \A n \in Msgs : SessionOf[n] = s /\ n < m => status[n] # "new"
    /\ sessions' = sessions \cup {s}
    /\ queue' = [queue EXCEPT ![s] = Append(@, m)]
    /\ status' = [status EXCEPT ![m] = "queued"]
    /\ UNCHANGED <<lock, slots, tracked, futures, pool, consumerVars, resetTodo>>

\* Mutation: putleft() for every message.
Produce_LastFirst(m) ==
    LET s == SessionOf[m] IN
    /\ lock = Nil
    /\ status[m] = "new"
    /\ \A n \in Msgs : SessionOf[n] = s /\ n < m => status[n] # "new"
    /\ sessions' = sessions \cup {s}
    /\ queue' = [queue EXCEPT ![s] = <<m>> \o @]
    /\ status' = [status EXCEPT ![m] = "queued"]
    /\ UNCHANGED <<lock, slots, tracked, futures, pool, consumerVars, resetTodo>>

\* A channel thread delivers a message: commands go to the left end.
Produce(m) ==
    LET s == SessionOf[m] IN
    /\ lock = Nil
    /\ status[m] = "new"
    /\ \A n \in Msgs : SessionOf[n] = s /\ n < m => status[n] # "new"
    /\ sessions' = sessions \cup {s}
    /\ queue' = [queue EXCEPT ![s] =
                    IF KindOf[m] = "chat" THEN Append(@, m) ELSE <<m>> \o @]
    /\ status' = [status EXCEPT ![m] = "queued"]
    /\ UNCHANGED <<lock, slots, tracked, futures, pool, consumerVars, resetTodo>>

-----------------------------------------------------------------------------
(* The consumer thread.                                                    *)

NextSession ==
    /\ pc' = "each"
    /\ cur' = Nil
    /\ job' = Nil

DropReference ==
    /\ ref' = "current"
    /\ held' = <<>>

\* A new round: the keys of the dictionary are copied under the lock.
ListSessions ==
    /\ pc = "each" /\ todo = {}
    /\ lock = Nil
    /\ todo' = sessions
    /\ UNCHANGED <<lock, sessions, queue, slots, tracked, futures, status,
                   pool, pc, cur, job, ref, held, resetTodo>>

\* The session's queue and semaphore are read under the lock and used after
\* it is released.  A KeyError would end the thread.
ReadSession(s) ==
    /\ pc = "each" /\ s \in todo
    /\ lock = Nil
    /\ todo' = todo \ {s}
    /\ pc' = IF s \in sessions THEN "acquire" ELSE "dead"
    /\ cur' = s
    /\ UNCHANGED <<lock, sessions, queue, slots, tracked, futures, status,
                   pool, job, ref, held, resetTodo>>

\* semaphore.acquire(blocking=False) fails.
AllPermitsTaken ==
    /\ pc = "acquire"
    /\ slots[cur] >= Concurrency
    /\ NextSession
    /\ DropReference
    /\ UNCHANGED <<lock, sessions, queue, slots, tracked, futures, status,
                   pool, todo, resetTodo>>

\* Mutation: the message is read and not removed.
TakeMessage_Peek ==
    /\ pc = "acquire"
    /\ slots[cur] < Concurrency
    /\ Referenced # <<>>
    /\ slots' = [slots EXCEPT ![cur] = @ + 1]
    /\ status' = [status EXCEPT ![Head(Referenced)] = "pending"]
    /\ pool' = Append(pool, Head(Referenced))
    /\ job' = Head(Referenced)
    /\ pc' = "register"
    /\ DropReference
    /\ UNCHANGED <<lock, sessions, queue, tracked, futures, todo, cur, resetTodo>>

\* acquire(), get() and submit(), without the lock.  Nobody else acquires
\* or takes, so the three are one step.
TakeMessage ==
    /\ pc = "acquire"
    /\ slots[cur] < Concurrency
    /\ Referenced # <<>>
    /\ LET m == Head(Referenced) IN
       /\ slots' = [slots EXCEPT ![cur] = @ + 1]
       /\ queue' = IF ref = "replaced" THEN queue ELSE [queue EXCEPT ![cur] = Tail(@)]
       /\ status' = [status EXCEPT ![m] = "pending"]
       /\ pool' = Append(pool, m)
       /\ job' = m
    /\ pc' = "register"
    /\ DropReference
    /\ UNCHANGED <<lock, sessions, tracked, futures, todo, cur, resetTodo>>

\* acquire() succeeds and the queue is empty.
FindEmpty ==
    /\ pc = "acquire"
    /\ slots[cur] < Concurrency
    /\ Referenced = <<>>
    /\ slots' = [slots EXCEPT ![cur] = @ + 1]
    /\ pc' = "check"
    /\ DropReference
    /\ UNCHANGED <<lock, sessions, queue, tracked, futures, status, pool,
                   todo, cur, job, resetTodo>>

\* add_done_callback(): when the handler has already returned, the callback
\* runs at once, in the consumer's own thread.
RegisterCallback ==
    /\ pc = "register"
    /\ IF status[job] = "finished"
       THEN /\ lock = Nil
            /\ slots' = Released(cur)
            /\ status' = [status EXCEPT ![job] = "done"]
       ELSE UNCHANGED <<slots, status>>
    /\ pc' = "append"
    /\ UNCHANGED <<lock, sessions, queue, tracked, futures, pool, todo, cur,
                   job, ref, held, resetTodo>>

\* Mutation: the list of futures is replaced.
AppendFuture_Replace ==
    /\ pc = "append"
    /\ lock = Nil
    /\ tracked' = tracked \cup {cur}
    /\ futures' = [futures EXCEPT ![cur] = {job}]
    /\ NextSession
    /\ UNCHANGED <<lock, sessions, queue, slots, status, pool, todo,
                   ref, held, resetTodo>>

AppendFuture ==
    /\ pc = "append"
    /\ lock = Nil
    /\ tracked' = tracked \cup {cur}
    /\ futures' = [futures EXCEPT ![cur] = @ \cup {job}]
    /\ NextSession
    /\ UNCHANGED <<lock, sessions, queue, slots, status, pool, todo,
                   ref, held, resetTodo>>

\* Mutation: the permit is kept when other tasks are still in handling.
CheckIdle_KeepPermit ==
    /\ pc = "check"
    /\ IF slots[cur] = 1
       THEN pc' = "delete" /\ UNCHANGED <<slots, cur, job>>
       ELSE UNCHANGED slots /\ NextSession
    /\ UNCHANGED <<lock, sessions, queue, tracked, futures, status, pool,
                   todo, ref, held, resetTodo>>

\* Mutation: _initial_value == _value, which the consumer's own permit forbids.
CheckIdle_NeverIdle ==
    /\ pc = "check"
    /\ IF slots[cur] = 0
       THEN pc' = "delete" /\ UNCHANGED <<slots, cur, job>>
       ELSE slots' = Released(cur) /\ NextSession
    /\ UNCHANGED <<lock, sessions, queue, tracked, futures, status, pool,
                   todo, ref, held, resetTodo>>

\* semaphore._initial_value == semaphore._value + 1, read without the lock.
CheckIdle ==
    /\ pc = "check"
    /\ IF slots[cur] = 1
       THEN pc' = "delete" /\ UNCHANGED <<slots, cur, job>>
       ELSE slots' = Released(cur) /\ NextSession
    /\ UNCHANGED <<lock, sessions, queue, tracked, futures, status, pool,
                   todo, ref, held, resetTodo>>

\* Forget the futures that are done and the session with its queue, whatever
\* is in it.  The KeyError and the failed assertion would end the thread.
DeleteSession ==
    /\ pc = "delete"
    /\ lock = Nil
    /\ LET left == {m \in futures[cur] : status[m] \notin DoneStates} IN
       IF cur \notin tracked \/ left # {}
       THEN /\ pc' = "dead"
            /\ futures' = IF cur \in tracked
                          THEN [futures EXCEPT ![cur] = left] ELSE futures
            /\ UNCHANGED <<sessions, queue, slots, status, cur, job>>
       ELSE /\ futures' = [futures EXCEPT ![cur] = {}]
            /\ sessions' = sessions \ {cur}
            /\ queue' = [queue EXCEPT ![cur] = <<>>]
            /\ slots' = [slots EXCEPT ![cur] = 0]
            /\ status' = [m \in Msgs |-> IF m \in Elements(queue[cur])
                                         THEN "lost" ELSE status[m]]
            /\ NextSession
    /\ UNCHANGED <<lock, tracked, pool, todo, ref, held, resetTodo>>

Consumer ==
    \/ ListSessions
    \/ \E s \in Sessions : ReadSession(s)
    \/ AllPermitsTaken
    \/ TakeMessage
    \/ FindEmpty
    \/ RegisterCallback
    \/ AppendFuture
    \/ CheckIdle
    \/ DeleteSession

-----------------------------------------------------------------------------
(* The thread pool.                                                        *)

\* An idle worker takes the first task; a cancelled one is skipped.
StartWork ==
    /\ pool # <<>>
    /\ Cardinality(Busy) < MaxWorkers
    /\ pool' = Tail(pool)
    /\ status' = [status EXCEPT ![Head(pool)] =
                    IF @ = "pending" THEN "running" ELSE @]
    /\ UNCHANGED <<lock, sessions, queue, slots, tracked, futures,
                   consumerVars, resetTodo>>

\* The handler returns or raises, and the future becomes done.  A callback
\* not registered yet is left to the consumer and the worker is free.
FinishHandler(m) ==
    /\ \/ status[m] = "returning"
       \/ status[m] = "running" /\ KindOf[m] = "chat"
    /\ status' = [status EXCEPT ![m] =
                    IF pc = "register" /\ job = m THEN "finished" ELSE "callback"]
    /\ UNCHANGED <<lock, sessions, queue, slots, tracked, futures, pool,
                   consumerVars, resetTodo>>

\* Mutation: the callback does not give the permit back.
Callback_KeepPermit(m) ==
    /\ status[m] = "callback"
    /\ lock = Nil
    /\ status' = [status EXCEPT ![m] = "done"]
    /\ UNCHANGED <<lock, sessions, queue, slots, tracked, futures, pool,
                   consumerVars, resetTodo>>

\* The done-callback in the worker: it takes the lock and releases a permit.
Callback(m) ==
    /\ status[m] = "callback"
    /\ lock = Nil
    /\ slots' = Released(SessionOf[m])
    /\ status' = [status EXCEPT ![m] = "done"]
    /\ UNCHANGED <<lock, sessions, queue, tracked, futures, pool,
                   consumerVars, resetTodo>>

-----------------------------------------------------------------------------
(* #reset and #resetall.                                                   *)

\* The futures of s that Future.cancel() would cancel.
Cancellable(s) == {f \in futures[s] : status[f] = "pending"}

\* sessions[s][0] = Dequeue(), and m goes on with status st.  A consumer
\* that has read the old queue keeps it.
ReplaceQueue(s, m, st) ==
    /\ queue' = [queue EXCEPT ![s] = <<>>]
    /\ status' = [n \in Msgs |-> IF n = m THEN st
                                 ELSE IF n \in Elements(queue[s]) THEN "discarded"
                                 ELSE status[n]]
    /\ IF pc = "acquire" /\ cur = s /\ ref = "current"
       THEN ref' = "replaced" /\ held' = queue[s]
       ELSE UNCHANGED <<ref, held>>

\* cancel() succeeds on f and runs f's callback at once, in the thread that
\* already holds the lock the callback asks for.
CancelPending(m, s) ==
    \E f \in Cancellable(s) :
        /\ lock' = m
        /\ status' = [status EXCEPT ![m] = "stuck", ![f] = "cancelled"]
        /\ UNCHANGED <<sessions, queue, slots, tracked, futures, pool,
                       consumerVars, resetTodo>>

\* cancel_session.  A session no future was ever recorded for raises a
\* KeyError, which ends the handler and leaves the queue as it is.
ResetSession(m) ==
    LET s == SessionOf[m] IN
    /\ KindOf[m] = "reset" /\ status[m] = "running"
    /\ lock = Nil
    /\ \/ /\ s \in sessions /\ s \in tracked
          /\ CancelPending(m, s)
       \/ /\ s \in sessions /\ s \in tracked
          /\ Cancellable(s) = {}
          /\ ReplaceQueue(s, m, "returning")
          /\ UNCHANGED <<lock, sessions, slots, tracked, futures, pool,
                         pc, todo, cur, job, resetTodo>>
       \/ /\ ~(s \in sessions /\ s \in tracked)
          /\ status' = [status EXCEPT ![m] = "returning"]
          /\ UNCHANGED <<lock, sessions, queue, slots, tracked, futures, pool,
                         consumerVars, resetTodo>>

\* cancel_all_session takes the lock for its whole loop ...
ResetAllBegin(m) ==
    /\ KindOf[m] = "resetall" /\ status[m] = "running"
    /\ lock = Nil
    /\ lock' = m
    /\ resetTodo' = sessions
    /\ status' = [status EXCEPT ![m] = "resetting"]
    /\ UNCHANGED <<sessions, queue, slots, tracked, futures, pool, consumerVars>>

\* Mutation: a session without recorded futures is reset like any other.
ResetAllVisit_NoKeyError(m, s) ==
    /\ status[m] = "resetting"
    /\ s \in resetTodo
    /\ \/ CancelPending(m, s)
       \/ /\ Cancellable(s) = {}
          /\ resetTodo' = resetTodo \ {s}
          /\ ReplaceQueue(s, m, "resetting")
          /\ UNCHANGED <<lock, sessions, slots, tracked, futures, pool,
                         pc, todo, cur, job>>

\* ... visits the sessions one after another ...
ResetAllVisit(m, s) ==
    /\ status[m] = "resetting"
    /\ s \in resetTodo
    /\ s \in tracked
    /\ \/ CancelPending(m, s)
       \/ /\ Cancellable(s) = {}
          /\ resetTodo' = resetTodo \ {s}
          /\ ReplaceQueue(s, m, "resetting")
          /\ UNCHANGED <<lock, sessions, slots, tracked, futures, pool,
                         pc, todo, cur, job>>

\* ... and leaves the loop at its end, or by a KeyError at the first session
\* no future was ever recorded for.
ResetAllEnd(m) ==
    /\ status[m] = "resetting"
    /\ resetTodo = {} \/ resetTodo \ tracked # {}
    /\ lock' = Nil
    /\ resetTodo' = {}
    /\ status' = [status EXCEPT ![m] = "returning"]
    /\ UNCHANGED <<sessions, queue, slots, tracked, futures, pool, consumerVars>>

Worker(m) ==
    \/ FinishHandler(m)
    \/ Callback(m)
    \/ ResetSession(m)
    \/ ResetAllBegin(m)
    \/ \E s \in Sessions : ResetAllVisit(m, s)
    \/ ResetAllEnd(m)

-----------------------------------------------------------------------------
Next ==
    \/ \E m \in Msgs : Produce(m)
    \/ Consumer
    \/ StartWork
    \/ \E m \in Msgs : Worker(m)

Spec == Init /\ [][Next]_vars

\* The consumer and the workers are threads, and a handler returns (the
\* requests it makes have timeouts).  Nothing obliges a user to write.
Fairness ==
    /\ WF_vars(Consumer)
    /\ WF_vars(StartWork)
    /\ \A m \in Msgs : WF_vars(Worker(m))

FairSpec == Spec /\ Fairness

-----------------------------------------------------------------------------
(* Properties.                                                             *)

\* Every variable has its type.
TypeOK ==
    /\ lock \in Msgs \cup {Nil}
    /\ sessions \subseteq Sessions
    /\ queue \in [Sessions -> Seq(Msgs)]
    /\ slots \in [Sessions -> Nat]
    /\ tracked \subseteq Sessions
    /\ futures \in [Sessions -> SUBSET Msgs]
    /\ status \in [Msgs -> Statuses]
    /\ pool \in Seq(Msgs)
    /\ pc \in {"each", "acquire", "register", "append", "check", "delete", "dead"}
    /\ todo \subseteq Sessions
    /\ cur \in Sessions \cup {Nil}
    /\ job \in Msgs \cup {Nil}
    /\ ref \in {"current", "replaced"}
    /\ held \in Seq(Msgs)
    /\ resetTodo \subseteq Sessions

\* The permits taken from a session's semaphore are those of its tasks whose
\* callback has not run and the one the consumer holds itself; a session
\* that left the dictionary has no such task.  So a callback always finds
\* its session and a permit to give back, and no permit leaks (line 341).
PermitAccounting ==
    \A s \in Sessions :
        IF s \in sessions
        THEN slots[s] = Cardinality(InFlight(s)) + (IF ConsumerHolds(s) THEN 1 ELSE 0)
        ELSE slots[s] = 0 /\ InFlight(s) = {}

\* No more than concurrency_in_session tasks of one session are between
\* submit() and the end of their callback, across deletions and re-creations
\* of the session and whatever resets do.
BoundedConcurrency ==
    \A s \in Sessions : Cardinality(InFlight(s)) <= Concurrency

\* The only consumer thread never dies of the KeyErrors of lines 365 and 378
\* or of the assertion "thread pool error".
ConsumerSurvives == pc # "dead"

\* A task waiting in the pool is recorded in futures, where a reset finds
\* it, except between submit() and the append that follows it.
ResetReachesPending ==
    \A m \in Msgs : status[m] = "pending" /\ m # job =>
        SessionOf[m] \in tracked /\ m \in futures[SessionOf[m]]

\* "Commands first": the consumer submits a queued chat message only when no
\* command of that session is waiting.
CommandsFirst ==
    [][\A m, n \in Msgs :
         /\ SessionOf[m] = SessionOf[n]
         /\ KindOf[m] = "chat" /\ status[m] = "queued" /\ status'[m] = "pending"
         /\ KindOf[n] # "chat"
         => status[n] # "queued"]_vars

\* With one permit a session's chat messages are handled in the order they
\* arrived: a handler starts only after every earlier one is done or given up.
HandledInOrder ==
    [][\A m, n \in Msgs :
         /\ SessionOf[m] = SessionOf[n] /\ n < m
         /\ KindOf[m] = "chat" /\ KindOf[n] = "chat"
         /\ status[m] = "pending" /\ status'[m] = "running"
         => status[n] \in {"done", "discarded", "lost"}]_vars

\* Every message that reaches a queue is eventually handled or given up.
EveryMessageSettles ==
    \A m \in Msgs :
        status[m] = "queued" ~> status[m] \in {"done", "discarded", "lost"}

\* Once nobody writes any more, every session is deleted again.
SessionsRetire == <>[](sessions = {})

\* Cancelling tasks never leaves the canceller waiting for its own lock: what
\* lines 27 and 385 say of tasks that were submitted and have not started.
CancelReturns == \A m \in Msgs : status[m] # "stuck"

\* A session is deleted only after all its messages were dealt with (376).
NothingLost == \A m \in Msgs : status[m] # "lost"

-----------------------------------------------------------------------------
(* The dispatcher implements SessionLimiter.                               *)

\* The first message of a queue that was replaced while the consumer had a
\* reference to it is still waiting: the consumer may take it, and no other.
PhaseOf(m) ==
    IF status[m] = "new" THEN "new"
    ELSE IF status[m] = "queued" \/ (held # <<>> /\ m = Head(held)) THEN "waiting"
    ELSE IF status[m] \in Submitted THEN "active"
    ELSE "over"

Limiter == INSTANCE SessionLimiter WITH
    phase <- [m \in Msgs |-> PhaseOf(m)],
    Limit <- Concurrency

\* Every message is handled at most once, and a session never has more than
\* concurrency_in_session of them in handling.
ImplementsLimiter == Limiter!Spec
=============================================================================
