------------------------ MODULE ChatDispatch_proofs ------------------------
(***************************************************************************)
(* Proofs about the dispatcher, for any set of sessions, any finite set of *)
(* messages of any kinds, any number of workers and of permits: its types, *)
(* the permits, that the consumer lives, that SessionLimiter is            *)
(* implemented, and that commands go first; and that messages are handled  *)
(* in order when a session has one permit.                                 *)
(***************************************************************************)
EXTENDS ChatDispatch, TLAPS, FiniteSetTheorems

-----------------------------------------------------------------------------
(* The inductive invariant.                                                *)

\* The consumer's local variables.
ConsumerInv ==
    /\ pc # "dead"
    /\ todo \subseteq sessions
    /\ pc = "each" <=> cur = Nil
    /\ pc # "each" => cur \in sessions /\ cur \notin todo
    /\ pc \in {"register", "append"} => job \in Msgs /\ SessionOf[job] = cur
    /\ pc \notin {"register", "append"} => job = Nil
    /\ pc = "delete" => slots[cur] = 1
    /\ pc # "acquire" => ref = "current"
    /\ ref = "current" => held = <<>>

\* A queue holds messages of its session that wait, each once.
QueueInv ==
    \A s \in Sessions :
        /\ s \notin sessions => queue[s] = <<>>
        /\ \A i \in DOMAIN queue[s] :
              status[queue[s][i]] = "queued" /\ SessionOf[queue[s][i]] = s
        /\ \A i, j \in DOMAIN queue[s] : queue[s][i] = queue[s][j] => i = j

\* So does a queue that only the consumer still refers to, but a reset has
\* counted its messages as discarded.
HeldInv ==
    \A i \in DOMAIN held : status[held[i]] = "discarded" /\ SessionOf[held[i]] = cur

\* The recorded futures, and the one about to be, are tasks that were submitted.
FuturesInv ==
    /\ \A s \in Sessions : \A f \in futures[s] :
          SessionOf[f] = s /\ status[f] \in Submitted \cup {"done"}
    /\ pc \in {"register", "append"} => status[job] \in Submitted \cup {"done"}

\* A session without an entry in futures was never served: its first message
\* is still queued, or the consumer is about to record it.
TrackedInv ==
    /\ \A s \in sessions \ tracked :
          queue[s] # <<>> \/ (cur = s /\ pc \in {"register", "append"})
    /\ ref = "replaced" \/ pc \in {"check", "delete"} => cur \in tracked

SlotsBound == \A s \in Sessions : slots[s] <= Concurrency

IInv ==
    /\ TypeOK
    /\ ConsumerInv
    /\ QueueInv
    /\ HeldInv
    /\ FuturesInv
    /\ TrackedInv
    /\ SlotsBound
    /\ PermitAccounting
    /\ ResetReachesPending

-----------------------------------------------------------------------------
(* Facts about the sets of tasks.                                          *)

\* The tasks of a session are finitely many.
LEMMA InFlightFinite ==
    ASSUME NEW s \in Sessions
    PROVE  /\ IsFiniteSet(InFlight(s))
           /\ Cardinality(InFlight(s)) \in Nat
           /\ Cardinality(InFlight(s)) = 0 <=> InFlight(s) = {}
<1>1. InFlight(s) \subseteq Msgs
  BY DEF InFlight
<1>2. IsFiniteSet(InFlight(s))
  BY <1>1, FS_Subset, DispatchAssumption DEF DispatchAssumption
<1> QED
  BY <1>2, FS_CardinalityType, FS_EmptySet

\* A message that becomes a task is one more task of its session.
LEMMA InFlightAdd ==
    ASSUME NEW s \in Sessions, NEW m \in InFlight(s)', m \notin InFlight(s),
           InFlight(s)' = InFlight(s) \cup {m}
    PROVE  Cardinality(InFlight(s)') = Cardinality(InFlight(s)) + 1
<1> QED
  BY InFlightFinite, FS_AddElement

\* A task that is done is one task less.
LEMMA InFlightRemove ==
    ASSUME NEW s \in Sessions, NEW m \in InFlight(s),
           InFlight(s)' = InFlight(s) \ {m}
    PROVE  Cardinality(InFlight(s)') = Cardinality(InFlight(s)) - 1
<1> QED
  BY InFlightFinite, FS_RemoveElement

\* Tasks stay tasks in a step that moves no message into or out of Submitted.
LEMMA InFlightSame ==
    ASSUME NEW s \in Sessions,
           \A m \in Msgs : status'[m] \in Submitted <=> status[m] \in Submitted
    PROVE  InFlight(s)' = InFlight(s)
<1> QED
  BY DEF InFlight

\* The consumer reads a sequence of messages of its session.
LEMMA ReferencedType ==
    ASSUME IInv, pc = "acquire"
    PROVE  /\ cur \in Sessions
           /\ Referenced \in Seq(Msgs)
           /\ Referenced # <<>> =>
                /\ Head(Referenced) \in Msgs
                /\ SessionOf[Head(Referenced)] = cur
                /\ status[Head(Referenced)] \in {"queued", "discarded"}
<1> USE DEF IInv
<1>1. cur \in Sessions
  BY DEF ConsumerInv, TypeOK
<1>2. Referenced \in Seq(Msgs)
  BY <1>1 DEF TypeOK, Referenced
<1>3. Referenced # <<>> =>
         1 \in DOMAIN Referenced /\ Head(Referenced) = Referenced[1]
  BY <1>2
<1>4. Referenced # <<>> =>
         /\ SessionOf[Referenced[1]] = cur
         /\ status[Referenced[1]] \in {"queued", "discarded"}
  BY <1>1, <1>3 DEF Referenced, QueueInv, HeldInv
<1> QED
  BY <1>1, <1>2, <1>3, <1>4

-----------------------------------------------------------------------------
(* The invariant holds initially.                                          *)

LEMMA InitInv == Init => IInv
<1> SUFFICES ASSUME Init PROVE IInv
  OBVIOUS
<1> USE DispatchAssumption DEF DispatchAssumption, Init
<1>1. TypeOK
  BY DEF TypeOK, Statuses
<1>2. ConsumerInv /\ QueueInv /\ HeldInv /\ FuturesInv /\ TrackedInv /\ SlotsBound
  BY DEF ConsumerInv, QueueInv, HeldInv, FuturesInv, TrackedInv, SlotsBound
<1>3. PermitAccounting /\ ResetReachesPending
  BY DEF PermitAccounting, ResetReachesPending, InFlight, Submitted, Working
<1> QED
  BY <1>1, <1>2, <1>3 DEF IInv

-----------------------------------------------------------------------------
(* Each part of the invariant is preserved by every step.                  *)

\* A release leaves every count a natural number.
LEMMA ReleasedType ==
    ASSUME TypeOK, NEW s \in Sessions
    PROVE  Released(s) \in [Sessions -> Nat]
<1> QED
  BY DEF TypeOK, Released

\* Each variable keeps its type.
LEMMA TypeStep ==
    ASSUME IInv, [Next]_vars
    PROVE  TypeOK'
<1> USE DispatchAssumption DEF DispatchAssumption, IInv, TypeOK
<1>1. ASSUME NEW m \in Msgs, Produce(m) PROVE TypeOK'
  BY <1>1 DEF Produce, consumerVars, Statuses
<1>2. CASE ListSessions
  BY <1>2 DEF ListSessions
<1>3. ASSUME NEW s \in Sessions, ReadSession(s) PROVE TypeOK'
  BY <1>3 DEF ReadSession
<1>4. CASE AllPermitsTaken
  BY <1>4 DEF AllPermitsTaken, NextSession, DropReference
<1>5. CASE TakeMessage
  <2>1. /\ cur \in Sessions
        /\ Head(Referenced) \in Msgs
    BY <1>5, ReferencedType DEF TakeMessage
  <2>2. queue' \in [Sessions -> Seq(Msgs)]
    BY <1>5, <2>1 DEF TakeMessage, Referenced
  <2>3. slots' \in [Sessions -> Nat] /\ status' \in [Msgs -> Statuses]
    BY <1>5, <2>1 DEF TakeMessage, Statuses, Submitted
  <2>4. pool' \in Seq(Msgs) /\ job' \in Msgs
    BY <1>5, <2>1 DEF TakeMessage
  <2>5. ref' \in {"current", "replaced"} /\ held' \in Seq(Msgs) /\ pc' = "register"
    BY <1>5 DEF TakeMessage, DropReference
  <2>6. UNCHANGED <<lock, sessions, tracked, futures, todo, cur, resetTodo>>
    BY <1>5 DEF TakeMessage
  <2> HIDE DEF IInv
  <2>7. TypeOK
    BY DEF IInv
  <2> HIDE DispatchAssumption DEF DispatchAssumption
  <2> QED
    BY <2>2, <2>3, <2>4, <2>5, <2>6, <2>7
<1>6. CASE FindEmpty
  BY <1>6, ReferencedType DEF FindEmpty, DropReference
<1>7. CASE RegisterCallback
  <2>1. cur \in Sessions /\ job \in Msgs
    BY <1>7 DEF RegisterCallback, ConsumerInv
  <2>2. slots' \in [Sessions -> Nat]
    BY <1>7, <2>1, ReleasedType DEF RegisterCallback
  <2>3. status' \in [Msgs -> Statuses]
    BY <1>7, <2>1 DEF RegisterCallback, Statuses
  <2> QED
    BY <1>7, <2>2, <2>3 DEF RegisterCallback
<1>8. CASE AppendFuture
  BY <1>8 DEF AppendFuture, NextSession, ConsumerInv
<1>9. CASE CheckIdle
  <2>1. cur \in Sessions
    BY <1>9 DEF CheckIdle, ConsumerInv
  <2>2. slots' \in [Sessions -> Nat]
    BY <1>9, <2>1, ReleasedType DEF CheckIdle
  <2> QED
    BY <1>9, <2>2 DEF CheckIdle, NextSession
<1>10. CASE DeleteSession
  <2>0. cur \in Sessions
    BY <1>10 DEF DeleteSession, ConsumerInv
  <2>a. {m \in futures[cur] : status[m] \notin DoneStates} \in SUBSET Msgs
    BY <2>0
  <2>1. futures' \in [Sessions -> SUBSET Msgs]
    <3>1. \E S \in SUBSET Msgs :
             futures' = futures \/ futures' = [futures EXCEPT ![cur] = S]
      BY <1>10, <2>a DEF DeleteSession
    <3>2. futures \in [Sessions -> SUBSET Msgs]
      OBVIOUS
    <3> HIDE DEF IInv, TypeOK
    <3> QED
      BY <3>1, <3>2
  <2>4. slots' \in [Sessions -> Nat] /\ queue' \in [Sessions -> Seq(Msgs)]
    <3>1. slots' = slots \/ slots' = [slots EXCEPT ![cur] = 0]
      BY <1>10 DEF DeleteSession
    <3>2. queue' = queue \/ queue' = [queue EXCEPT ![cur] = <<>>]
      BY <1>10 DEF DeleteSession
    <3>3. slots' \in [Sessions -> Nat]
      <4>1. slots \in [Sessions -> Nat]
        OBVIOUS
      <4> HIDE DEF IInv, TypeOK
      <4> QED
        BY <3>1, <4>1
    <3>4. queue' \in [Sessions -> Seq(Msgs)]
      <4>1. <<>> \in Seq(Msgs) /\ queue \in [Sessions -> Seq(Msgs)]
        OBVIOUS
      <4> HIDE DEF IInv, TypeOK
      <4> QED
        BY <3>2, <4>1
    <3> QED
      BY <3>3, <3>4
  <2>2. status' \in [Msgs -> Statuses]
    BY <1>10 DEF DeleteSession, Statuses
  <2>3. /\ sessions' \subseteq Sessions
        /\ cur' \in Sessions \cup {Nil}
        /\ job' \in Msgs \cup {Nil}
        /\ pc' \in {"each", "dead"}
    BY <1>10 DEF DeleteSession, NextSession
  <2> QED
    BY <1>10, <2>1, <2>2, <2>3, <2>4 DEF DeleteSession
<1>11. CASE StartWork
  <2>1. Head(pool) \in Msgs /\ Tail(pool) \in Seq(Msgs)
    BY <1>11 DEF StartWork
  <2>2. status' \in [Msgs -> Statuses]
    BY <1>11, <2>1 DEF StartWork, Statuses, Submitted, Working
  <2> QED
    BY <1>11, <2>1, <2>2 DEF StartWork, consumerVars
<1>12. ASSUME NEW m \in Msgs, FinishHandler(m) PROVE TypeOK'
  BY <1>12 DEF FinishHandler, consumerVars, Statuses, Submitted, Working
<1>13. ASSUME NEW m \in Msgs, Callback(m) PROVE TypeOK'
  BY <1>13 DEF Callback, Released, consumerVars, Statuses
<1>14. ASSUME NEW m \in Msgs, NEW s \in Sessions, CancelPending(m, s) PROVE TypeOK'
  <2>1. PICK f \in Msgs :
           /\ lock' = m
           /\ status' = [status EXCEPT ![m] = "stuck", ![f] = "cancelled"]
    BY <1>14 DEF CancelPending, Cancellable
  <2>2. status' \in [Msgs -> Statuses]
    BY <2>1 DEF Statuses, Submitted, Working
  <2> QED
    BY <1>14, <2>1, <2>2 DEF CancelPending, consumerVars
<1>15. ASSUME NEW m \in Msgs, NEW s \in Sessions, NEW st \in Statuses,
              ReplaceQueue(s, m, st)
       PROVE  /\ queue' \in [Sessions -> Seq(Msgs)]
              /\ status' \in [Msgs -> Statuses]
              /\ ref' \in {"current", "replaced"}
              /\ held' \in Seq(Msgs)
  <2>1. status' \in [Msgs -> Statuses]
    BY <1>15 DEF ReplaceQueue, Statuses
  <2>2. <<>> \in Seq(Msgs) /\ queue[s] \in Seq(Msgs)
    OBVIOUS
  <2> QED
    BY <1>15, <2>1, <2>2 DEF ReplaceQueue
<1>16. ASSUME NEW m \in Msgs, ResetSession(m) PROVE TypeOK'
  <2>1. "returning" \in Statuses /\ SessionOf[m] \in Sessions
    BY DEF Statuses, Submitted, Working
  <2>2. CASE CancelPending(m, SessionOf[m])
    BY <1>14, <2>1, <2>2
  <2>3. CASE /\ ReplaceQueue(SessionOf[m], m, "returning")
             /\ UNCHANGED <<lock, sessions, slots, tracked, futures, pool,
                            pc, todo, cur, job, resetTodo>>
    BY <1>15, <2>1, <2>3
  <2>4. CASE /\ status' = [status EXCEPT ![m] = "returning"]
             /\ UNCHANGED <<lock, sessions, queue, slots, tracked, futures, pool,
                            consumerVars, resetTodo>>
    BY <2>1, <2>4 DEF consumerVars
  <2> HIDE DEF IInv, TypeOK
  <2> QED
    BY <1>16, <2>2, <2>3, <2>4 DEF ResetSession
<1>17. ASSUME NEW m \in Msgs, ResetAllBegin(m) PROVE TypeOK'
  BY <1>17 DEF ResetAllBegin, consumerVars, Statuses, Submitted, Working
<1>18. ASSUME NEW m \in Msgs, NEW s \in Sessions, ResetAllVisit(m, s) PROVE TypeOK'
  <2>1. "resetting" \in Statuses
    BY DEF Statuses, Submitted, Working
  <2> QED
    BY <1>14, <1>15, <1>18, <2>1 DEF ResetAllVisit
<1>19. ASSUME NEW m \in Msgs, ResetAllEnd(m) PROVE TypeOK'
  BY <1>19 DEF ResetAllEnd, consumerVars, Statuses, Submitted, Working
<1>20. CASE UNCHANGED vars
  BY <1>20 DEF vars, consumerVars
<1> QED
  BY <1>1, <1>2, <1>3, <1>4, <1>5, <1>6, <1>7, <1>8, <1>9, <1>10, <1>11, <1>12,
     <1>13, <1>16, <1>17, <1>18, <1>19, <1>20
  DEF Next, Consumer, Worker

\* The futures of an idle session are all done, so the assertion holds and
\* there is an entry for it: the consumer lives on.
LEMMA DeleteSucceeds ==
    ASSUME IInv, DeleteSession
    PROVE  /\ cur \in Sessions
           /\ InFlight(cur) = {}
           /\ sessions' = sessions \ {cur}
           /\ queue' = [queue EXCEPT ![cur] = <<>>]
           /\ slots' = [slots EXCEPT ![cur] = 0]
           /\ futures' = [futures EXCEPT ![cur] = {}]
           /\ status' = [m \in Msgs |-> IF m \in Elements(queue[cur])
                                        THEN "lost" ELSE status[m]]
           /\ NextSession
           /\ UNCHANGED <<lock, tracked, pool, todo, ref, held, resetTodo>>
<1> USE DEF IInv
<1>1. cur \in Sessions /\ cur \in sessions /\ slots[cur] = 1 /\ pc = "delete"
  BY DEF DeleteSession, ConsumerInv, TypeOK
<1>2. slots[cur] = Cardinality(InFlight(cur)) + 1
  BY <1>1 DEF PermitAccounting, ConsumerHolds
<1>3. InFlight(cur) = {}
  BY <1>1, <1>2, InFlightFinite
<1>4. \A f \in futures[cur] : status[f] = "done"
  BY <1>1, <1>3 DEF FuturesInv, InFlight, TypeOK
<1>5. {m \in futures[cur] : status[m] \notin DoneStates} = {}
  BY <1>4 DEF DoneStates
<1>6. cur \in tracked
  BY <1>1 DEF TrackedInv
<1> QED
  BY <1>1, <1>3, <1>5, <1>6 DEF DeleteSession

\* The consumer's variables stay consistent with the dictionary.
LEMMA ConsumerStep ==
    ASSUME IInv, [Next]_vars
    PROVE  ConsumerInv'
<1> USE DispatchAssumption DEF DispatchAssumption, IInv, ConsumerInv
<1>0. Nil \notin sessions /\ sessions \subseteq Sessions
  BY DEF TypeOK
<1>1. ASSUME NEW m \in Msgs, Produce(m) PROVE ConsumerInv'
  BY <1>1 DEF Produce, consumerVars
<1>2. CASE ListSessions
  BY <1>2 DEF ListSessions
<1>3. ASSUME NEW s \in Sessions, ReadSession(s) PROVE ConsumerInv'
  BY <1>0, <1>3 DEF ReadSession
<1>4. CASE AllPermitsTaken
  BY <1>4 DEF AllPermitsTaken, NextSession, DropReference
<1>5. CASE TakeMessage
  BY <1>5, ReferencedType DEF TakeMessage, DropReference
<1>6. CASE FindEmpty
  BY <1>6 DEF FindEmpty, DropReference
<1>7. CASE RegisterCallback
  BY <1>7 DEF RegisterCallback
<1>8. CASE AppendFuture
  BY <1>8 DEF AppendFuture, NextSession
<1>9. CASE CheckIdle
  BY <1>9 DEF CheckIdle, NextSession
<1>10. CASE DeleteSession
  BY <1>10, DeleteSucceeds DEF NextSession, DeleteSession
<1>11. CASE StartWork
  BY <1>11 DEF StartWork, consumerVars
<1>12. ASSUME NEW m \in Msgs, FinishHandler(m) PROVE ConsumerInv'
  BY <1>12 DEF FinishHandler, consumerVars
<1>13. ASSUME NEW m \in Msgs, Callback(m) PROVE ConsumerInv'
  \* at "delete" the session has no task, so the callback is another session's
  <2>1. ASSUME pc = "delete" PROVE cur \in Sessions /\ InFlight(cur) = {}
    <3>1. slots[cur] = Cardinality(InFlight(cur)) + 1 /\ cur \in Sessions
      BY <1>0, <2>1 DEF PermitAccounting, ConsumerHolds
    <3> QED
      BY <2>1, <3>1, InFlightFinite
  <2>2. m \in InFlight(SessionOf[m])
    BY <1>13 DEF Callback, InFlight, Submitted, Working
  <2>3. pc = "delete" => slots'[cur] = 1
    BY <1>13, <2>1, <2>2 DEF Callback, Released, TypeOK
  <2> QED
    BY <1>13, <2>3 DEF Callback, consumerVars
<1>14. ASSUME NEW m \in Msgs, NEW s \in Sessions, CancelPending(m, s) PROVE ConsumerInv'
  BY <1>14 DEF CancelPending, consumerVars
<1>15. ASSUME NEW m \in Msgs, NEW s \in Sessions, NEW st, ReplaceQueue(s, m, st)
       PROVE  (pc # "acquire" => ref' = "current") /\ (ref' = "current" => held' = <<>>)
  BY <1>15 DEF ReplaceQueue
<1>16. ASSUME NEW m \in Msgs, ResetSession(m) PROVE ConsumerInv'
  <2>1. SessionOf[m] \in Sessions
    OBVIOUS
  <2> QED
    BY <1>14, <1>15, <1>16, <2>1 DEF ResetSession, consumerVars
<1>17. ASSUME NEW m \in Msgs, ResetAllBegin(m) PROVE ConsumerInv'
  BY <1>17 DEF ResetAllBegin, consumerVars
<1>18. ASSUME NEW m \in Msgs, NEW s \in Sessions, ResetAllVisit(m, s) PROVE ConsumerInv'
  BY <1>14, <1>15, <1>18 DEF ResetAllVisit
<1>19. ASSUME NEW m \in Msgs, ResetAllEnd(m) PROVE ConsumerInv'
  BY <1>19 DEF ResetAllEnd, consumerVars
<1>20. CASE UNCHANGED vars
  BY <1>20 DEF vars, consumerVars
<1> QED
  BY <1>1, <1>2, <1>3, <1>4, <1>5, <1>6, <1>7, <1>8, <1>9, <1>10, <1>11, <1>12,
     <1>13, <1>16, <1>17, <1>18, <1>19, <1>20
  DEF Next, Consumer, Worker

\* Queued messages are where they were after a step that leaves the queues,
\* the dictionary and every queued message alone.
LEMMA QueueKept ==
    ASSUME IInv, UNCHANGED <<queue, sessions>>,
           \A n \in Msgs : status[n] = "queued" => status'[n] = "queued"
    PROVE  QueueInv'
<1>1. \A s \in Sessions : \A i \in DOMAIN queue[s] : queue[s][i] \in Msgs
  BY DEF IInv, TypeOK
<1> QED
  BY <1>1 DEF IInv, QueueInv

\* What a reset does to the queue of s and to the statuses.
LEMMA ReplaceQueueEffect ==
    ASSUME IInv, NEW m \in Msgs, NEW s \in Sessions, NEW st,
           status[m] \in Working, ReplaceQueue(s, m, st)
    PROVE  /\ queue' = [queue EXCEPT ![s] = <<>>]
           /\ status'[m] = st
           /\ \A n \in Msgs \ {m} :
                 \/ status'[n] = status[n]
                 \/ status[n] = "queued" /\ SessionOf[n] = s /\ status'[n] = "discarded"
           /\ \A i \in DOMAIN queue[s] :
                 queue[s][i] # m /\ status'[queue[s][i]] = "discarded"
<1> USE DEF IInv
<1>1. \A i \in DOMAIN queue[s] :
        /\ queue[s][i] \in Msgs
        /\ queue[s][i] # m
        /\ status[queue[s][i]] = "queued" /\ SessionOf[queue[s][i]] = s
  BY DEF TypeOK, QueueInv, Working
<1>2. \A n \in Msgs : n \in Elements(queue[s]) =>
         n # m /\ status[n] = "queued" /\ SessionOf[n] = s
  BY <1>1 DEF Elements
<1>3. \A i \in DOMAIN queue[s] : queue[s][i] \in Elements(queue[s])
  BY DEF Elements
<1> QED
  BY <1>1, <1>2, <1>3 DEF ReplaceQueue

LEMMA QueueReplaced ==
    ASSUME IInv, NEW m \in Msgs, NEW s \in Sessions, NEW st,
           status[m] \in Working, ReplaceQueue(s, m, st), UNCHANGED sessions
    PROVE  QueueInv'
<1> USE DEF IInv
<1>1. queue' = [queue EXCEPT ![s] = <<>>]
  BY ReplaceQueueEffect
<1>2. ASSUME NEW t \in Sessions, t # s, NEW i \in DOMAIN queue[t]
      PROVE  status'[queue[t][i]] = "queued"
  <2>1. /\ queue[t][i] \in Msgs /\ queue[t][i] # m
        /\ status[queue[t][i]] = "queued" /\ SessionOf[queue[t][i]] = t
    BY DEF TypeOK, QueueInv, Working
  <2> QED
    BY <1>2, <2>1, ReplaceQueueEffect
<1>3. ASSUME NEW t \in Sessions
      PROVE  /\ t \notin sessions' => queue'[t] = <<>>
             /\ \A i \in DOMAIN queue'[t] :
                  status'[queue'[t][i]] = "queued" /\ SessionOf[queue'[t][i]] = t
             /\ \A i, j \in DOMAIN queue'[t] : queue'[t][i] = queue'[t][j] => i = j
  <2>1. CASE t = s
    BY <1>1, <2>1 DEF TypeOK
  <2>2. CASE t # s
    BY <1>1, <1>2, <2>2 DEF QueueInv, TypeOK
  <2> QED
    BY <2>1, <2>2
<1> QED
  BY <1>3 DEF QueueInv

\* The head of a queue leaves it.
LEMMA QueueTaken ==
    ASSUME IInv, TakeMessage
    PROVE  QueueInv'
<1> USE DEF IInv
<1>1. cur \in Sessions /\ Head(Referenced) \in Msgs
  BY ReferencedType DEF TakeMessage
<1>2. sessions' = sessions
  BY DEF TakeMessage
<1>3. CASE ref = "replaced"
  <2>1. 1 \in DOMAIN held /\ Head(Referenced) = held[1]
    BY <1>3 DEF TakeMessage, Referenced, TypeOK
  <2>2. status[Head(Referenced)] = "discarded"
    BY <2>1 DEF HeldInv
  <2> QED
    BY <1>1, <1>2, <1>3, <2>2, QueueKept DEF TakeMessage, TypeOK
<1>4. CASE ref # "replaced"
  <2> DEFINE q == queue[cur]
  <2>1. q \in Seq(Msgs) /\ q # <<>> /\ Head(Referenced) = q[1]
    BY <1>1, <1>4 DEF TakeMessage, Referenced, TypeOK
  <2>2. queue' = [queue EXCEPT ![cur] = Tail(q)]
    BY <1>4 DEF TakeMessage
  <2>3. \A i \in DOMAIN Tail(q) : i + 1 \in DOMAIN q /\ Tail(q)[i] = q[i + 1]
    BY <2>1
  <2>4. status' = [status EXCEPT ![q[1]] = "pending"]
    BY <2>1 DEF TakeMessage
  <2>5. 1 \in DOMAIN q /\ q[1] \in Msgs
    BY <2>1
  <2>a. SessionOf[q[1]] = cur
    BY <1>1, <2>5 DEF QueueInv
  <2>6. ASSUME NEW i \in DOMAIN Tail(q)
        PROVE  status'[Tail(q)[i]] = "queued" /\ SessionOf[Tail(q)[i]] = cur
    <3>1. i + 1 \in DOMAIN q /\ Tail(q)[i] = q[i + 1] /\ i + 1 # 1
      BY <2>1, <2>3
    <3>2. q[i + 1] # q[1] /\ q[i + 1] \in Msgs
      BY <1>1, <2>1, <2>5, <3>1 DEF QueueInv
    <3> QED
      BY <1>1, <2>4, <2>5, <3>1, <3>2 DEF QueueInv, TypeOK
  <2>7. \A i, j \in DOMAIN Tail(q) : Tail(q)[i] = Tail(q)[j] => i = j
    <3>1. \A i, j \in DOMAIN q : q[i] = q[j] => i = j
      BY <1>1 DEF QueueInv
    <3> SUFFICES ASSUME NEW i \in DOMAIN Tail(q), NEW j \in DOMAIN Tail(q),
                        Tail(q)[i] = Tail(q)[j]
                 PROVE  i = j
      OBVIOUS
    <3>2. i + 1 = j + 1 /\ i \in Nat /\ j \in Nat
      BY <2>1, <2>3, <3>1
    <3> QED
      BY <3>2
  <2>8. ASSUME NEW t \in Sessions, t # cur, NEW i \in DOMAIN queue[t]
        PROVE  status'[queue[t][i]] = "queued"
    <3>1. q[1] # queue[t][i] /\ queue[t][i] \in Msgs
      BY <2>a, <2>8 DEF QueueInv, TypeOK
    <3> QED
      BY <2>4, <2>5, <3>1 DEF QueueInv, TypeOK
  <2>9. cur \in sessions
    BY DEF TakeMessage, ConsumerInv
  <2>10. ASSUME NEW t \in Sessions
        PROVE  /\ t \notin sessions' => queue'[t] = <<>>
               /\ \A i \in DOMAIN queue'[t] :
                    status'[queue'[t][i]] = "queued" /\ SessionOf[queue'[t][i]] = t
               /\ \A i, j \in DOMAIN queue'[t] : queue'[t][i] = queue'[t][j] => i = j
    <3>1. CASE t = cur
      <4>1. queue'[t] = Tail(q)
        BY <1>1, <2>2, <3>1 DEF TypeOK
      <4> QED
        BY <1>2, <2>6, <2>7, <2>9, <3>1, <4>1
    <3>2. CASE t # cur
      <4>1. queue'[t] = queue[t]
        BY <1>1, <2>2, <3>2 DEF TypeOK
      <4> QED
        BY <1>2, <2>8, <3>2, <4>1 DEF QueueInv
    <3> QED
      BY <3>1, <3>2
  <2> QED
    BY <2>10 DEF QueueInv
<1> QED
  BY <1>3, <1>4

\* Queues hold waiting messages, each once.
LEMMA QueueStep ==
    ASSUME IInv, [Next]_vars
    PROVE  QueueInv'
<1> USE DispatchAssumption DEF DispatchAssumption, IInv
<1>1. ASSUME NEW m \in Msgs, Produce(m) PROVE QueueInv'
  <2> DEFINE s == SessionOf[m]
  <2> DEFINE q == queue[s]
  <2>1. s \in Sessions /\ q \in Seq(Msgs)
    BY DEF TypeOK
  <2>2. queue' = [queue EXCEPT ![s] = IF KindOf[m] = "chat" THEN Append(q, m)
                                      ELSE <<m>> \o q]
    BY <1>1 DEF Produce
  <2>3. status[m] = "new" /\ status' = [status EXCEPT ![m] = "queued"]
    BY <1>1 DEF Produce
  <2>4. \A t \in Sessions : \A i \in DOMAIN queue[t] :
           /\ queue[t][i] \in Msgs /\ queue[t][i] # m
           /\ status'[queue[t][i]] = "queued" /\ SessionOf[queue[t][i]] = t
    BY <2>3 DEF TypeOK, QueueInv
  <2>5. \A i, j \in DOMAIN q : q[i] = q[j] => i = j
    BY <2>1 DEF QueueInv
  <2>6. status'[m] = "queued"
    BY <2>3 DEF TypeOK
  <2>7. \A i \in DOMAIN q : q[i] # m /\ status'[q[i]] = "queued" /\ SessionOf[q[i]] = s
    BY <2>1, <2>4
  <2>8. ASSUME NEW r, r = Append(q, m) \/ r = <<m>> \o q
        PROVE  /\ \A i \in DOMAIN r : status'[r[i]] = "queued" /\ SessionOf[r[i]] = s
               /\ \A i, j \in DOMAIN r : r[i] = r[j] => i = j
    <3> HIDE DEF q, s
    <3>1. CASE r = Append(q, m)
      <4>1. DOMAIN r = DOMAIN q \cup {Len(q) + 1} /\ Len(q) \in Nat
            /\ DOMAIN q = 1 .. Len(q)
        BY <2>1, <3>1
      <4>2. \A i \in DOMAIN r : r[i] = IF i = Len(q) + 1 THEN m ELSE q[i]
        BY <2>1, <3>1
      <4>3. SessionOf[m] = s
        BY DEF s
      <4> QED
        BY <2>5, <2>6, <2>7, <4>1, <4>2, <4>3
    <3>2. CASE r = <<m>> \o q
      <4>1. DOMAIN r = 1 .. Len(q) + 1 /\ Len(q) \in Nat /\ DOMAIN q = 1 .. Len(q)
        BY <2>1, <3>2
      <4>2. \A i \in DOMAIN r : r[i] = IF i = 1 THEN m ELSE q[i - 1]
        BY <2>1, <3>2
      <4>3. SessionOf[m] = s
        BY DEF s
      <4>4. \A i \in DOMAIN r \ {1} : i - 1 \in DOMAIN q
        BY <4>1
      <4> QED
        BY <2>5, <2>6, <2>7, <4>1, <4>2, <4>3, <4>4
    <3> QED
      BY <2>8, <3>1, <3>2
  <2>9. ASSUME NEW t \in Sessions
        PROVE  /\ t \notin sessions' => queue'[t] = <<>>
               /\ \A i \in DOMAIN queue'[t] :
                    status'[queue'[t][i]] = "queued" /\ SessionOf[queue'[t][i]] = t
               /\ \A i, j \in DOMAIN queue'[t] : queue'[t][i] = queue'[t][j] => i = j
    <3>1. sessions' = sessions \cup {s}
      BY <1>1 DEF Produce
    <3>2. CASE t = s
      <4>1. queue'[t] = Append(q, m) \/ queue'[t] = <<m>> \o q
        BY <2>1, <2>2, <3>2 DEF TypeOK
      <4> QED
        BY <2>8, <3>1, <3>2, <4>1
    <3>3. CASE t # s
      <4>1. queue'[t] = queue[t]
        BY <2>2, <3>3 DEF TypeOK
      <4> QED
        BY <2>4, <3>1, <3>3, <4>1 DEF QueueInv
    <3> QED
      BY <3>2, <3>3
  <2> QED
    BY <2>9 DEF QueueInv
<1>2. CASE ListSessions
  BY <1>2, QueueKept DEF ListSessions
<1>3. ASSUME NEW s \in Sessions, ReadSession(s) PROVE QueueInv'
  BY <1>3, QueueKept DEF ReadSession
<1>4. CASE AllPermitsTaken
  BY <1>4, QueueKept DEF AllPermitsTaken
<1>5. CASE TakeMessage
  BY <1>5, QueueTaken
<1>6. CASE FindEmpty
  BY <1>6, QueueKept DEF FindEmpty
<1>7. CASE RegisterCallback
  BY <1>7, QueueKept DEF RegisterCallback, TypeOK
<1>8. CASE AppendFuture
  BY <1>8, QueueKept DEF AppendFuture
<1>9. CASE CheckIdle
  BY <1>9, QueueKept DEF CheckIdle
<1>10. CASE DeleteSession
  <2>1. /\ cur \in Sessions
        /\ sessions' = sessions \ {cur}
        /\ queue' = [queue EXCEPT ![cur] = <<>>]
        /\ status' = [m \in Msgs |-> IF m \in Elements(queue[cur])
                                     THEN "lost" ELSE status[m]]
    BY <1>10, DeleteSucceeds
  <2>2. \A n \in Elements(queue[cur]) : SessionOf[n] = cur
    BY <2>1 DEF Elements, QueueInv
  <2>3. ASSUME NEW t \in Sessions, t # cur, NEW i \in DOMAIN queue[t]
        PROVE  status'[queue[t][i]] = "queued"
    <3>1. queue[t][i] \in Msgs /\ queue[t][i] \notin Elements(queue[cur])
      BY <2>2, <2>3 DEF QueueInv, TypeOK
    <3> QED
      BY <2>1, <3>1 DEF QueueInv
  <2>4. \A t \in Sessions : queue'[t] = IF t = cur THEN <<>> ELSE queue[t]
    BY <2>1 DEF TypeOK
  <2>5. ASSUME NEW t \in Sessions
        PROVE  /\ t \notin sessions' => queue'[t] = <<>>
               /\ \A i \in DOMAIN queue'[t] :
                    status'[queue'[t][i]] = "queued" /\ SessionOf[queue'[t][i]] = t
               /\ \A i, j \in DOMAIN queue'[t] : queue'[t][i] = queue'[t][j] => i = j
    <3>1. CASE t = cur
      BY <2>4, <3>1
    <3>2. CASE t # cur
      <4>1. queue'[t] = queue[t]
        BY <2>4, <3>2
      <4> QED
        BY <2>1, <2>3, <3>2, <4>1 DEF QueueInv
    <3> QED
      BY <3>1, <3>2
  <2> QED
    BY <2>5 DEF QueueInv
<1>11. CASE StartWork
  <2>1. \A n \in Msgs : status[n] = "queued" => status'[n] = "queued"
    BY <1>11 DEF StartWork, TypeOK
  <2> QED
    BY <1>11, <2>1, QueueKept DEF StartWork
<1>12. ASSUME NEW m \in Msgs, FinishHandler(m) PROVE QueueInv'
  BY <1>12, QueueKept DEF FinishHandler, TypeOK
<1>13. ASSUME NEW m \in Msgs, Callback(m) PROVE QueueInv'
  BY <1>13, QueueKept DEF Callback, TypeOK
<1>14. ASSUME NEW m \in Msgs, NEW s \in Sessions, CancelPending(m, s), status[m] # "queued"
       PROVE  QueueInv'
  <2>1. \A n \in Msgs : status[n] = "queued" => status'[n] = "queued"
    BY <1>14 DEF CancelPending, Cancellable, TypeOK
  <2> QED
    BY <1>14, <2>1, QueueKept DEF CancelPending
<1>15. "running" \in Working /\ "resetting" \in Working
  BY DEF Working
<1>16. ASSUME NEW m \in Msgs, ResetSession(m) PROVE QueueInv'
  <2>1. SessionOf[m] \in Sessions /\ status[m] = "running"
    BY <1>16 DEF ResetSession
  <2>2. CASE CancelPending(m, SessionOf[m])
    BY <1>14, <2>1, <2>2
  <2>3. CASE ReplaceQueue(SessionOf[m], m, "returning") /\ UNCHANGED sessions
    BY <1>15, <2>1, <2>3, QueueReplaced
  <2>4. CASE UNCHANGED <<queue, sessions>> /\ status' = [status EXCEPT ![m] = "returning"]
    BY <2>1, <2>4, QueueKept DEF TypeOK
  <2> QED
    BY <1>16, <2>2, <2>3, <2>4 DEF ResetSession
<1>17. ASSUME NEW m \in Msgs, ResetAllBegin(m) PROVE QueueInv'
  BY <1>17, QueueKept DEF ResetAllBegin, TypeOK
<1>18. ASSUME NEW m \in Msgs, NEW s \in Sessions, ResetAllVisit(m, s) PROVE QueueInv'
  <2>1. status[m] = "resetting"
    BY <1>18 DEF ResetAllVisit
  <2>2. CASE CancelPending(m, s)
    BY <1>14, <2>1, <2>2
  <2>3. CASE ReplaceQueue(s, m, "resetting") /\ UNCHANGED sessions
    BY <1>15, <2>1, <2>3, QueueReplaced
  <2> QED
    BY <1>18, <2>2, <2>3 DEF ResetAllVisit
<1>19. ASSUME NEW m \in Msgs, ResetAllEnd(m) PROVE QueueInv'
  BY <1>19, QueueKept DEF ResetAllEnd, TypeOK
<1>20. CASE UNCHANGED vars
  BY <1>20, QueueKept DEF vars
<1> QED
  BY <1>1, <1>2, <1>3, <1>4, <1>5, <1>6, <1>7, <1>8, <1>9, <1>10, <1>11, <1>12,
     <1>13, <1>16, <1>17, <1>18, <1>19, <1>20
  DEF Next, Consumer, Worker

\* The queue only the consumer refers to holds discarded messages.
LEMMA HeldStep ==
    ASSUME IInv, [Next]_vars
    PROVE  HeldInv'
<1> USE DispatchAssumption DEF DispatchAssumption, IInv
<1>1. \A i \in DOMAIN held : held[i] \in Msgs
  BY DEF TypeOK
<1>2. ASSUME UNCHANGED <<held, cur>>,
             \A n \in Msgs : status[n] = "discarded" => status'[n] = "discarded"
      PROVE  HeldInv'
  BY <1>1, <1>2 DEF HeldInv
<1>3. ASSUME held' = <<>> PROVE HeldInv'
  BY <1>3 DEF HeldInv
<1>4. ASSUME NEW m \in Msgs, NEW s \in Sessions, NEW st,
             status[m] \in Working, ReplaceQueue(s, m, st), UNCHANGED cur
      PROVE  HeldInv'
  <2>1. CASE held' = queue[s] /\ cur = s
    <3>1. \A i \in DOMAIN queue[s] :
             status'[queue[s][i]] = "discarded" /\ SessionOf[queue[s][i]] = s
      BY <1>4, ReplaceQueueEffect DEF QueueInv
    <3> QED
      BY <1>4, <2>1, <3>1 DEF HeldInv
  <2>2. CASE UNCHANGED held
    <3>1. \A n \in Msgs : status[n] = "discarded" => n # m
      BY <1>4 DEF Working
    <3>2. \A n \in Msgs : status[n] = "discarded" => status'[n] = "discarded"
      BY <1>4, <3>1, ReplaceQueueEffect
    <3> QED
      BY <1>2, <1>4, <2>2, <3>2
  <2> QED
    BY <1>4, <2>1, <2>2 DEF ReplaceQueue
<1>5. ASSUME NEW m \in Msgs, NEW s \in Sessions, CancelPending(m, s), status[m] \in Working
      PROVE  HeldInv'
  <2>1. \A n \in Msgs : status[n] = "discarded" => status'[n] = "discarded"
    BY <1>5 DEF CancelPending, Cancellable, Working, TypeOK
  <2> QED
    BY <1>2, <1>5, <2>1 DEF CancelPending, consumerVars
<1>6. "running" \in Working /\ "resetting" \in Working
  BY DEF Working
<1>7. ASSUME NEW m \in Msgs, Produce(m) PROVE HeldInv'
  BY <1>2, <1>7 DEF Produce, consumerVars, TypeOK
<1>8. CASE ListSessions
  BY <1>2, <1>8 DEF ListSessions
<1>9. ASSUME NEW s \in Sessions, ReadSession(s) PROVE HeldInv'
  BY <1>3, <1>9 DEF ReadSession, ConsumerInv
<1>10. CASE AllPermitsTaken \/ TakeMessage \/ FindEmpty
  BY <1>3, <1>10 DEF AllPermitsTaken, TakeMessage, FindEmpty, DropReference
<1>11. CASE RegisterCallback
  BY <1>3, <1>11 DEF RegisterCallback, ConsumerInv
<1>12. CASE AppendFuture \/ CheckIdle
  BY <1>3, <1>12 DEF AppendFuture, CheckIdle, ConsumerInv
<1>13. CASE DeleteSession
  BY <1>3, <1>13 DEF DeleteSession, ConsumerInv
<1>14. CASE StartWork
  <2>1. \A n \in Msgs : status[n] = "discarded" => status'[n] = "discarded"
    BY <1>14 DEF StartWork, TypeOK
  <2> QED
    BY <1>2, <1>14, <2>1 DEF StartWork, consumerVars
<1>15. ASSUME NEW m \in Msgs, FinishHandler(m) PROVE HeldInv'
  BY <1>2, <1>15 DEF FinishHandler, consumerVars, TypeOK
<1>16. ASSUME NEW m \in Msgs, Callback(m) PROVE HeldInv'
  BY <1>2, <1>16 DEF Callback, consumerVars, TypeOK
<1>17. ASSUME NEW m \in Msgs, ResetSession(m) PROVE HeldInv'
  <2>1. SessionOf[m] \in Sessions /\ status[m] = "running"
    BY <1>17 DEF ResetSession
  <2>2. CASE CancelPending(m, SessionOf[m])
    BY <1>5, <1>6, <2>1, <2>2
  <2>3. CASE ReplaceQueue(SessionOf[m], m, "returning") /\ UNCHANGED cur
    BY <1>4, <1>6, <2>1, <2>3
  <2>4. CASE UNCHANGED consumerVars /\ status' = [status EXCEPT ![m] = "returning"]
    BY <1>2, <2>1, <2>4 DEF TypeOK, consumerVars
  <2> QED
    BY <1>17, <2>2, <2>3, <2>4 DEF ResetSession
<1>18. ASSUME NEW m \in Msgs, ResetAllBegin(m) PROVE HeldInv'
  BY <1>2, <1>18 DEF ResetAllBegin, consumerVars, TypeOK
<1>19. ASSUME NEW m \in Msgs, NEW s \in Sessions, ResetAllVisit(m, s) PROVE HeldInv'
  <2>1. status[m] = "resetting"
    BY <1>19 DEF ResetAllVisit
  <2>2. CASE CancelPending(m, s)
    BY <1>5, <1>6, <2>1, <2>2
  <2>3. CASE ReplaceQueue(s, m, "resetting") /\ UNCHANGED cur
    BY <1>4, <1>6, <2>1, <2>3
  <2> QED
    BY <1>19, <2>2, <2>3 DEF ResetAllVisit
<1>20. ASSUME NEW m \in Msgs, ResetAllEnd(m) PROVE HeldInv'
  BY <1>2, <1>20 DEF ResetAllEnd, consumerVars, TypeOK
<1>21. CASE UNCHANGED vars
  BY <1>2, <1>21 DEF vars, consumerVars
<1> QED
  BY <1>7, <1>8, <1>9, <1>10, <1>11, <1>12, <1>13, <1>14, <1>15, <1>16, <1>17,
     <1>18, <1>19, <1>20, <1>21
  DEF Next, Consumer, Worker

\* The steps of the workers, but for the callback.
HandlerStep(m) ==
    \/ FinishHandler(m)
    \/ ResetSession(m)
    \/ ResetAllBegin(m)
    \/ \E s \in Sessions : ResetAllVisit(m, s)
    \/ ResetAllEnd(m)

\* They make no message a task and end no task.
LEMMA SubmittedKept ==
    ASSUME IInv, StartWork \/ \E m \in Msgs : HandlerStep(m)
    PROVE  \A n \in Msgs :
              \/ status'[n] = status[n]
              \/ status[n] = "queued" /\ status'[n] = "discarded"
              \/ /\ status[n] \in Submitted /\ status'[n] \in Submitted
                 /\ status'[n] # "pending"
<1> USE DispatchAssumption DEF DispatchAssumption, IInv, TypeOK
<1>1. CASE StartWork
  BY <1>1 DEF StartWork, Submitted, Working
<1>2. ASSUME NEW m \in Msgs, FinishHandler(m) \/ ResetAllBegin(m) \/ ResetAllEnd(m)
      PROVE  \A n \in Msgs :
              \/ status'[n] = status[n]
              \/ /\ status[n] \in Submitted /\ status'[n] \in Submitted
                 /\ status'[n] # "pending"
  BY <1>2 DEF FinishHandler, ResetAllBegin, ResetAllEnd, Submitted, Working
<1>3. ASSUME NEW m \in Msgs, NEW s \in Sessions, CancelPending(m, s), status[m] \in Working
      PROVE  \A n \in Msgs :
              \/ status'[n] = status[n]
              \/ /\ status[n] \in Submitted /\ status'[n] \in Submitted
                 /\ status'[n] # "pending"
  BY <1>3 DEF CancelPending, Cancellable, Submitted, Working
<1>4. ASSUME NEW m \in Msgs, NEW s \in Sessions, NEW st \in Working,
             ReplaceQueue(s, m, st), status[m] \in Working
      PROVE  \A n \in Msgs :
              \/ status'[n] = status[n]
              \/ status[n] = "queued" /\ status'[n] = "discarded"
              \/ /\ status[n] \in Submitted /\ status'[n] \in Submitted
                 /\ status'[n] # "pending"
  <2> HIDE DEF IInv, TypeOK
  <2>1. status'[m] = st
    BY <1>4, ReplaceQueueEffect
  <2>2. \A n \in Msgs \ {m} :
           \/ status'[n] = status[n]
           \/ status[n] = "queued" /\ status'[n] = "discarded"
    BY <1>4, ReplaceQueueEffect
  <2> QED
    BY <1>4, <2>1, <2>2 DEF Submitted, Working
<1>5. "running" \in Working /\ "resetting" \in Working /\ "returning" \in Working
  BY DEF Working
<1>6. ASSUME NEW m \in Msgs, ResetSession(m)
      PROVE  \A n \in Msgs :
              \/ status'[n] = status[n]
              \/ status[n] = "queued" /\ status'[n] = "discarded"
              \/ /\ status[n] \in Submitted /\ status'[n] \in Submitted
                 /\ status'[n] # "pending"
  <2>1. SessionOf[m] \in Sessions /\ status[m] = "running"
    BY <1>6 DEF ResetSession
  <2>2. CASE CancelPending(m, SessionOf[m])
    BY <1>3, <1>5, <2>1, <2>2
  <2>3. CASE ReplaceQueue(SessionOf[m], m, "returning")
    BY <1>4, <1>5, <2>1, <2>3
  <2>4. CASE status' = [status EXCEPT ![m] = "returning"]
    BY <1>5, <2>1, <2>4 DEF Submitted
  <2> QED
    BY <1>6, <2>2, <2>3, <2>4 DEF ResetSession
<1>7. ASSUME NEW m \in Msgs, NEW s \in Sessions, ResetAllVisit(m, s)
      PROVE  \A n \in Msgs :
              \/ status'[n] = status[n]
              \/ status[n] = "queued" /\ status'[n] = "discarded"
              \/ /\ status[n] \in Submitted /\ status'[n] \in Submitted
                 /\ status'[n] # "pending"
  <2>1. status[m] = "resetting"
    BY <1>7 DEF ResetAllVisit
  <2>2. CASE CancelPending(m, s)
    BY <1>3, <1>5, <2>1, <2>2
  <2>3. CASE ReplaceQueue(s, m, "resetting")
    BY <1>4, <1>5, <2>1, <2>3
  <2> QED
    BY <1>7, <2>2, <2>3 DEF ResetAllVisit
<1> QED
  BY <1>1, <1>2, <1>6, <1>7 DEF HandlerStep

\* They leave the dictionaries and the consumer's loop alone.
LEMMA LoopKept ==
    ASSUME StartWork \/ \E m \in Msgs : HandlerStep(m)
    PROVE  UNCHANGED <<sessions, slots, tracked, futures, pc, todo, cur, job>>
<1> QED
  BY DEF StartWork, HandlerStep, FinishHandler, ResetSession, ResetAllBegin,
         ResetAllVisit, ResetAllEnd, CancelPending, consumerVars

\* Recorded futures are tasks.
LEMMA FuturesStep ==
    ASSUME IInv, [Next]_vars
    PROVE  FuturesInv'
<1> USE DispatchAssumption DEF DispatchAssumption, IInv
<1>0. /\ \A s \in Sessions : \A f \in futures[s] : f \in Msgs
      /\ pc \in {"register", "append"} => job \in Msgs
  BY DEF TypeOK, ConsumerInv
<1>1. ASSUME UNCHANGED <<futures, pc, job>>,
             \A n \in Msgs : status[n] \in Submitted \cup {"done"}
                                => status'[n] \in Submitted \cup {"done"}
      PROVE  FuturesInv'
  BY <1>0, <1>1 DEF FuturesInv
<1>2. ASSUME NEW m \in Msgs, Produce(m) PROVE FuturesInv'
  BY <1>1, <1>2 DEF Produce, consumerVars, TypeOK, Submitted, Working
<1>3. CASE ListSessions
  BY <1>1, <1>3 DEF ListSessions
<1>4. ASSUME NEW s \in Sessions, ReadSession(s) PROVE FuturesInv'
  BY <1>4 DEF ReadSession, FuturesInv
<1>5. CASE AllPermitsTaken \/ FindEmpty \/ CheckIdle
  BY <1>5 DEF AllPermitsTaken, FindEmpty, CheckIdle, NextSession, FuturesInv
<1>6. CASE TakeMessage
  <2>1. /\ Head(Referenced) \in Msgs /\ job' = Head(Referenced)
        /\ futures' = futures
        /\ status' = [status EXCEPT ![Head(Referenced)] = "pending"]
    BY <1>6, ReferencedType DEF TakeMessage
  <2>2. "pending" \in Submitted
    BY DEF Submitted
  <2>3. status'[Head(Referenced)] = "pending"
    BY <2>1 DEF TypeOK
  <2>4. \A n \in Msgs : status'[n] \in {status[n], "pending"}
    BY <2>1 DEF TypeOK
  <2> QED
    BY <1>0, <2>1, <2>2, <2>3, <2>4 DEF FuturesInv
<1>7. CASE RegisterCallback
  <2>1. \A n \in Msgs : status'[n] \in {status[n], "done"}
    BY <1>7 DEF RegisterCallback, TypeOK
  <2>2. futures' = futures /\ job' = job /\ job \in Msgs /\ pc = "register"
    BY <1>0, <1>7 DEF RegisterCallback
  <2> QED
    BY <1>0, <2>1, <2>2 DEF FuturesInv
<1>8. CASE AppendFuture
  <2>1. cur \in Sessions /\ SessionOf[job] = cur
    BY <1>8 DEF AppendFuture, ConsumerInv, TypeOK
  <2> QED
    BY <1>8, <2>1 DEF AppendFuture, NextSession, FuturesInv, TypeOK
<1>9. CASE DeleteSession
  <2>1. /\ cur \in Sessions /\ pc' = "each"
        /\ futures' = [futures EXCEPT ![cur] = {}]
        /\ status' = [m \in Msgs |-> IF m \in Elements(queue[cur])
                                     THEN "lost" ELSE status[m]]
    BY <1>9, DeleteSucceeds DEF NextSession
  <2>2. \A n \in Elements(queue[cur]) : status[n] = "queued"
    BY <2>1 DEF Elements, QueueInv
  <2>3. \A n \in Msgs : status[n] \in Submitted \cup {"done"} => status'[n] = status[n]
    BY <2>1, <2>2 DEF Submitted, Working
  <2>4. \A s \in Sessions : futures'[s] \subseteq futures[s]
    BY <2>1 DEF TypeOK
  <2> QED
    BY <1>0, <2>1, <2>3, <2>4 DEF FuturesInv
<1>10. ASSUME NEW m \in Msgs, Callback(m) PROVE FuturesInv'
  BY <1>1, <1>10 DEF Callback, consumerVars, TypeOK
<1>11. CASE StartWork \/ \E m \in Msgs : HandlerStep(m)
  <2>1. "queued" \notin Submitted \cup {"done"}
    BY DEF Submitted, Working
  <2> QED
    BY <1>1, <1>11, <2>1, SubmittedKept, LoopKept
<1>12. CASE UNCHANGED vars
  BY <1>1, <1>12 DEF vars, consumerVars
<1> QED
  BY <1>2, <1>3, <1>4, <1>5, <1>6, <1>7, <1>8, <1>9, <1>10, <1>11, <1>12
  DEF Next, Consumer, Worker, HandlerStep

\* A session that was never served has something to serve.
LEMMA TrackedStep ==
    ASSUME IInv, [Next]_vars
    PROVE  TrackedInv'
<1> USE DispatchAssumption DEF DispatchAssumption, IInv
<1>0. sessions \subseteq Sessions
  BY DEF TypeOK
<1>1. ASSUME UNCHANGED <<sessions, queue, tracked, cur, pc, ref>> PROVE TrackedInv'
  BY <1>1 DEF TrackedInv
<1>2. ASSUME NEW m \in Msgs, Produce(m) PROVE TrackedInv'
  <2> DEFINE s == SessionOf[m]
  <2>1. /\ sessions' = sessions \cup {s}
        /\ UNCHANGED <<tracked, cur, pc, ref>>
        /\ s \in Sessions /\ queue[s] \in Seq(Msgs)
        /\ queue' = [queue EXCEPT ![s] = IF KindOf[m] = "chat" THEN Append(queue[s], m)
                                         ELSE <<m>> \o queue[s]]
    BY <1>2 DEF Produce, consumerVars, TypeOK
  <2>2. Append(queue[s], m) # <<>> /\ <<m>> \o queue[s] # <<>>
    BY <2>1
  <2>3. queue'[s] # <<>> /\ \A t \in Sessions \ {s} : queue'[t] = queue[t]
    BY <2>1, <2>2 DEF TypeOK
  <2> QED
    BY <1>0, <2>1, <2>3 DEF TrackedInv
<1>3. CASE ListSessions
  BY <1>1, <1>3 DEF ListSessions
<1>4. ASSUME NEW s \in Sessions, ReadSession(s) PROVE TrackedInv'
  BY <1>4 DEF ReadSession, TrackedInv, ConsumerInv
<1>5. CASE AllPermitsTaken
  BY <1>5 DEF AllPermitsTaken, NextSession, DropReference, TrackedInv
<1>6. CASE TakeMessage
  <2>1. UNCHANGED <<sessions, tracked, cur>> /\ pc' = "register" /\ ref' = "current"
    BY <1>6 DEF TakeMessage, DropReference
  <2>2. pc = "acquire" /\ cur \in Sessions
    BY <1>6, ReferencedType DEF TakeMessage
  <2>3. \A t \in Sessions \ {cur} : queue'[t] = queue[t]
    BY <1>6, <2>2 DEF TakeMessage, TypeOK
  <2> QED
    BY <1>0, <2>1, <2>2, <2>3 DEF TrackedInv
<1>7. CASE FindEmpty
  <2>1. cur \in tracked
    <3>1. CASE ref = "replaced"
      BY <3>1 DEF TrackedInv
    <3>2. CASE ref # "replaced"
      BY <1>7, <3>2 DEF FindEmpty, Referenced, TrackedInv, ConsumerInv
    <3> QED
      BY <3>1, <3>2
  <2> QED
    BY <1>7, <2>1 DEF FindEmpty, DropReference, TrackedInv
<1>8. CASE RegisterCallback
  BY <1>8 DEF RegisterCallback, TrackedInv, ConsumerInv
<1>9. CASE AppendFuture
  BY <1>9 DEF AppendFuture, NextSession, TrackedInv, ConsumerInv
<1>10. CASE CheckIdle
  BY <1>10 DEF CheckIdle, NextSession, TrackedInv, ConsumerInv
<1>11. CASE DeleteSession
  <2>1. /\ cur \in Sessions /\ pc = "delete" /\ pc' = "each" /\ ref' = ref
        /\ tracked' = tracked /\ sessions' = sessions \ {cur}
        /\ queue' = [queue EXCEPT ![cur] = <<>>]
    BY <1>11, DeleteSucceeds DEF NextSession, DeleteSession
  <2>2. \A t \in Sessions \ {cur} : queue'[t] = queue[t]
    BY <2>1 DEF TypeOK
  <2> QED
    BY <1>0, <2>1, <2>2 DEF TrackedInv, ConsumerInv
<1>12. CASE StartWork
  BY <1>1, <1>12 DEF StartWork, consumerVars
<1>13. ASSUME NEW m \in Msgs, FinishHandler(m) \/ Callback(m) PROVE TrackedInv'
  BY <1>1, <1>13 DEF FinishHandler, Callback, consumerVars
<1>14. ASSUME NEW m \in Msgs, NEW s \in tracked, NEW st, ReplaceQueue(s, m, st),
              UNCHANGED <<sessions, tracked, cur, pc>>
       PROVE  TrackedInv'
  <2>1. s \in Sessions
    BY DEF TypeOK
  <2>2. \A t \in Sessions \ {s} : queue'[t] = queue[t]
    BY <1>14, <2>1 DEF ReplaceQueue, TypeOK
  <2>3. ref' = ref \/ cur = s
    BY <1>14 DEF ReplaceQueue
  <2> QED
    BY <1>0, <1>14, <2>2, <2>3 DEF TrackedInv
<1>15. ASSUME NEW m \in Msgs, NEW s \in Sessions, CancelPending(m, s) PROVE TrackedInv'
  BY <1>1, <1>15 DEF CancelPending, consumerVars
<1>16. ASSUME NEW m \in Msgs, ResetSession(m) PROVE TrackedInv'
  <2>1. SessionOf[m] \in Sessions
    OBVIOUS
  <2> QED
    BY <1>1, <1>14, <1>15, <1>16, <2>1 DEF ResetSession, consumerVars
<1>17. ASSUME NEW m \in Msgs, ResetAllBegin(m) \/ ResetAllEnd(m) PROVE TrackedInv'
  BY <1>1, <1>17 DEF ResetAllBegin, ResetAllEnd, consumerVars
<1>18. ASSUME NEW m \in Msgs, NEW s \in Sessions, ResetAllVisit(m, s) PROVE TrackedInv'
  BY <1>14, <1>15, <1>18 DEF ResetAllVisit
<1>19. CASE UNCHANGED vars
  BY <1>1, <1>19 DEF vars, consumerVars
<1> QED
  BY <1>2, <1>3, <1>4, <1>5, <1>6, <1>7, <1>8, <1>9, <1>10, <1>11, <1>12,
     <1>13, <1>16, <1>17, <1>18, <1>19
  DEF Next, Consumer, Worker

\* A semaphore never hands out more than it has.
LEMMA SlotsStep ==
    ASSUME IInv, [Next]_vars
    PROVE  SlotsBound'
<1> USE DispatchAssumption DEF DispatchAssumption, IInv, SlotsBound
<1>1. ASSUME UNCHANGED slots PROVE SlotsBound'
  BY <1>1
<1>2. ASSUME NEW s \in Sessions, slots' = Released(s) PROVE SlotsBound'
  BY <1>2 DEF Released, TypeOK
<1>3. CASE TakeMessage \/ FindEmpty
  <2>1. /\ cur \in Sessions /\ slots[cur] < Concurrency /\ slots[cur] \in Nat
        /\ slots' = [slots EXCEPT ![cur] = slots[cur] + 1]
    BY <1>3, ReferencedType DEF TakeMessage, FindEmpty, TypeOK
  <2>2. \A s \in Sessions : slots'[s] = IF s = cur THEN slots[cur] + 1 ELSE slots[s]
    BY <2>1 DEF TypeOK
  <2> QED
    BY <2>1, <2>2
<1>4. CASE RegisterCallback \/ CheckIdle
  <2>1. cur \in Sessions
    BY <1>4 DEF RegisterCallback, CheckIdle, ConsumerInv, TypeOK
  <2> QED
    BY <1>1, <1>2, <1>4, <2>1 DEF RegisterCallback, CheckIdle
<1>5. CASE DeleteSession
  <2>1. \A s \in Sessions : slots'[s] = IF s = cur THEN 0 ELSE slots[s]
    BY <1>5, DeleteSucceeds DEF TypeOK
  <2> QED
    BY <2>1
<1>6. ASSUME NEW m \in Msgs, Callback(m) PROVE SlotsBound'
  <2>1. SessionOf[m] \in Sessions
    OBVIOUS
  <2> QED
    BY <1>2, <1>6, <2>1 DEF Callback
<1>7. CASE StartWork \/ \E m \in Msgs : HandlerStep(m)
  BY <1>1, <1>7, LoopKept
<1>8. ASSUME NEW m \in Msgs, Produce(m) PROVE SlotsBound'
  BY <1>1, <1>8 DEF Produce
<1>9. CASE ListSessions \/ AllPermitsTaken \/ AppendFuture \/ UNCHANGED vars
  BY <1>1, <1>9 DEF ListSessions, AllPermitsTaken, AppendFuture, vars
<1>10. ASSUME NEW s \in Sessions, ReadSession(s) PROVE SlotsBound'
  BY <1>1, <1>10 DEF ReadSession
<1> QED
  BY <1>3, <1>4, <1>5, <1>6, <1>7, <1>8, <1>9, <1>10
  DEF Next, Consumer, Worker, HandlerStep

\* The permit a task gives back is there, and the count matches again.
LEMMA PermitGivenBack ==
    ASSUME IInv, NEW m \in Msgs, status[m] \in {"callback", "finished"},
           slots' = Released(SessionOf[m]), status' = [status EXCEPT ![m] = "done"],
           UNCHANGED sessions, \A s \in Sessions : ConsumerHolds(s)' <=> ConsumerHolds(s)
    PROVE  PermitAccounting'
<1> USE DispatchAssumption DEF DispatchAssumption, IInv
<1> DEFINE t == SessionOf[m]
<1>1. t \in Sessions /\ m \in InFlight(t)
  BY DEF InFlight, Submitted, Working
<1>2. t \in sessions /\ slots[t] > 0
  BY <1>1, InFlightFinite DEF PermitAccounting
<1>3. InFlight(t)' = InFlight(t) \ {m}
  BY <1>1 DEF InFlight, TypeOK, Submitted, Working
<1>4. Cardinality(InFlight(t)') = Cardinality(InFlight(t)) - 1
  BY <1>1, <1>3, InFlightRemove
<1>5. slots' = [slots EXCEPT ![t] = slots[t] - 1]
  BY <1>2 DEF Released
<1>6. \A s \in Sessions \ {t} : InFlight(s)' = InFlight(s) /\ slots'[s] = slots[s]
  BY <1>5 DEF InFlight, TypeOK
<1>7. slots'[t] = slots[t] - 1
  BY <1>1, <1>5 DEF TypeOK
<1>8. ASSUME NEW s \in Sessions
      PROVE  IF s \in sessions'
             THEN slots'[s] = Cardinality(InFlight(s)')
                                + (IF ConsumerHolds(s)' THEN 1 ELSE 0)
             ELSE slots'[s] = 0 /\ InFlight(s)' = {}
  <2>1. CASE s = t
    BY <1>1, <1>2, <1>4, <1>7, <2>1, InFlightFinite DEF PermitAccounting
  <2>2. CASE s # t
    BY <1>6, <2>2 DEF PermitAccounting
  <2> QED
    BY <2>1, <2>2
<1> QED
  BY <1>8 DEF PermitAccounting

\* Permits are accounted for.
LEMMA PermitStep ==
    ASSUME IInv, [Next]_vars
    PROVE  PermitAccounting'
<1> USE DispatchAssumption DEF DispatchAssumption, IInv
<1>1. ASSUME UNCHANGED <<sessions, slots>>,
             \A s \in Sessions : ConsumerHolds(s)' <=> ConsumerHolds(s),
             \A n \in Msgs : status'[n] \in Submitted <=> status[n] \in Submitted
      PROVE  PermitAccounting'
  BY <1>1, InFlightSame DEF PermitAccounting
<1>2. ASSUME NEW m \in Msgs, Produce(m) PROVE PermitAccounting'
  <2> DEFINE t == SessionOf[m]
  <2>1. /\ sessions' = sessions \cup {t} /\ slots' = slots
        /\ \A s \in Sessions : ConsumerHolds(s)' <=> ConsumerHolds(s)
    BY <1>2 DEF Produce, consumerVars, ConsumerHolds
  <2>2. \A s \in Sessions : InFlight(s)' = InFlight(s)
    BY <1>2, InFlightSame DEF Produce, TypeOK, Submitted, Working
  <2>3. t \notin sessions =>
           slots[t] = 0 /\ Cardinality(InFlight(t)) = 0 /\ ~ConsumerHolds(t)
    <3>1. t \in Sessions
      OBVIOUS
    <3> QED
      BY <3>1, InFlightFinite DEF PermitAccounting, ConsumerHolds, ConsumerInv
  <2> QED
    BY <2>1, <2>2, <2>3 DEF PermitAccounting
<1>3. CASE ListSessions
  BY <1>1, <1>3 DEF ListSessions, ConsumerHolds
<1>4. ASSUME NEW s \in Sessions, ReadSession(s) PROVE PermitAccounting'
  BY <1>1, <1>4 DEF ReadSession, ConsumerHolds
<1>5. CASE AllPermitsTaken
  BY <1>1, <1>5 DEF AllPermitsTaken, NextSession, ConsumerHolds
<1>6. CASE TakeMessage
  <2> DEFINE m == Head(Referenced)
  <2>1. /\ cur \in Sessions /\ m \in Msgs /\ SessionOf[m] = cur
        /\ status[m] \in {"queued", "discarded"}
        /\ slots' = [slots EXCEPT ![cur] = @ + 1]
        /\ status' = [status EXCEPT ![m] = "pending"]
        /\ sessions' = sessions /\ cur' = cur
        /\ pc = "acquire" /\ pc' = "register"
    BY <1>6, ReferencedType DEF TakeMessage
  <2> HIDE DEF m
  <2>2. m \notin InFlight(cur) /\ InFlight(cur)' = InFlight(cur) \cup {m}
    BY <2>1 DEF InFlight, TypeOK, Submitted, Working
  <2>3. Cardinality(InFlight(cur)') = Cardinality(InFlight(cur)) + 1
    BY <2>1, <2>2, InFlightAdd
  <2>4. \A s \in Sessions \ {cur} : InFlight(s)' = InFlight(s) /\ slots'[s] = slots[s]
    BY <2>1 DEF InFlight, TypeOK
  <2>5. slots'[cur] = slots[cur] + 1 /\ cur \in sessions
    BY <2>1 DEF TypeOK, ConsumerInv
  <2>6. \A s \in Sessions : ~ConsumerHolds(s) /\ ~ConsumerHolds(s)'
    BY <2>1 DEF ConsumerHolds
  <2>7. ASSUME NEW s \in Sessions
        PROVE  IF s \in sessions'
               THEN slots'[s] = Cardinality(InFlight(s)')
                                  + (IF ConsumerHolds(s)' THEN 1 ELSE 0)
               ELSE slots'[s] = 0 /\ InFlight(s)' = {}
    <3>1. CASE s = cur
      BY <2>1, <2>3, <2>5, <2>6, <3>1, InFlightFinite DEF PermitAccounting
    <3>2. CASE s # cur
      BY <2>1, <2>4, <2>6, <3>2 DEF PermitAccounting
    <3> QED
      BY <3>1, <3>2
  <2> QED
    BY <2>7 DEF PermitAccounting
<1>7. CASE FindEmpty
  <2>1. /\ cur \in Sessions /\ cur \in sessions /\ sessions' = sessions
        /\ slots' = [slots EXCEPT ![cur] = @ + 1] /\ cur' = cur /\ status' = status
        /\ pc = "acquire" /\ pc' = "check"
    BY <1>7, ReferencedType DEF FindEmpty, ConsumerInv
  <2>2. \A s \in Sessions : InFlight(s)' = InFlight(s)
    BY <2>1, InFlightSame
  <2>3. \A s \in Sessions : ~ConsumerHolds(s) /\ (ConsumerHolds(s)' <=> s = cur)
    BY <2>1 DEF ConsumerHolds
  <2>4. \A s \in Sessions : slots'[s] = IF s = cur THEN slots[s] + 1 ELSE slots[s]
    BY <2>1 DEF TypeOK
  <2> QED
    BY <2>1, <2>2, <2>3, <2>4, InFlightFinite DEF PermitAccounting
<1>8. CASE RegisterCallback
  <2>1. /\ job \in Msgs /\ SessionOf[job] = cur /\ cur' = cur
        /\ pc = "register" /\ pc' = "append" /\ sessions' = sessions
    BY <1>8 DEF RegisterCallback, ConsumerInv
  <2>2. \A s \in Sessions : ConsumerHolds(s)' <=> ConsumerHolds(s)
    BY <2>1 DEF ConsumerHolds
  <2>3. CASE status[job] = "finished"
    BY <1>8, <2>1, <2>2, <2>3, PermitGivenBack DEF RegisterCallback
  <2>4. CASE status[job] # "finished"
    BY <1>1, <1>8, <2>1, <2>2, <2>4 DEF RegisterCallback
  <2> QED
    BY <2>3, <2>4
<1>9. CASE AppendFuture
  BY <1>1, <1>9 DEF AppendFuture, NextSession, ConsumerHolds
<1>10. CASE CheckIdle
  <2>1. /\ cur \in Sessions /\ cur \in sessions /\ sessions' = sessions
        /\ pc = "check" /\ status' = status
    BY <1>10 DEF CheckIdle, ConsumerInv, TypeOK
  <2>2. CASE slots[cur] = 1
    BY <1>1, <1>10, <2>1, <2>2 DEF CheckIdle, ConsumerHolds
  <2>3. CASE slots[cur] # 1
    <3>1. slots[cur] = Cardinality(InFlight(cur)) + 1
      BY <2>1 DEF PermitAccounting, ConsumerHolds
    <3>2. slots[cur] > 0
      BY <2>1, <3>1, InFlightFinite
    <3>3. slots' = [slots EXCEPT ![cur] = slots[cur] - 1] /\ cur' = Nil /\ pc' = "each"
      BY <1>10, <2>1, <2>3, <3>2 DEF CheckIdle, Released, NextSession
    <3>4. \A s \in Sessions : InFlight(s)' = InFlight(s)
      BY <2>1, InFlightSame
    <3>5. \A s \in Sessions : ~ConsumerHolds(s)' /\ (ConsumerHolds(s) <=> s = cur)
      BY <2>1, <3>3 DEF ConsumerHolds
    <3>6. \A s \in Sessions : slots'[s] = IF s = cur THEN slots[s] - 1 ELSE slots[s]
      BY <2>1, <3>3 DEF TypeOK
    <3> QED
      BY <2>1, <3>1, <3>4, <3>5, <3>6, InFlightFinite DEF PermitAccounting
  <2> QED
    BY <2>2, <2>3
<1>11. CASE DeleteSession
  <2>1. /\ cur \in Sessions /\ InFlight(cur) = {}
        /\ sessions' = sessions \ {cur}
        /\ slots' = [slots EXCEPT ![cur] = 0]
        /\ status' = [m \in Msgs |-> IF m \in Elements(queue[cur])
                                     THEN "lost" ELSE status[m]]
        /\ pc = "delete" /\ pc' = "each"
    BY <1>11, DeleteSucceeds DEF NextSession, DeleteSession
  <2>2. \A n \in Elements(queue[cur]) : status[n] = "queued"
    BY <2>1 DEF Elements, QueueInv
  <2>3. \A s \in Sessions : InFlight(s)' = InFlight(s)
    BY <2>1, <2>2, InFlightSame DEF Submitted, Working
  <2>4. \A s \in Sessions : slots'[s] = IF s = cur THEN 0 ELSE slots[s]
    BY <2>1 DEF TypeOK
  <2>5. \A s \in Sessions : ~ConsumerHolds(s)' /\ (ConsumerHolds(s) <=> s = cur)
    BY <2>1 DEF ConsumerHolds
  <2> QED
    BY <2>1, <2>3, <2>4, <2>5 DEF PermitAccounting
<1>12. ASSUME NEW m \in Msgs, Callback(m) PROVE PermitAccounting'
  <2>1. \A s \in Sessions : ConsumerHolds(s)' <=> ConsumerHolds(s)
    BY <1>12 DEF Callback, consumerVars, ConsumerHolds
  <2> QED
    BY <1>12, <2>1, PermitGivenBack DEF Callback
<1>13. CASE StartWork \/ \E m \in Msgs : HandlerStep(m)
  <2>1. \A n \in Msgs : status'[n] \in Submitted <=> status[n] \in Submitted
    BY <1>13, SubmittedKept DEF Submitted, Working
  <2>2. \A s \in Sessions : ConsumerHolds(s)' <=> ConsumerHolds(s)
    BY <1>13, LoopKept DEF ConsumerHolds
  <2> QED
    BY <1>1, <1>13, <2>1, <2>2, LoopKept
<1>14. CASE UNCHANGED vars
  BY <1>1, <1>14 DEF vars, consumerVars, ConsumerHolds
<1> QED
  BY <1>2, <1>3, <1>4, <1>5, <1>6, <1>7, <1>8, <1>9, <1>10, <1>11, <1>12,
     <1>13, <1>14
  DEF Next, Consumer, Worker, HandlerStep

\* A pending task other than the consumer's own is recorded.
LEMMA ReachStep ==
    ASSUME IInv, [Next]_vars
    PROVE  ResetReachesPending'
<1> USE DispatchAssumption DEF DispatchAssumption, IInv
<1>1. ASSUME UNCHANGED <<tracked, futures, job>>,
             \A n \in Msgs : status'[n] = "pending" => status[n] = "pending"
      PROVE  ResetReachesPending'
  BY <1>1 DEF ResetReachesPending
<1>2. ASSUME NEW m \in Msgs, Produce(m) PROVE ResetReachesPending'
  BY <1>1, <1>2 DEF Produce, consumerVars, TypeOK
<1>3. CASE ListSessions
  BY <1>1, <1>3 DEF ListSessions
<1>4. ASSUME NEW s \in Sessions, ReadSession(s) PROVE ResetReachesPending'
  BY <1>1, <1>4 DEF ReadSession
<1>5. CASE AllPermitsTaken \/ FindEmpty \/ CheckIdle
  <2>1. job = Nil /\ job' = Nil
    BY <1>5 DEF AllPermitsTaken, FindEmpty, CheckIdle, NextSession, ConsumerInv
  <2> QED
    BY <1>1, <1>5, <2>1 DEF AllPermitsTaken, FindEmpty, CheckIdle
<1>6. CASE TakeMessage
  <2>1. /\ Head(Referenced) \in Msgs /\ job' = Head(Referenced) /\ job = Nil
        /\ UNCHANGED <<tracked, futures>>
        /\ status' = [status EXCEPT ![Head(Referenced)] = "pending"]
    BY <1>6, ReferencedType DEF TakeMessage, ConsumerInv
  <2> QED
    BY <2>1 DEF ResetReachesPending, TypeOK
<1>7. CASE RegisterCallback
  BY <1>1, <1>7 DEF RegisterCallback, TypeOK
<1>8. CASE AppendFuture
  <2>1. /\ cur \in Sessions /\ job \in Msgs /\ SessionOf[job] = cur
        /\ tracked' = tracked \cup {cur} /\ status' = status
        /\ futures' = [futures EXCEPT ![cur] = @ \cup {job}]
    BY <1>8 DEF AppendFuture, ConsumerInv, TypeOK
  <2>2. \A s \in Sessions : futures[s] \subseteq futures'[s]
    BY <2>1 DEF TypeOK
  <2>3. job \in futures'[cur]
    BY <2>1 DEF TypeOK
  <2>4. \A n \in Msgs : SessionOf[n] \in Sessions
    OBVIOUS
  <2> QED
    BY <2>1, <2>2, <2>3, <2>4 DEF ResetReachesPending
<1>9. CASE DeleteSession
  <2>1. /\ cur \in Sessions /\ InFlight(cur) = {}
        /\ futures' = [futures EXCEPT ![cur] = {}] /\ tracked' = tracked
        /\ \A n \in Msgs : status'[n] \in {"lost", status[n]}
        /\ job = Nil
    BY <1>9, DeleteSucceeds DEF DeleteSession, ConsumerInv
  <2>2. \A n \in Msgs : status[n] = "pending" => SessionOf[n] # cur
    BY <2>1 DEF InFlight, Submitted
  <2>3. \A s \in Sessions \ {cur} : futures'[s] = futures[s]
    BY <2>1 DEF TypeOK
  <2>4. \A n \in Msgs : SessionOf[n] \in Sessions
    OBVIOUS
  <2> QED
    BY <2>1, <2>2, <2>3, <2>4 DEF ResetReachesPending
<1>10. ASSUME NEW m \in Msgs, Callback(m) PROVE ResetReachesPending'
  BY <1>1, <1>10 DEF Callback, consumerVars, TypeOK
<1>11. CASE StartWork \/ \E m \in Msgs : HandlerStep(m)
  BY <1>1, <1>11, SubmittedKept, LoopKept
<1>12. CASE UNCHANGED vars
  BY <1>1, <1>12 DEF vars, consumerVars
<1> QED
  BY <1>2, <1>3, <1>4, <1>5, <1>6, <1>7, <1>8, <1>9, <1>10, <1>11, <1>12
  DEF Next, Consumer, Worker, HandlerStep

-----------------------------------------------------------------------------
(* The theorems.                                                           *)

\* Every reachable state satisfies the invariant.
THEOREM Invariance == Spec => []IInv
<1>1. IInv /\ [Next]_vars => IInv'
  BY TypeStep, ConsumerStep, QueueStep, HeldStep, FuturesStep, TrackedStep,
     SlotsStep, PermitStep, ReachStep
  DEF IInv
<1> QED
  BY <1>1, InitInv, PTL DEF Spec

\* Every variable has its type.
THEOREM TypeCorrect == Spec => []TypeOK
<1> QED
  BY Invariance, PTL DEF IInv

\* Taken permits are exactly the tasks in handling and the consumer's own.
THEOREM PermitsAccounted == Spec => []PermitAccounting
<1> QED
  BY Invariance, PTL DEF IInv

\* At most Concurrency tasks of a session are in handling.
THEOREM ConcurrencyBounded == Spec => []BoundedConcurrency
<1>1. IInv => BoundedConcurrency
  <2> SUFFICES ASSUME IInv, NEW s \in Sessions
               PROVE  Cardinality(InFlight(s)) <= Concurrency
    BY DEF BoundedConcurrency
  <2>1. slots[s] \in Nat /\ slots[s] <= Concurrency
    BY DEF IInv, SlotsBound, TypeOK
  <2>2. Cardinality(InFlight(s)) <= slots[s]
    BY <2>1, InFlightFinite DEF IInv, PermitAccounting
  <2> QED
    BY <2>1, <2>2, InFlightFinite, DispatchAssumption DEF DispatchAssumption
<1> QED
  BY <1>1, Invariance, PTL

\* The consumer thread never dies.
THEOREM ConsumerLives == Spec => []ConsumerSurvives
<1>1. IInv => ConsumerSurvives
  BY DEF IInv, ConsumerInv, ConsumerSurvives
<1> QED
  BY <1>1, Invariance, PTL

\* A reset finds every task that waits in the pool.
THEOREM PendingRecorded == Spec => []ResetReachesPending
<1> QED
  BY Invariance, PTL DEF IInv

-----------------------------------------------------------------------------
(* The dispatcher implements SessionLimiter.                               *)

\* The phase a status stands for.
PhaseFacts ==
    \A n \in Msgs :
        /\ status[n] = "new" => PhaseOf(n) = "new"
        /\ status[n] = "queued" => PhaseOf(n) = "waiting"
        /\ PhaseOf(n) = "active" <=> status[n] \in Submitted
        /\ status[n] \in {"done", "lost"} => PhaseOf(n) = "over"
        /\ status[n] = "discarded" =>
              PhaseOf(n) = IF held # <<>> /\ n = Head(held) THEN "waiting" ELSE "over"

\* The first message of the held queue is a discarded one.
LEMMA HeldHead ==
    ASSUME TypeOK, HeldInv, held # <<>>
    PROVE  Head(held) \in Msgs /\ status[Head(held)] = "discarded"
<1>1. 1 \in DOMAIN held /\ Head(held) = held[1] /\ held[1] \in Msgs
  BY DEF TypeOK
<1> QED
  BY <1>1 DEF HeldInv

\* The phases of the messages, read off their statuses.
LEMMA PhasesOfStatuses == TypeOK /\ HeldInv => PhaseFacts
<1> SUFFICES ASSUME TypeOK, HeldInv PROVE PhaseFacts
  OBVIOUS
<1>1. held # <<>> => status[Head(held)] = "discarded"
  BY HeldHead
<1> QED
  BY <1>1 DEF PhaseFacts, PhaseOf, Submitted, Working, TypeOK

\* The limiter counts as the dispatcher does.
LEMMA SameCardinality ==
    \A S : Limiter!Cardinality(S) = Cardinality(S)
<1> QED
  BY DEF Limiter!Cardinality, Cardinality

\* Every step of the dispatcher is a step of the limiter or changes no phase.
LEMMA LimiterStep ==
    ASSUME IInv, IInv', [Next]_vars
    PROVE  [Limiter!Next]_([m \in Msgs |-> PhaseOf(m)])
<1> USE DispatchAssumption DEF DispatchAssumption
<1> DEFINE phase == [m \in Msgs |-> PhaseOf(m)]
<1>0. PhaseFacts /\ PhaseFacts'
  <2>1. TypeOK /\ HeldInv /\ TypeOK' /\ HeldInv'
    BY DEF IInv
  <2>2. PhaseFacts
    BY <2>1, PhasesOfStatuses
  <2>3. (TypeOK /\ HeldInv => PhaseFacts)'
    BY PhasesOfStatuses, PTL
  <2> QED
    BY <2>1, <2>2, <2>3
<1>a. status \in [Msgs -> Statuses] /\ status' \in [Msgs -> Statuses]
  BY DEF IInv, TypeOK
<1>1. ASSUME \A n \in Msgs : PhaseOf(n)' = PhaseOf(n) PROVE phase' = phase
  BY <1>1
<1>2. ASSUME NEW m \in Msgs, PhaseOf(m) = "waiting", PhaseOf(m)' = "active",
             Cardinality(InFlight(SessionOf[m])) < Concurrency,
             \A n \in Msgs \ {m} : PhaseOf(n)' = PhaseOf(n)
      PROVE  Limiter!Next
  <2>1. Limiter!Active(SessionOf[m]) = InFlight(SessionOf[m])
    BY <1>0 DEF Limiter!Active, InFlight, PhaseFacts
  <2>2. phase' = [phase EXCEPT ![m] = "active"]
    BY <1>2
  <2>4. Limiter!Cardinality(Limiter!Active(SessionOf[m])) < Concurrency
    BY <1>2, <2>1, SameCardinality
  <2>5. phase[m] = "waiting"
    BY <1>2
  <2> HIDE DEF phase
  <2>3. Limiter!Begin(m)
    BY <2>2, <2>4, <2>5 DEF Limiter!Begin, phase
  <2> QED
    BY <2>3 DEF Limiter!Next
<1>3. ASSUME NEW m \in Msgs, PhaseOf(m) = "active", PhaseOf(m)' = "over",
             \A n \in Msgs \ {m} : PhaseOf(n)' = PhaseOf(n)
      PROVE  Limiter!Next
  <2>1. phase' = [phase EXCEPT ![m] = "over"]
    BY <1>3
  <2>2. Limiter!Complete(m)
    BY <1>3, <2>1 DEF Limiter!Complete
  <2> QED
    BY <2>2 DEF Limiter!Next
<1>4. ASSUME NEW dropped \in SUBSET Msgs,
             \A n \in dropped : PhaseOf(n) = "waiting" /\ PhaseOf(n)' = "over",
             \A n \in Msgs \ dropped : PhaseOf(n)' = PhaseOf(n)
      PROVE  Limiter!Next
  <2>1. phase' = [m \in Msgs |-> IF m \in dropped THEN "over" ELSE phase[m]]
    BY <1>4
  <2>2. Limiter!GiveUp(dropped)
    BY <1>4, <2>1 DEF Limiter!GiveUp
  <2> QED
    BY <2>2 DEF Limiter!Next
<1>5. ASSUME NEW m \in Msgs, Produce(m) PROVE Limiter!Next
  <2>1. PhaseOf(m) = "new" /\ PhaseOf(m)' = "waiting"
    BY <1>0, <1>5 DEF Produce, PhaseFacts, IInv, TypeOK
  <2>2. \A n \in Msgs \ {m} : PhaseOf(n)' = PhaseOf(n)
    BY <1>5 DEF Produce, consumerVars, PhaseOf, IInv, TypeOK
  <2>3. phase' = [phase EXCEPT ![m] = "waiting"]
    BY <2>1, <2>2
  <2>4. Limiter!Arrive(m)
    BY <2>1, <2>3 DEF Limiter!Arrive
  <2> QED
    BY <2>4 DEF Limiter!Next
<1>6. ASSUME UNCHANGED <<status, held>> PROVE phase' = phase
  BY <1>1, <1>6 DEF PhaseOf
<1>7. CASE AllPermitsTaken
  <2>1. status' = status /\ held' = <<>>
    BY <1>7 DEF AllPermitsTaken, DropReference
  <2>2. CASE held = <<>>
    BY <1>6, <2>1, <2>2
  <2>3. CASE held # <<>>
    <3>1. Head(held) \in Msgs /\ status[Head(held)] = "discarded"
      BY <2>3, HeldHead DEF IInv
    <3>0. PICK h \in Msgs : h = Head(held)
      BY <3>1
    <3>2. PhaseOf(h) = "waiting"
      BY <2>3, <3>0, <3>1 DEF PhaseOf, Submitted, Working
    <3>4. PhaseOf(h)' = "over"
      BY <2>1, <3>0, <3>1 DEF PhaseOf, Submitted, Working
    <3>3. \A n \in Msgs \ {h} : PhaseOf(n)' = PhaseOf(n)
      BY <2>1, <3>0 DEF PhaseOf
    <3>5. {h} \in SUBSET Msgs
      BY <3>0
    <3> QED
      BY <1>4, <3>2, <3>3, <3>4, <3>5
  <2> QED
    BY <2>2, <2>3
<1>8. CASE TakeMessage
  <2>0. PICK m \in Msgs : m = Head(Referenced)
    BY <1>8, ReferencedType DEF TakeMessage
  <2>1. /\ m \in Msgs /\ SessionOf[m] = cur /\ status[m] \in {"queued", "discarded"}
        /\ status' = [status EXCEPT ![m] = "pending"] /\ held' = <<>>
        /\ pc = "acquire" /\ cur \in Sessions /\ cur \in sessions
        /\ slots[cur] < Concurrency
    BY <1>8, <2>0, ReferencedType DEF TakeMessage, DropReference, IInv,
                                      ConsumerInv
  <2>2. held # <<>> => m = Head(held)
    BY <2>0 DEF Referenced, IInv, ConsumerInv, TypeOK
  <2>3. held = <<>> => status[m] = "queued"
    <3>1. SUFFICES ASSUME held = <<>> PROVE status[m] = "queued"
      OBVIOUS
    <3>2. Referenced = queue[cur] /\ queue[cur] # <<>> /\ queue[cur] \in Seq(Msgs)
      BY <1>8, <2>1, <3>1 DEF TakeMessage, Referenced, IInv, TypeOK
    <3>3. 1 \in DOMAIN queue[cur] /\ m = queue[cur][1]
      BY <2>0, <3>2
    <3> QED
      BY <2>1, <3>3 DEF IInv, QueueInv
  <2>4. PhaseOf(m) = "waiting"
    BY <1>0, <2>1, <2>2, <2>3 DEF PhaseFacts
  <2>5. PhaseOf(m)' = "active"
    <3>1. status'[m] \in Submitted
      BY <1>a, <2>1 DEF Submitted
    <3> QED
      BY <1>0, <2>1, <3>1 DEF PhaseFacts
  <2>6. \A n \in Msgs \ {m} : PhaseOf(n)' = PhaseOf(n)
    BY <1>a, <2>1, <2>2 DEF PhaseOf
  <2>7. Cardinality(InFlight(cur)) < Concurrency
    <3>1. slots[cur] = Cardinality(InFlight(cur))
      BY <2>1, InFlightFinite DEF IInv, PermitAccounting, ConsumerHolds
    <3> QED
      BY <2>1, <3>1
  <2> QED
    BY <1>2, <2>1, <2>4, <2>5, <2>6, <2>7
<1>9. ASSUME NEW m \in Msgs, status[m] \in {"callback", "finished"},
             status' = [status EXCEPT ![m] = "done"], UNCHANGED held
      PROVE  Limiter!Next
  <2>1. PhaseOf(m) = "active" /\ PhaseOf(m)' = "over"
    BY <1>0, <1>a, <1>9 DEF PhaseFacts, Submitted, Working
  <2>2. \A n \in Msgs \ {m} : PhaseOf(n)' = PhaseOf(n)
    BY <1>a, <1>9 DEF PhaseOf
  <2> QED
    BY <1>3, <2>1, <2>2
<1>10. CASE RegisterCallback
  <2>1. job \in Msgs /\ held' = held
    BY <1>10 DEF RegisterCallback, IInv, ConsumerInv
  <2> QED
    BY <1>6, <1>9, <1>10, <2>1 DEF RegisterCallback
<1>11. CASE DeleteSession
  <2>1. /\ cur \in Sessions /\ held' = held
        /\ status' = [m \in Msgs |-> IF m \in Elements(queue[cur])
                                     THEN "lost" ELSE status[m]]
    BY <1>11, DeleteSucceeds
  <2>2. \A n \in Elements(queue[cur]) : n \in Msgs /\ status[n] = "queued"
    BY <2>1 DEF Elements, IInv, QueueInv, TypeOK
  <2>3. \A n \in Elements(queue[cur]) : PhaseOf(n) = "waiting" /\ PhaseOf(n)' = "over"
    BY <1>0, <2>1, <2>2 DEF PhaseFacts
  <2>4. \A n \in Msgs \ Elements(queue[cur]) : PhaseOf(n)' = PhaseOf(n)
    BY <2>1 DEF PhaseOf
  <2>5. Elements(queue[cur]) \in SUBSET Msgs
    BY <2>2
  <2> QED
    BY <1>4, <2>3, <2>4, <2>5
<1>12. CASE StartWork \/ \E m \in Msgs : HandlerStep(m)
  <2>1. \A n \in Msgs :
            \/ status'[n] = status[n]
            \/ status[n] = "queued" /\ status'[n] = "discarded"
            \/ status[n] \in Submitted /\ status'[n] \in Submitted
    BY <1>12, SubmittedKept
  <2>2. held' = held \/ (held = <<>> /\ \E s \in Sessions : held' = queue[s])
    BY <1>12 DEF StartWork, HandlerStep, FinishHandler, ResetSession,
                 ResetAllBegin,
         ResetAllVisit, ResetAllEnd, CancelPending, ReplaceQueue, consumerVars,
         IInv, ConsumerInv, TypeOK
  <2> DEFINE dropped == {n \in Msgs : status[n] = "queued" /\ PhaseOf(n)' = "over"}
  <2>3. \A n \in dropped : PhaseOf(n) = "waiting" /\ PhaseOf(n)' = "over"
    BY <1>0 DEF PhaseFacts
  <2>4. ASSUME NEW n \in Msgs \ dropped PROVE PhaseOf(n)' = PhaseOf(n)
    <3>1. CASE status[n] = "queued"
      BY <1>0, <1>a, <2>1, <2>4, <3>1 DEF PhaseFacts, Submitted, Working
    <3>2. CASE status[n] \in Submitted
      BY <1>0, <2>1, <3>2 DEF PhaseFacts, Submitted, Working
    <3>3. CASE status[n] = "discarded"
      <4>1. status'[n] = "discarded"
        BY <2>1, <3>3 DEF Submitted, Working
      <4>2. CASE held' = held
        BY <3>3, <4>1, <4>2 DEF PhaseOf
      <4>3. CASE held = <<>> /\ \E s \in Sessions : held' = queue[s]
        <5>1. PICK s \in Sessions : held' = queue[s]
          BY <4>3
        <5>2. held' # <<>> => 1 \in DOMAIN queue[s] /\ Head(held') = queue[s][1]
          BY <5>1 DEF IInv, TypeOK
        <5>3. held' # <<>> => status[Head(held')] = "queued"
          BY <5>2 DEF IInv, QueueInv
        <5>4. PhaseOf(n)' = "over"
          BY <3>3, <4>1, <5>3 DEF PhaseOf, Submitted, Working
        <5>5. PhaseOf(n) = "over"
          BY <3>3, <4>3 DEF PhaseOf, Submitted, Working
        <5> QED
          BY <5>4, <5>5
      <4> QED
        BY <2>2, <4>2, <4>3
    <3>4. CASE status[n] \notin Submitted \cup {"queued", "discarded"}
      BY <1>0, <1>a, <2>1, <3>4 DEF PhaseFacts, Statuses
    <3> QED
      BY <3>1, <3>2, <3>3, <3>4
  <2>5. dropped \in SUBSET Msgs
    OBVIOUS
  <2> HIDE DEF dropped
  <2> QED
    BY <1>4, <2>3, <2>4, <2>5
<1>13. ASSUME NEW m \in Msgs, Callback(m) PROVE Limiter!Next
  BY <1>9, <1>13 DEF Callback, consumerVars
<1>14. CASE ListSessions \/ AppendFuture \/ CheckIdle \/ UNCHANGED vars
  BY <1>6, <1>14 DEF ListSessions, AppendFuture, CheckIdle, vars, consumerVars
<1>15. ASSUME NEW s \in Sessions, ReadSession(s) PROVE phase' = phase
  BY <1>6, <1>15 DEF ReadSession
<1>16. CASE FindEmpty
  <2>1. status' = status /\ held' = <<>> /\ held = <<>>
    BY <1>16 DEF FindEmpty, DropReference, Referenced, IInv, ConsumerInv,
                 TypeOK
  <2> QED
    BY <1>6, <2>1
<1> QED
  BY <1>5, <1>7, <1>8, <1>10, <1>11, <1>12, <1>13, <1>14, <1>15, <1>16
  DEF Next, Consumer, Worker, HandlerStep

\* The dispatcher implements the limiter.
THEOREM LimiterImplemented == Spec => ImplementsLimiter
<1>1. Init => Limiter!Init
  BY DEF Init, Limiter!Init, PhaseOf
<1>2. IInv /\ IInv' /\ [Next]_vars => [Limiter!Next]_([m \in Msgs |-> PhaseOf(m)])
  BY LimiterStep
<1> QED
  BY <1>1, <1>2, Invariance, PTL DEF Spec, ImplementsLimiter, Limiter!Spec

-----------------------------------------------------------------------------
(* The order of a session's messages.                                      *)

\* A queued message is in the queue of its session.
Enqueued ==
    \A m \in Msgs : status[m] = "queued" =>
        \E i \in DOMAIN queue[SessionOf[m]] : queue[SessionOf[m]][i] = m

\* In a queue, commands come first and chat messages are in order.
QueueOrder ==
    \A s \in Sessions : \A i, j \in DOMAIN queue[s] :
        i < j /\ KindOf[queue[s][i]] = "chat" =>
            KindOf[queue[s][j]] = "chat" /\ queue[s][i] < queue[s][j]

\* A session's messages arrive in order ...
ArrivedInOrder ==
    \A m, n \in Msgs :
        SessionOf[m] = SessionOf[n] /\ n < m /\ status[n] = "new" => status[m] = "new"

\* ... and its chat messages leave the queue in order.
LeftInOrder ==
    \A m, n \in Msgs :
        /\ SessionOf[m] = SessionOf[n] /\ n < m
        /\ KindOf[m] = "chat" /\ KindOf[n] = "chat"
        /\ status[n] = "queued"
        => status[m] \in {"new", "queued"}

OrderInv == Enqueued /\ QueueOrder /\ ArrivedInOrder /\ LeftInOrder

\* No message enters or leaves a queue.
SameWaiting ==
    \A n \in Msgs : /\ status'[n] = "queued" <=> status[n] = "queued"
                    /\ status'[n] = "new" <=> status[n] = "new"

\* Then nothing changes in the order.
LEMMA OrderKept ==
    ASSUME OrderInv, UNCHANGED queue, SameWaiting
    PROVE  OrderInv'
<1> USE DEF OrderInv, SameWaiting
<1>1. Enqueued'
  BY DEF Enqueued
<1>2. QueueOrder'
  BY DEF QueueOrder
<1>3. ArrivedInOrder'
  BY DEF ArrivedInOrder
<1>4. LeftInOrder'
  BY DEF LeftInOrder
<1> QED
  BY <1>1, <1>2, <1>3, <1>4

\* A message arrives: a command at the left end, a chat message, later than
\* all others that wait, at the right end.
LEMMA OrderProduced ==
    ASSUME IInv, OrderInv, NEW m \in Msgs, Produce(m)
    PROVE  OrderInv'
<1> DEFINE s == SessionOf[m]
           q == queue[s]
           r == IF KindOf[m] = "chat" THEN Append(q, m) ELSE <<m>> \o q
<1>1. /\ s \in Sessions /\ q \in Seq(Msgs) /\ status[m] = "new"
      /\ \A t \in Sessions : queue'[t] = IF t = s THEN r ELSE queue[t]
      /\ \A n \in Msgs : status'[n] = IF n = m THEN "queued" ELSE status[n]
      /\ \A n \in Msgs : SessionOf[n] = s /\ n < m => status[n] # "new"
  BY DispatchAssumption DEF DispatchAssumption, Produce, IInv, TypeOK
<1>2. \A i \in DOMAIN q : q[i] \in Msgs /\ status[q[i]] = "queued" /\ SessionOf[q[i]] = s
  BY <1>1 DEF IInv, QueueInv
<1>3. \A n \in Msgs : SessionOf[n] = s /\ status[n] # "new" => n < m
  <2>1. \A n \in Msgs : n \in Nat
    BY DispatchAssumption DEF DispatchAssumption
  <2> QED
    BY <1>1, <2>1 DEF OrderInv, ArrivedInOrder
<1>4. /\ Len(q) \in Nat /\ DOMAIN q = 1..Len(q) /\ DOMAIN r = 1..(Len(q) + 1)
      /\ KindOf[m] = "chat" => /\ \A i \in DOMAIN q : r[i] = q[i]
                               /\ r[Len(q) + 1] = m
      /\ KindOf[m] # "chat" => /\ \A i \in 2..(Len(q) + 1) : r[i] = q[i - 1]
                               /\ r[1] = m
  <2> HIDE DEF q
  <2> QED
    BY <1>1
<1> HIDE DEF r
<1>5. \A i \in DOMAIN q : \E j \in DOMAIN r : r[j] = q[i]
  <2> SUFFICES ASSUME NEW i \in 1..Len(q)
               PROVE  \E j \in DOMAIN r : r[j] = q[i]
    BY <1>4
  <2>1. i \in DOMAIN r /\ i + 1 \in 2..(Len(q) + 1) /\ i + 1 \in DOMAIN r /\ (i + 1) - 1 = i
    BY <1>4
  <2> QED
    BY <1>4, <2>1
<1>6. \E j \in DOMAIN r : r[j] = m
  BY <1>4
<1>7. Enqueued'
  <2> SUFFICES ASSUME NEW n \in Msgs, status'[n] = "queued"
               PROVE  \E i \in DOMAIN queue'[SessionOf[n]] : queue'[SessionOf[n]][i] = n
    BY DEF Enqueued
  <2>1. CASE n = m
    BY <1>1, <1>6, <2>1
  <2>2. CASE n # m
    <3>1. PICK i \in DOMAIN queue[SessionOf[n]] : queue[SessionOf[n]][i] = n
      BY <1>1, <2>2 DEF OrderInv, Enqueued
    <3>2. SessionOf[n] \in Sessions
      BY DispatchAssumption DEF DispatchAssumption
    <3> QED
      BY <1>1, <1>5, <3>1, <3>2
  <2> QED
    BY <2>1, <2>2
<1>8. QueueOrder'
  <2> SUFFICES ASSUME NEW t \in Sessions,
                      NEW i \in DOMAIN queue'[t], NEW j \in DOMAIN queue'[t],
                      i < j, KindOf[queue'[t][i]] = "chat"
               PROVE  KindOf[queue'[t][j]] = "chat" /\ queue'[t][i] < queue'[t][j]
    BY DEF QueueOrder
  <2>1. CASE t # s
    BY <1>1, <2>1 DEF OrderInv, QueueOrder
  <2>2. CASE t = s /\ KindOf[m] = "chat"
    <3>1. queue'[t] = r /\ i \in 1..Len(q) /\ r[i] = q[i]
      BY <1>1, <1>4, <2>2
    <3>2. CASE j \in 1..Len(q)
      <4>1. /\ i \in DOMAIN q /\ j \in DOMAIN q /\ r[j] = q[j]
            /\ KindOf[q[i]] = "chat"
        BY <1>4, <2>2, <3>1, <3>2
      <4>2. KindOf[q[j]] = "chat" /\ q[i] < q[j]
        BY <1>1, <4>1 DEF OrderInv, QueueOrder
      <4> QED
        BY <3>1, <4>1, <4>2
    <3>3. CASE j = Len(q) + 1
      <4>1. r[j] = m /\ q[i] < m
        BY <1>2, <1>3, <1>4, <2>2, <3>1, <3>3
      <4> QED
        BY <2>2, <3>1, <4>1
    <3> QED
      BY <1>4, <3>1, <3>2, <3>3
  <2>3. CASE t = s /\ KindOf[m] # "chat"
    <3>1. queue'[t] = r /\ i \in 2..(Len(q) + 1) /\ j \in 2..(Len(q) + 1)
      BY <1>1, <1>4, <2>3
    <3>2. /\ r[i] = q[i - 1] /\ r[j] = q[j - 1]
          /\ i - 1 \in DOMAIN q /\ j - 1 \in DOMAIN q /\ i - 1 < j - 1
      BY <1>4, <2>3, <3>1
    <3> QED
      BY <1>1, <3>1, <3>2 DEF OrderInv, QueueOrder
  <2> QED
    BY <2>1, <2>2, <2>3
<1>9. ArrivedInOrder'
  BY <1>1 DEF OrderInv, ArrivedInOrder
<1>10. LeftInOrder'
  <2> SUFFICES ASSUME NEW p \in Msgs, NEW n \in Msgs, SessionOf[p] = SessionOf[n], n < p,
                      KindOf[p] = "chat", KindOf[n] = "chat", status'[n] = "queued"
               PROVE  status'[p] \in {"new", "queued"}
    BY DEF LeftInOrder
  <2>1. CASE n = m
    BY <1>1, <2>1 DEF OrderInv, ArrivedInOrder
  <2>2. CASE n # m
    BY <1>1, <2>2 DEF OrderInv, LeftInOrder
  <2> QED
    BY <2>1, <2>2
<1> QED
  BY <1>7, <1>8, <1>9, <1>10 DEF OrderInv

\* The consumer takes the head of the queue, or of a queue whose messages
\* count as discarded.
LEMMA OrderTaken ==
    ASSUME IInv, OrderInv, TakeMessage
    PROVE  OrderInv'
<1> DEFINE q == queue[cur]
           m == Head(Referenced)
<1>1. /\ cur \in Sessions /\ Referenced # <<>> /\ m \in Msgs /\ SessionOf[m] = cur
      /\ \A n \in Msgs : status'[n] = IF n = m THEN "pending" ELSE status[n]
  BY ReferencedType DEF TakeMessage, IInv, TypeOK
<1>2. CASE ref = "replaced"
  <2>1. status[m] = "discarded"
    <3>1. 1 \in DOMAIN held /\ m = held[1]
      BY <1>1, <1>2 DEF Referenced, IInv, TypeOK
    <3> QED
      BY <3>1 DEF IInv, HeldInv
  <2>2. UNCHANGED queue
    BY <1>2 DEF TakeMessage
  <2> QED
    BY <1>1, <2>1, <2>2, OrderKept DEF SameWaiting
<1>3. CASE ref # "replaced"
  <2>1. q \in Seq(Msgs) /\ q # <<>> /\ m = Head(q)
    BY <1>1, <1>3 DEF Referenced, IInv, TypeOK
  <2>2. \A t \in Sessions : queue'[t] = IF t = cur THEN Tail(q) ELSE queue[t]
    BY <1>1, <1>3 DEF TakeMessage, IInv, TypeOK
  <2>3. /\ 1 \in DOMAIN q /\ m = q[1] /\ Len(q) \in Nat /\ DOMAIN q = 1..Len(q)
        /\ DOMAIN Tail(q) = 1..(Len(q) - 1)
        /\ \A i \in 1..(Len(q) - 1) : Tail(q)[i] = q[i + 1]
    <3> HIDE DEF q, m
    <3> QED
      BY <2>1
  <2>4. status[m] = "queued"
    BY <1>1, <2>3 DEF IInv, QueueInv
  <2> HIDE DEF m
  <2>5. Enqueued'
    <3> SUFFICES ASSUME NEW n \in Msgs, status'[n] = "queued"
                 PROVE  \E i \in DOMAIN queue'[SessionOf[n]] : queue'[SessionOf[n]][i] = n
      BY DEF Enqueued
    <3>1. n # m /\ SessionOf[n] \in Sessions
      BY <1>1, DispatchAssumption DEF DispatchAssumption
    <3>2. PICK i \in DOMAIN queue[SessionOf[n]] : queue[SessionOf[n]][i] = n
      BY <1>1, <3>1 DEF OrderInv, Enqueued
    <3>3. CASE SessionOf[n] = cur
      <4>1. i \in 2..Len(q)
        BY <2>3, <3>1, <3>2, <3>3
      <4>2. i - 1 \in DOMAIN Tail(q) /\ Tail(q)[i - 1] = n
        BY <2>3, <3>2, <3>3, <4>1
      <4> QED
        BY <1>1, <2>2, <3>3, <4>2
    <3>4. CASE SessionOf[n] # cur
      BY <2>2, <3>1, <3>2, <3>4
    <3> QED
      BY <3>3, <3>4
  <2>6. QueueOrder'
    <3> SUFFICES ASSUME NEW t \in Sessions,
                        NEW i \in DOMAIN queue'[t], NEW j \in DOMAIN queue'[t],
                        i < j, KindOf[queue'[t][i]] = "chat"
                 PROVE  KindOf[queue'[t][j]] = "chat" /\ queue'[t][i] < queue'[t][j]
      BY DEF QueueOrder
    <3>1. CASE t # cur
      BY <2>2, <3>1 DEF OrderInv, QueueOrder
    <3>2. CASE t = cur
      <4>1. /\ i \in 1..(Len(q) - 1) /\ j \in 1..(Len(q) - 1)
            /\ queue'[t][i] = q[i + 1] /\ queue'[t][j] = q[j + 1]
        BY <1>1, <2>2, <2>3, <3>2
      <4>2. i + 1 \in DOMAIN q /\ j + 1 \in DOMAIN q /\ i + 1 < j + 1
        BY <2>3, <4>1
      <4> QED
        BY <1>1, <4>1, <4>2 DEF OrderInv, QueueOrder
    <3> QED
      BY <3>1, <3>2
  <2>7. ArrivedInOrder'
    BY <1>1, <2>4 DEF OrderInv, ArrivedInOrder
  <2>8. LeftInOrder'
    <3> SUFFICES ASSUME NEW p \in Msgs, NEW n \in Msgs, SessionOf[p] = SessionOf[n], n < p,
                        KindOf[p] = "chat", KindOf[n] = "chat", status'[n] = "queued"
                 PROVE  status'[p] \in {"new", "queued"}
      BY DEF LeftInOrder
    <3>1. n # m /\ status[n] = "queued"
      BY <1>1
    <3>2. CASE p = m
      <4>1. PICK i \in DOMAIN q : q[i] = n
        BY <1>1, <3>1, <3>2 DEF OrderInv, Enqueued
      <4>2. 1 < i
        BY <2>3, <3>1, <4>1
      <4>3. m < n
        BY <1>1, <2>3, <3>2, <4>1, <4>2 DEF OrderInv, QueueOrder
      <4>4. m \in Nat /\ n \in Nat
        BY <1>1, DispatchAssumption DEF DispatchAssumption
      <4> QED
        BY <3>2, <4>3, <4>4
    <3>3. CASE p # m
      BY <1>1, <3>1, <3>3 DEF OrderInv, LeftInOrder
    <3> QED
      BY <3>2, <3>3
  <2> QED
    BY <2>5, <2>6, <2>7, <2>8 DEF OrderInv
<1> QED
  BY <1>2, <1>3

\* The queue of a session is emptied, by a reset or a deletion.
LEMMA OrderEmptied ==
    ASSUME IInv, OrderInv, NEW s \in Sessions,
           queue' = [queue EXCEPT ![s] = <<>>],
           \A n \in Msgs :
               /\ status'[n] = "queued" <=> status[n] = "queued" /\ SessionOf[n] # s
               /\ status'[n] = "new" <=> status[n] = "new"
    PROVE  OrderInv'
<1>1. \A t \in Sessions : queue'[t] = IF t = s THEN <<>> ELSE queue[t]
  BY DEF IInv, TypeOK
<1>2. DOMAIN <<>> = {} /\ \A n \in Msgs : SessionOf[n] \in Sessions
  BY DispatchAssumption DEF DispatchAssumption
<1>3. Enqueued'
  BY <1>1, <1>2 DEF OrderInv, Enqueued
<1>4. QueueOrder'
  BY <1>1, <1>2 DEF OrderInv, QueueOrder
<1>5. ArrivedInOrder'
  BY DEF OrderInv, ArrivedInOrder
<1>6. LeftInOrder'
  BY DEF OrderInv, LeftInOrder
<1> QED
  BY <1>3, <1>4, <1>5, <1>6 DEF OrderInv

\* A reset discards all messages that are queued in the session.
LEMMA OrderReplaced ==
    ASSUME IInv, OrderInv, NEW m \in Msgs, NEW s \in Sessions, NEW st \in Working,
           status[m] \in Working, ReplaceQueue(s, m, st)
    PROVE  OrderInv'
<1>1. \A n \in Msgs : status[n] = "queued" /\ SessionOf[n] = s => status'[n] = "discarded"
  BY ReplaceQueueEffect DEF OrderInv, Enqueued
<1>2. /\ status'[m] = st
      /\ \A n \in Msgs \ {m} :
            \/ status'[n] = status[n]
            \/ status[n] = "queued" /\ SessionOf[n] = s /\ status'[n] = "discarded"
  BY ReplaceQueueEffect
<1>3. "new" \notin Working /\ "queued" \notin Working
  BY DEF Working
<1>4. \A n \in Msgs :
         /\ status'[n] = "queued" <=> status[n] = "queued" /\ SessionOf[n] # s
         /\ status'[n] = "new" <=> status[n] = "new"
  BY <1>1, <1>2, <1>3
<1> QED
  BY <1>4, ReplaceQueueEffect, OrderEmptied

\* Every step keeps the order.
LEMMA OrderStep ==
    ASSUME IInv, OrderInv, [Next]_vars
    PROVE  OrderInv'
<1> USE DispatchAssumption DEF DispatchAssumption
<1>0. TypeOK
  BY DEF IInv
<1>1. ASSUME NEW m \in Msgs, Produce(m) PROVE OrderInv'
  BY <1>1, OrderProduced
<1>2. CASE ListSessions
  BY <1>2, OrderKept DEF ListSessions, SameWaiting
<1>3. ASSUME NEW s \in Sessions, ReadSession(s) PROVE OrderInv'
  BY <1>3, OrderKept DEF ReadSession, SameWaiting
<1>4. CASE AllPermitsTaken
  BY <1>4, OrderKept DEF AllPermitsTaken, SameWaiting
<1>5. CASE TakeMessage
  BY <1>5, OrderTaken
<1>6. CASE FindEmpty
  BY <1>6, OrderKept DEF FindEmpty, SameWaiting
<1>7. CASE RegisterCallback
  BY <1>0, <1>7, OrderKept DEF RegisterCallback, SameWaiting, TypeOK
<1>8. CASE AppendFuture
  BY <1>8, OrderKept DEF AppendFuture, SameWaiting
<1>9. CASE CheckIdle
  BY <1>9, OrderKept DEF CheckIdle, SameWaiting
<1>10. CASE DeleteSession
  <2>1. /\ cur \in Sessions
        /\ queue' = [queue EXCEPT ![cur] = <<>>]
        /\ status' = [m \in Msgs |-> IF m \in Elements(queue[cur])
                                     THEN "lost" ELSE status[m]]
    BY <1>10, DeleteSucceeds
  <2>2. \A n \in Msgs : n \in Elements(queue[cur]) =>
            status[n] = "queued" /\ SessionOf[n] = cur
    BY <2>1 DEF Elements, IInv, QueueInv
  <2>3. \A n \in Msgs : status[n] = "queued" /\ SessionOf[n] = cur =>
            n \in Elements(queue[cur])
    BY DEF Elements, OrderInv, Enqueued
  <2> QED
    BY <2>1, <2>2, <2>3, OrderEmptied
<1>11. CASE StartWork
  <2>1. SameWaiting
    BY <1>0, <1>11 DEF StartWork, SameWaiting, TypeOK
  <2> QED
    BY <1>11, <2>1, OrderKept DEF StartWork
<1>12. ASSUME NEW m \in Msgs, FinishHandler(m) PROVE OrderInv'
  BY <1>0, <1>12, OrderKept DEF FinishHandler, SameWaiting, TypeOK
<1>13. ASSUME NEW m \in Msgs, Callback(m) PROVE OrderInv'
  BY <1>0, <1>13, OrderKept DEF Callback, SameWaiting, TypeOK
<1>14. /\ "running" \in Working /\ "resetting" \in Working /\ "returning" \in Working
       /\ "new" \notin Working /\ "queued" \notin Working
  BY DEF Working
<1>15. ASSUME NEW m \in Msgs, NEW s \in Sessions, CancelPending(m, s), status[m] \in Working
       PROVE  OrderInv'
  <2>1. PICK f \in Cancellable(s) :
           status' = [status EXCEPT ![m] = "stuck", ![f] = "cancelled"]
    BY <1>15 DEF CancelPending
  <2>2. status[f] = "pending"
    BY DEF Cancellable
  <2>3. SameWaiting
    BY <1>0, <1>14, <1>15, <2>1, <2>2 DEF SameWaiting, TypeOK
  <2> QED
    BY <1>15, <2>3, OrderKept DEF CancelPending
<1>16. ASSUME NEW m \in Msgs, ResetSession(m) PROVE OrderInv'
  <2>1. SessionOf[m] \in Sessions /\ status[m] = "running"
    BY <1>16 DEF ResetSession
  <2>2. CASE CancelPending(m, SessionOf[m])
    BY <1>14, <1>15, <2>1, <2>2
  <2>3. CASE ReplaceQueue(SessionOf[m], m, "returning")
    BY <1>14, <2>1, <2>3, OrderReplaced
  <2>4. CASE UNCHANGED queue /\ status' = [status EXCEPT ![m] = "returning"]
    BY <1>0, <2>1, <2>4, OrderKept DEF SameWaiting, TypeOK
  <2> QED
    BY <1>16, <2>2, <2>3, <2>4 DEF ResetSession
<1>17. ASSUME NEW m \in Msgs, ResetAllBegin(m) PROVE OrderInv'
  BY <1>0, <1>17, OrderKept DEF ResetAllBegin, SameWaiting, TypeOK
<1>18. ASSUME NEW m \in Msgs, NEW s \in Sessions, ResetAllVisit(m, s) PROVE OrderInv'
  <2>1. status[m] = "resetting"
    BY <1>18 DEF ResetAllVisit
  <2>2. CASE CancelPending(m, s)
    BY <1>14, <1>15, <2>1, <2>2
  <2>3. CASE ReplaceQueue(s, m, "resetting")
    BY <1>14, <2>1, <2>3, OrderReplaced
  <2> QED
    BY <1>18, <2>2, <2>3 DEF ResetAllVisit
<1>19. ASSUME NEW m \in Msgs, ResetAllEnd(m) PROVE OrderInv'
  BY <1>0, <1>19, OrderKept DEF ResetAllEnd, SameWaiting, TypeOK
<1>20. CASE UNCHANGED vars
  BY <1>20, OrderKept DEF vars, SameWaiting
<1> QED
  BY <1>1, <1>2, <1>3, <1>4, <1>5, <1>6, <1>7, <1>8, <1>9, <1>10, <1>11, <1>12,
     <1>13, <1>16, <1>17, <1>18, <1>19, <1>20
  DEF Next, Consumer, Worker

\* The order holds in every reachable state.
THEOREM OrderInvariance == Spec => []OrderInv
<1>1. Init => OrderInv
  BY DEF Init, OrderInv, Enqueued, QueueOrder, ArrivedInOrder, LeftInOrder
<1>2. IInv /\ OrderInv /\ [Next]_vars => OrderInv'
  BY OrderStep
<1> QED
  BY <1>1, <1>2, Invariance, PTL DEF Spec

\* "Commands first": the consumer never submits a chat message while a command
\* of its session is queued.
THEOREM CommandsGoFirst == Spec => CommandsFirst
<1> DEFINE Early(m, n) ==
        /\ SessionOf[m] = SessionOf[n]
        /\ KindOf[m] = "chat" /\ status[m] = "queued" /\ status'[m] = "pending"
        /\ KindOf[n] # "chat" /\ status[n] = "queued"
<1>1. ASSUME IInv, OrderInv, Next, NEW m \in Msgs, NEW n \in Msgs, Early(m, n)
      PROVE  FALSE
  <2>0. TypeOK
    BY <1>1 DEF IInv
  <2>1. CASE TakeMessage
    <3> DEFINE q == queue[cur]
    <3>1. cur \in Sessions /\ Referenced # <<>> /\ m = Head(Referenced) /\ SessionOf[m] = cur
      BY <1>1, <2>0, <2>1, ReferencedType DEF TakeMessage, TypeOK
    <3>2. ref # "replaced"
      <4>1. ASSUME ref = "replaced" PROVE FALSE
        <5>1. 1 \in DOMAIN held /\ m = held[1]
          BY <2>0, <3>1, <4>1 DEF Referenced, TypeOK
        <5> QED
          BY <1>1, <5>1 DEF IInv, HeldInv
      <4> QED
        BY <4>1
    <3>3. 1 \in DOMAIN q /\ m = q[1] /\ DOMAIN q = 1..Len(q) /\ Len(q) \in Nat
      BY <2>0, <3>1, <3>2 DEF Referenced, TypeOK
    <3>4. PICK i \in DOMAIN q : q[i] = n
      BY <1>1, <3>1 DEF OrderInv, Enqueued
    <3>5. 1 < i
      BY <1>1, <3>3, <3>4
    <3> QED
      BY <1>1, <3>1, <3>3, <3>4, <3>5 DEF OrderInv, QueueOrder
  <2>2. CASE StartWork
    BY <1>1, <2>0, <2>2 DEF StartWork, TypeOK
  <2>3. CASE DeleteSession
    BY <1>1, <2>3, DeleteSucceeds
  <2>4. ASSUME NEW p \in Msgs, HandlerStep(p)
        PROVE  FALSE
    <3>1. status'[m] = status[m] \/ status'[m] = "discarded" \/ status[m] \in Submitted
      BY <1>1, <2>4, SubmittedKept
    <3> QED
      BY <1>1, <3>1 DEF Submitted, Working
  <2>5. ASSUME NEW p \in Msgs, Produce(p) \/ Callback(p)
        PROVE  FALSE
    BY <1>1, <2>0, <2>5 DEF Produce, Callback, TypeOK
  <2>6. CASE RegisterCallback
    BY <1>1, <2>0, <2>6 DEF RegisterCallback, TypeOK
  <2> QED
    BY <1>1, <2>1, <2>2, <2>3, <2>4, <2>5, <2>6
    DEF Next, Consumer, Worker, HandlerStep, ListSessions, ReadSession, AllPermitsTaken,
        FindEmpty, AppendFuture, CheckIdle
<1>2. IInv /\ OrderInv /\ [Next]_vars =>
        [\A m, n \in Msgs :
            /\ SessionOf[m] = SessionOf[n]
            /\ KindOf[m] = "chat" /\ status[m] = "queued" /\ status'[m] = "pending"
            /\ KindOf[n] # "chat"
            => status[n] # "queued"]_vars
  BY <1>1
<1> QED
  BY <1>2, Invariance, OrderInvariance, PTL DEF Spec, CommandsFirst

\* With one permit, a handler of a chat message starts only when every earlier
\* chat message of the session is done or given up.
THEOREM InOrder ==
    ASSUME Concurrency = 1
    PROVE  Spec => HandledInOrder
<1> DEFINE Begins(m, n) ==
        /\ SessionOf[m] = SessionOf[n] /\ n < m
        /\ KindOf[m] = "chat" /\ KindOf[n] = "chat"
        /\ status[m] = "pending" /\ status'[m] = "running"
<1>1. ASSUME IInv, OrderInv, NEW m \in Msgs, NEW n \in Msgs, Begins(m, n)
      PROVE  status[n] \in {"done", "discarded", "lost"}
  <2> DEFINE s == SessionOf[m]
  <2>1. s \in Sessions /\ m \in Nat /\ n \in Nat /\ n # m /\ status[n] \in Statuses
    BY <1>1, DispatchAssumption DEF DispatchAssumption, IInv, TypeOK
  <2>2. status[n] \notin {"new", "queued"}
    BY <1>1 DEF OrderInv, ArrivedInOrder, LeftInOrder
  <2>3. status[n] \notin Submitted
    <3>1. ASSUME status[n] \in Submitted
          PROVE  FALSE
      <4>1. m \in InFlight(s) /\ n \in InFlight(s)
        BY <1>1, <3>1 DEF InFlight, Submitted
      <4>2. Cardinality(InFlight(s)) <= 1
        <5>1. slots[s] \in Nat /\ slots[s] <= 1
          BY <1>1, <2>1 DEF IInv, SlotsBound, TypeOK
        <5>2. Cardinality(InFlight(s)) <= slots[s]
          BY <1>1, <2>1, <5>1, InFlightFinite DEF IInv, PermitAccounting
        <5> QED
          BY <2>1, <5>1, <5>2, InFlightFinite
      <4>3. Cardinality({m}) = 1 /\ {m} \subseteq InFlight(s)
        BY <4>1, FS_Singleton
      <4>4. InFlight(s) = {m}
        BY <2>1, <4>2, <4>3, InFlightFinite, FS_Subset
      <4> QED
        BY <2>1, <4>1, <4>4
    <3> QED
      BY <3>1
  <2> QED
    BY <2>1, <2>2, <2>3 DEF Statuses
<1>2. IInv /\ OrderInv /\ [Next]_vars =>
        [\A m, n \in Msgs :
            /\ SessionOf[m] = SessionOf[n] /\ n < m
            /\ KindOf[m] = "chat" /\ KindOf[n] = "chat"
            /\ status[m] = "pending" /\ status'[m] = "running"
            => status[n] \in {"done", "discarded", "lost"}]_vars
  BY <1>1
<1> QED
  BY <1>2, Invariance, OrderInvariance, PTL DEF Spec, HandledInOrder

=============================================================================
