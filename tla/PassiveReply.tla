---------------------------- MODULE PassiveReply ----------------------------
(***************************************************************************)
(* Passive replies of the WeChat official-account channel of dify-on-wechat *)
(* (channel/wechatmp/passive_reply.py and wechatmp_channel.py).            *)
(*                                                                         *)
(* WeChat posts every message of a user to the server and takes the answer *)
(* from the HTTP response.  When none comes within 5 seconds it posts the  *)
(* message again, three times in all.  A handler takes longer than that,   *)
(* so a request thread starts the task (produce), waits at most 4 seconds, *)
(* and a later request collects the reply, which the task's worker has put *)
(* in cache_dict.  Request threads and workers share cache_dict, running   *)
(* and request_cnt without a lock; one step is one operation on them.      *)
(*                                                                         *)
(* The dispatcher is taken at its word: a task waits, begins when a permit *)
(* of its user is free and ends, or is given up before it begins, as       *)
(* SessionLimiter says and ChatDispatch implements.                        *)
(***************************************************************************)
EXTENDS Naturals, Sequences, FiniteSets

CONSTANTS
    Users,
    Msgs,          \* message ids, numbered in the order a user sends them
    UserOf,        \* who sent a message
    Commands,      \* the messages that start with "#"
    Unsupported,   \* the messages no context can be composed for
    Replies,       \* what the handler of a message may come to: some ReplyKinds
    Fragile,       \* the messages whose replies may fail to be uploaded
    MaxAttempts,   \* how often WeChat posts a message at most (3)
    MaxSends,      \* how often _send tries to send a reply at most (3)
    Permits,       \* concurrency_in_session: tasks of a user that may run at once
    Overlap,       \* TRUE: a user may write before the last answer came
    MayDrop        \* TRUE: the dispatcher may give up a waiting task

\* No reply; a text that fits a response; one that needs two; an image; a
\* voice reply of two files; a video; an exception of the handler.
ReplyKinds == {"none", "text", "long", "image", "voices", "video", "raise"}

\* What send uploads before it caches it.
Uploads == {"image", "voices", "video"}

ASSUME PassiveAssumption ==
    /\ IsFiniteSet(Msgs) /\ Msgs \subseteq Nat
    /\ UserOf \in [Msgs -> Users]
    /\ Commands \subseteq Msgs
    /\ Unsupported \subseteq Msgs
    /\ Replies \in [Msgs -> SUBSET ReplyKinds]
    /\ Fragile \subseteq Msgs
    /\ MaxAttempts \in Nat \ {0}
    /\ MaxSends \in Nat \ {0}
    /\ Permits \in Nat \ {0}
    /\ Overlap \in BOOLEAN
    /\ MayDrop \in BOOLEAN

Attempts == 1..MaxAttempts
\* Each of these requests may produce a task.
Tasks == Msgs \X Attempts
TaskUser == [t \in Tasks |-> UserOf[t[1]]]

\* <<t, n>>: the n-th time that _send calls send with the reply to t.
Sendings == Tasks \X (1..MaxSends)

\* A cached entry: part p of what the sending s caches.  A text that does not
\* fit a response is both parts.
Entry(s, p, form) == [of |-> s, part |-> p, form |-> form]
Entries == [of : Sendings, part : {1, 2}, form : {"whole", "long", "video"}]
NoEntry == [of |-> <<>>, part |-> 0, form |-> "none"]

VARIABLES
    cached,       \* the users with a key in cache_dict
    cache,        \* cache_dict[u], a list of entries
    running,      \* users whose message is being processed
    cnt,          \* request_cnt, 0 where there is no key
    attempt,      \* which of its requests a message is at
    pc,           \* where the thread of that request is
    hand,         \* the entry that thread has popped
    answer,       \* what WeChat got for a message
    phase,        \* the dispatcher's phase of a task
    reply,        \* what the task's handler came to
    out,          \* entries the task has yet to cache
    tries,        \* the sending it is at
    stored,       \* the <<sending, part>> ever cached, but for videos
    delivered     \* <<sending, part>>, in the order they reached the user

vars == <<cached, cache, running, cnt, attempt, pc, hand, answer,
          phase, reply, out, tries, stored, delivered>>
taskVars == <<phase, reply, out, tries, stored>>

-----------------------------------------------------------------------------
Init ==
    /\ cached = {}
    /\ cache = [u \in Users |-> <<>>]
    /\ running = {}
    /\ cnt = [m \in Msgs |-> 0]
    /\ attempt = [m \in Msgs |-> 0]
    /\ pc = [m \in Msgs |-> "unsent"]
    /\ hand = [m \in Msgs |-> NoEntry]
    /\ answer = [m \in Msgs |-> "none"]
    /\ phase = [t \in Tasks |-> "new"]
    /\ reply = [t \in Tasks |-> "none"]
    /\ out = [t \in Tasks |-> <<>>]
    /\ tries = [t \in Tasks |-> 0]
    /\ stored = {}
    /\ delivered = <<>>

Goto(m, l) == pc' = [pc EXCEPT ![m] = l]

\* The response reaches WeChat, and the exchange about m is over.
Respond(m, a) ==
    /\ Goto(m, "answered")
    /\ answer' = [answer EXCEPT ![m] = a]

-----------------------------------------------------------------------------
(* WeChat.                                                                 *)

\* A user writes.
Write(m) ==
    /\ pc[m] = "unsent"
    /\ \A n \in Msgs : UserOf[n] = UserOf[m] /\ n < m =>
          pc[n] # "unsent" /\ (Overlap \/ pc[n] = "answered")
    /\ attempt' = [attempt EXCEPT ![m] = 1]
    /\ Goto(m, "check")
    /\ UNCHANGED <<cached, cache, running, cnt, hand, answer, taskVars, delivered>>

\* Five seconds without an answer: WeChat closes the request, whose thread
\* sleeps by then, and posts the message again.
Retry(m) ==
    /\ pc[m] = "asleep"
    /\ attempt[m] < MaxAttempts
    /\ attempt' = [attempt EXCEPT ![m] = @ + 1]
    /\ Goto(m, "check")
    /\ UNCHANGED <<cached, cache, running, cnt, hand, answer, taskVars, delivered>>

-----------------------------------------------------------------------------
(* The thread of a request.                                                *)

\* A new request: nothing cached, and nothing running, which is read after
\* it; or a command whose message id is not counted yet.
NewCommand(m) == m \in Commands /\ cnt[m] = 0

CheckCached(m) ==
    /\ pc[m] = "check"
    /\ Goto(m, IF UserOf[m] \notin cached THEN "checkRunning"
               ELSE IF NewCommand(m) THEN "begin" ELSE "count")
    /\ UNCHANGED <<cached, cache, running, cnt, attempt, hand, answer, taskVars, delivered>>

CheckRunning(m) ==
    /\ pc[m] = "checkRunning"
    /\ Goto(m, IF UserOf[m] \notin running \/ NewCommand(m) THEN "begin" ELSE "count")
    /\ UNCHANGED <<cached, cache, running, cnt, attempt, hand, answer, taskVars, delivered>>

\* Mutation: running.add before the message is known to have a context.
Begin_AddFirst(m) ==
    /\ pc[m] = "begin"
    /\ running' = running \cup {UserOf[m]}
    /\ IF m \in Unsupported
       THEN /\ Respond(m, "hint")
            /\ UNCHANGED phase
       ELSE /\ phase' = [phase EXCEPT ![<<m, attempt[m]>>] = "waiting"]
            /\ Goto(m, "count")
            /\ UNCHANGED answer
    /\ UNCHANGED <<cached, cache, cnt, attempt, hand, reply, out, tries, stored,
                   delivered>>

\* running.add and produce are one step: nobody can tell a task produced late
\* from one that waits.  A message without a context is answered with a hint.
Begin(m) ==
    /\ pc[m] = "begin"
    /\ IF m \in Unsupported
       THEN /\ Respond(m, "hint")
            /\ UNCHANGED <<running, phase>>
       ELSE /\ running' = running \cup {UserOf[m]}
            /\ phase' = [phase EXCEPT ![<<m, attempt[m]>>] = "waiting"]
            /\ Goto(m, "count")
            /\ UNCHANGED answer
    /\ UNCHANGED <<cached, cache, cnt, attempt, hand, reply, out, tries, stored,
                   delivered>>

Count(m) ==
    /\ pc[m] = "count"
    /\ cnt' = [cnt EXCEPT ![m] = @ + 1]
    /\ Goto(m, "wait")
    /\ UNCHANGED <<cached, cache, running, attempt, hand, answer, taskVars, delivered>>

\* Mutation: no request is the last one.
TimeOut_Forever(m) ==
    /\ pc[m] = "wait"
    /\ Goto(m, "asleep")
    /\ UNCHANGED <<cached, cache, running, cnt, attempt, hand, answer, taskVars, delivered>>

\* Four seconds are over: the thread sleeps until WeChat has given up on the
\* request, or tells the user, at the last one, to ask again.
TimeOut(m) ==
    /\ pc[m] = "wait"
    /\ IF cnt[m] < MaxAttempts
       THEN Goto(m, "asleep") /\ UNCHANGED answer
       ELSE Respond(m, "thinking")
    /\ UNCHANGED <<cached, cache, running, cnt, attempt, hand, taskVars, delivered>>

\* The user's message is not being processed any more.
Ready(m) ==
    /\ pc[m] = "wait"
    /\ UserOf[m] \notin running
    /\ cnt' = [cnt EXCEPT ![m] = 0]
    /\ Goto(m, "ready")
    /\ UNCHANGED <<cached, cache, running, attempt, hand, answer, taskVars, delivered>>

\* Mutation: the cache is not looked at.
FindCached_Ignored(m) ==
    /\ pc[m] = "ready"
    /\ Goto(m, "missing")
    /\ UNCHANGED <<cached, cache, running, cnt, attempt, hand, answer, taskVars, delivered>>

\* from_user not in cache_dict ...
FindCached(m) ==
    /\ pc[m] = "ready"
    /\ Goto(m, IF UserOf[m] \in cached THEN "pop" ELSE "missing")
    /\ UNCHANGED <<cached, cache, running, cnt, attempt, hand, answer, taskVars, delivered>>

\* ... and not in running either: nothing to collect.
FindRunning(m) ==
    /\ pc[m] = "missing"
    /\ IF UserOf[m] \in running
       THEN Goto(m, "pop") /\ UNCHANGED answer
       ELSE Respond(m, "success")
    /\ UNCHANGED <<cached, cache, running, cnt, attempt, hand, taskVars, delivered>>

\* Mutation: the entry is read and not removed.
Pop_Peek(m) ==
    LET u == UserOf[m] IN
    /\ pc[m] = "pop"
    /\ cached' = cached \cup {u}
    /\ IF cache[u] = <<>>
       THEN Respond(m, "success") /\ UNCHANGED <<cache, hand>>
       ELSE /\ hand' = [hand EXCEPT ![m] = Head(cache[u])]
            /\ UNCHANGED cache
            /\ Goto(m, "test")
            /\ UNCHANGED answer
    /\ UNCHANGED <<running, cnt, attempt, taskVars, delivered>>

\* cache_dict[from_user].pop(0).  cache_dict is a defaultdict: reading it
\* makes an entry for the user, with an empty list.
Pop(m) ==
    LET u == UserOf[m] IN
    /\ pc[m] = "pop"
    /\ cached' = cached \cup {u}
    /\ IF cache[u] = <<>>
       THEN Respond(m, "success") /\ UNCHANGED <<cache, hand>>
       ELSE /\ hand' = [hand EXCEPT ![m] = Head(cache[u])]
            /\ cache' = [cache EXCEPT ![u] = Tail(@)]
            /\ Goto(m, "test")
            /\ UNCHANGED answer
    /\ UNCHANGED <<running, cnt, attempt, taskVars, delivered>>

\* Mutation: an empty list is not deleted.
TestEmpty_Never(m) ==
    /\ pc[m] = "test"
    /\ cached' = cached \cup {UserOf[m]}
    /\ Goto(m, "reply")
    /\ UNCHANGED <<cache, running, cnt, attempt, hand, answer, taskVars, delivered>>

\* if not cache_dict[from_user]
TestEmpty(m) ==
    /\ pc[m] = "test"
    /\ cached' = cached \cup {UserOf[m]}
    /\ Goto(m, IF cache[UserOf[m]] = <<>> THEN "delete" ELSE "reply")
    /\ UNCHANGED <<cache, running, cnt, attempt, hand, answer, taskVars, delivered>>

\* del cache_dict[from_user]; the KeyError of a missing key ends the request
\* with an exception in place of a reply.
DeleteEntry(m) ==
    LET u == UserOf[m] IN
    /\ pc[m] = "delete"
    /\ cached' = cached \ {u}
    /\ cache' = [cache EXCEPT ![u] = <<>>]
    /\ IF u \in cached
       THEN Goto(m, "reply") /\ UNCHANGED <<hand, answer>>
       ELSE Respond(m, "error") /\ hand' = [hand EXCEPT ![m] = NoEntry]
    /\ UNCHANGED <<running, cnt, attempt, taskVars, delivered>>

\* Mutation: the rest of a long text is not cached.
Reply_NoRest(m) ==
    LET e == hand[m] IN
    /\ pc[m] = "reply"
    /\ UNCHANGED <<cache, cached>>
    /\ IF e.form = "video"
       THEN Respond(m, "success") /\ UNCHANGED delivered
       ELSE Respond(m, "reply") /\ delivered' = Append(delivered, <<e.of, e.part>>)
    /\ hand' = [hand EXCEPT ![m] = NoEntry]
    /\ UNCHANGED <<running, cnt, attempt, taskVars>>

\* The response carries the entry, or its first part; the rest goes back to
\* the cache, at the end of the user's list.  There is no branch for a video:
\* the popped entry is gone, and the answer a bare "success".
Reply(m) ==
    LET u == UserOf[m]
        e == hand[m]
    IN
    /\ pc[m] = "reply"
    /\ IF e.form = "long"
       THEN /\ cache' = [cache EXCEPT ![u] = Append(@, Entry(e.of, 2, "whole"))]
            /\ cached' = cached \cup {u}
       ELSE UNCHANGED <<cache, cached>>
    /\ IF e.form = "video"
       THEN Respond(m, "success") /\ UNCHANGED delivered
       ELSE Respond(m, "reply") /\ delivered' = Append(delivered, <<e.of, e.part>>)
    /\ hand' = [hand EXCEPT ![m] = NoEntry]
    /\ UNCHANGED <<running, cnt, attempt, taskVars>>

Request(m) ==
    \/ CheckCached(m) \/ CheckRunning(m) \/ Begin(m) \/ Count(m)
    \/ TimeOut(m) \/ Ready(m) \/ FindCached(m) \/ FindRunning(m)
    \/ Pop(m) \/ TestEmpty(m) \/ DeleteEntry(m) \/ Reply(m)

-----------------------------------------------------------------------------
(* The tasks, run by the dispatcher.                                       *)

\* What the sending s of a reply of kind k caches, in order.
EntriesOf(s, k) ==
    CASE k \in {"text", "image"} -> <<Entry(s, 1, "whole")>>
      [] k = "long"              -> <<Entry(s, 1, "long")>>
      [] k = "voices"            -> <<Entry(s, 1, "whole"), Entry(s, 2, "whole")>>
      [] k = "video"             -> <<Entry(s, 1, "video")>>
      [] OTHER                   -> <<>>

\* The parts a user is to get from an entry.
PartsIn(e) ==
    CASE e.form = "whole" -> {<<e.of, e.part>>}
      [] e.form = "long"  -> {<<e.of, 1>>, <<e.of, 2>>}
      [] OTHER            -> {}

ActiveOf(u) == {t \in Tasks : TaskUser[t] = u /\ phase[t] = "active"}

\* A worker runs the handler, which comes to some reply.  Any waiting task
\* may be the next: commands overtake, and the semaphore is all that counts.
StartTask(t) ==
    /\ phase[t] = "waiting"
    /\ Cardinality(ActiveOf(TaskUser[t])) < Permits
    /\ phase' = [phase EXCEPT ![t] = "active"]
    /\ tries' = [tries EXCEPT ![t] = 1]
    /\ \E k \in Replies[t[1]] :
          /\ reply' = [reply EXCEPT ![t] = k]
          /\ out' = [out EXCEPT ![t] = EntriesOf(<<t, 1>>, k)]
    /\ UNCHANGED <<cached, cache, running, cnt, attempt, pc, hand, answer, stored,
                   delivered>>

\* Mutation: a part goes to the front of the list.
SendPart_Front(t) ==
    LET u == TaskUser[t] IN
    /\ phase[t] = "active"
    /\ out[t] # <<>>
    /\ cached' = cached \cup {u}
    /\ cache' = [cache EXCEPT ![u] = <<Head(out[t])>> \o @]
    /\ out' = [out EXCEPT ![t] = Tail(@)]
    /\ stored' = stored \cup PartsIn(Head(out[t]))
    /\ UNCHANGED <<running, cnt, attempt, pc, hand, answer, phase, reply, tries, delivered>>

\* send: one entry after another, an upload before each but a text.
SendPart(t) ==
    LET u == TaskUser[t] IN
    /\ phase[t] = "active"
    /\ out[t] # <<>>
    /\ cached' = cached \cup {u}
    /\ cache' = [cache EXCEPT ![u] = Append(@, Head(out[t]))]
    /\ out' = [out EXCEPT ![t] = Tail(@)]
    /\ stored' = stored \cup PartsIn(Head(out[t]))
    /\ UNCHANGED <<running, cnt, attempt, pc, hand, answer, phase, reply, tries, delivered>>

\* An upload comes next, and may fail.
Uploading(t) ==
    /\ phase[t] = "active" /\ out[t] # <<>>
    /\ reply[t] \in Uploads /\ t[1] \in Fragile

\* WeChat refuses an upload, and send returns; or the last try raises, and
\* _send only logs it.  What has been cached stays.
SendLess(t) ==
    /\ Uploading(t)
    /\ out' = [out EXCEPT ![t] = <<>>]
    /\ UNCHANGED <<cached, cache, running, cnt, attempt, pc, hand, answer, phase, reply,
                   tries, stored, delivered>>

\* Mutation: one try too many.
SendAgain_OneMore(t) ==
    /\ Uploading(t)
    /\ tries[t] <= MaxSends
    /\ tries' = [tries EXCEPT ![t] = @ + 1]
    /\ out' = [out EXCEPT ![t] = EntriesOf(<<t, tries[t] + 1>>, reply[t])]
    /\ UNCHANGED <<cached, cache, running, cnt, attempt, pc, hand, answer, phase, reply,
                   stored, delivered>>

\* An upload raises anything else: _send begins again with the first part.
SendAgain(t) ==
    /\ Uploading(t)
    /\ tries[t] < MaxSends
    /\ tries' = [tries EXCEPT ![t] = @ + 1]
    /\ out' = [out EXCEPT ![t] = EntriesOf(<<t, tries[t] + 1>>, reply[t])]
    /\ UNCHANGED <<cached, cache, running, cnt, attempt, pc, hand, answer, phase, reply,
                   stored, delivered>>

EndTask(t) == phase' = [phase EXCEPT ![t] = "over"]

\* Mutation: the callback leaves its user in running.
Succeed_NoRemove(t) ==
    /\ phase[t] = "active" /\ out[t] = <<>> /\ reply[t] # "raise"
    /\ EndTask(t)
    /\ UNCHANGED <<cached, cache, running, cnt, attempt, pc, hand, answer, reply, out, tries,
                   stored, delivered>>

\* _success_callback; the KeyError of a second removal is only logged.
Succeed(t) ==
    /\ phase[t] = "active" /\ out[t] = <<>> /\ reply[t] # "raise"
    /\ EndTask(t)
    /\ running' = running \ {TaskUser[t]}
    /\ UNCHANGED <<cached, cache, cnt, attempt, pc, hand, answer, reply, out, tries, stored,
                   delivered>>

\* _fail_callback; a failed assertion is only logged, too, and skips the
\* removal that follows it.
Fail(t) ==
    /\ phase[t] = "active" /\ reply[t] = "raise"
    /\ EndTask(t)
    /\ running' = IF TaskUser[t] \in cached THEN running
                  ELSE running \ {TaskUser[t]}
    /\ UNCHANGED <<cached, cache, cnt, attempt, pc, hand, answer, reply, out, tries, stored,
                   delivered>>

Task(t) ==
    \/ StartTask(t) \/ SendPart(t) \/ SendLess(t) \/ SendAgain(t)
    \/ Succeed(t) \/ Fail(t)

\* A task given up by the dispatcher runs no callback of the channel.
Drop(t) ==
    /\ MayDrop
    /\ phase[t] = "waiting"
    /\ EndTask(t)
    /\ UNCHANGED <<cached, cache, running, cnt, attempt, pc, hand, answer, reply, out, tries,
                   stored, delivered>>

-----------------------------------------------------------------------------
Next ==
    \/ \E m \in Msgs : Write(m) \/ Retry(m) \/ Request(m)
    \/ \E t \in Tasks : Task(t) \/ Drop(t)

Spec == Init /\ [][Next]_vars

\* Request threads and workers run, and WeChat does retry.
Fairness ==
    /\ \A m \in Msgs : WF_vars(Retry(m)) /\ WF_vars(Request(m))
    /\ \A t \in Tasks : WF_vars(Task(t))

FairSpec == Spec /\ Fairness

-----------------------------------------------------------------------------
(* Properties.                                                             *)

Pcs == {"unsent", "check", "checkRunning", "begin", "count", "wait", "asleep",
        "ready", "missing", "pop", "test", "delete", "reply", "answered"}

\* Every variable has its type.
TypeOK ==
    /\ cached \subseteq Users
    /\ cache \in [Users -> Seq(Entries)]
    /\ running \subseteq Users
    /\ cnt \in [Msgs -> 0..MaxAttempts]
    /\ attempt \in [Msgs -> 0..MaxAttempts]
    /\ pc \in [Msgs -> Pcs]
    /\ hand \in [Msgs -> Entries \cup {NoEntry}]
    /\ answer \in [Msgs -> {"none", "hint", "thinking", "success", "error", "reply"}]
    /\ phase \in [Tasks -> {"new", "waiting", "active", "over"}]
    /\ reply \in [Tasks -> ReplyKinds]
    /\ out \in [Tasks -> Seq(Entries)]
    /\ tries \in [Tasks -> 0..MaxSends]
    /\ stored \subseteq Sendings \X {1, 2}
    /\ delivered \in Seq(Sendings \X {1, 2})

\* Where the part x is kept until it is delivered.
Kept(x) ==
    LET u == TaskUser[x[1][1]] IN
    \/ \E i \in DOMAIN cache[u] : x \in PartsIn(cache[u][i])
    \/ \E m \in Msgs : x \in PartsIn(hand[m])

\* A part that was cached is kept until it is delivered, unless it is a video:
\* neither the test for an empty list and the deletion after it (135, 136) nor
\* the split of a long text (151) drops what another thread has cached.
NoReplyLost ==
    \A x \in stored : Kept(x) \/ \E i \in DOMAIN delivered : delivered[i] = x

\* No entry reaches the user twice, however many requests collect (132).  That
\* _send repeats a reply after an upload raised makes entries of their own.
DeliveredOnce ==
    \A i, j \in DOMAIN delivered : delivered[i] = delivered[j] => i = j

\* The second part of what a sending cached comes after the first, although
\* the two may be collected by different requests (134, 151).
PartsInOrder ==
    \A i \in DOMAIN delivered : delivered[i][2] = 2 =>
        \E j \in 1..(i - 1) : delivered[j] = <<delivered[i][1], 1>>

\* A key of cache_dict with an empty list is about to be deleted (135).  One
\* that stays would make every later message of the user look like a request
\* for a reply that is ready, and none of them would be handled any more.
NoOrphanEntry ==
    \A u \in cached : cache[u] = <<>> =>
        \E m \in Msgs : UserOf[m] = u /\ pc[m] \in {"test", "delete"}

\* A user's task that waits or is being handled.
Busy(u) == \E t \in Tasks : TaskUser[t] = u /\ phase[t] \in {"waiting", "active"}

\* "Record whether the current message is being processed" (wechatmp_channel
\* 51): a user in running has a task that waits or is being handled.
RunningMeansTask ==
    \A u \in running : Busy(u)

\* A user who is in running while nothing of theirs is under way stays there:
\* no request of theirs but a command is handled from then on (51-56).
Stranded(u) == u \in running /\ ~Busy(u)

\* A user is left like that in two ways only: the dispatcher gives up the last
\* waiting task of theirs, which runs no callback, or a handler raises while
\* something is cached for them (_fail_callback's assertion).  No message that
\* is refused, repeated or overtaken by a command does it, nor an upload.
StrandedOnly ==
    [][\A u \in Users : Stranded(u)' /\ ~Stranded(u) =>
         \E t \in Tasks : TaskUser[t] = u /\ (Drop(t) \/ (Fail(t) /\ u \in cached))]_vars

\* The retries of a message do not start it again (57, 93-94).
ProducedOnce ==
    \A m \in Msgs : Cardinality({a \in Attempts : phase[<<m, a>>] # "new"}) <= 1

\* A request is answered with a bare "success" only when there is nothing the
\* user could have been given (129, 137), or when it popped a video (208).
SuccessMeansNothing ==
    [][\A m \in Msgs : answer[m] = "none" /\ answer'[m] = "success"
          => IF hand[m] = NoEntry THEN cache[UserOf[m]] = <<>>
             ELSE hand[m].form = "video"]_vars

\* With WeChat's retries every message gets an answer in the end.
EveryRequestAnswered == \A m \in Msgs : pc[m] = "check" ~> pc[m] = "answered"
=============================================================================
