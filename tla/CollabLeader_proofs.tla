------------------------ MODULE CollabLeader_proofs ------------------------
(***************************************************************************)
(* Proofs about CollabLeader, for any number of sessions, whichever may    *)
(* edit, close and expire, and however many handlers run at once:          *)
(*  - TypeCorrect: the types, with PhaseOK, without which Announce would   *)
(*    have nowhere to go;                                                  *)
(*  - LeaderInvariance: what each handler may rely on between two of its   *)
(*    calls to Redis (JoinOK, EventOK, LeaveOK), that the server knows the *)
(*    open tabs it has not forgotten (Kept), and that a disagreement       *)
(*    between it and a session it has registered, or a room without a      *)
(*    leader, always has a handler under way that ends it (Known, Mended); *)
(*    of a tab it has forgotten the invariant says nothing: one that led   *)
(*    goes on as if it did;                                                *)
(*  - OneLeaderElected: OneLeader, the invariant of the run.               *)
(* Liveness (RequestIsHeard) is TLC's.                                     *)
(***************************************************************************)
EXTENDS CollabLeader, TLAPS

-----------------------------------------------------------------------------
(* Types.                                                                  *)

JobFunctions == [Handlers -> Jobs]

\* A handler has a reason to elect or to announce when it does: the CASE of
\* Announce is complete.
HasReason(h) ==
    job[h].pc \in {"prune", "check", "drop", "elect", "appoint", "announce", "depose", "take"}
        => job[h].phase # "none"
PhaseOK == \A h \in Handlers : HasReason(h)

TypeInv == TypeOK /\ PhaseOK

LEMMA HandlerFacts ==
    ASSUME NEW s \in Sessions
    PROVE  /\ <<s, "call">> \in Handlers /\ <<s, "disconnect">> \in Handlers
           /\ <<s, "call">> # <<s, "disconnect">>
           /\ NoSession # s
BY CollabLeaderAssumption DEF Handlers

LEMMA PcFacts ==
    /\ "idle" \in Pcs /\ "register" \in Pcs /\ "find" \in Pcs /\ "evict" \in Pcs
    /\ "claim" \in Pcs /\ "reread" \in Pcs /\ "tell" \in Pcs /\ "forget" \in Pcs
    /\ "resign" \in Pcs /\ "vacate" \in Pcs /\ "prune" \in Pcs /\ "check" \in Pcs
    /\ "drop" \in Pcs /\ "elect" \in Pcs /\ "appoint" \in Pcs /\ "announce" \in Pcs
    /\ "authorize" \in Pcs /\ "ensure" \in Pcs /\ "depose" \in Pcs /\ "take" \in Pcs
    /\ "target" \in Pcs /\ "forward" \in Pcs /\ "map" \in Pcs /\ "unseat" \in Pcs
    /\ "lookup" \in Pcs
    /\ "none" \in Phases /\ "join" \in Phases /\ "leave" \in Phases /\ "roll" \in Phases
    /\ "ensure" \in Phases /\ "request" \in Phases
    /\ NoSession \in SidsOrNone /\ \A s \in Sessions : s \in SidsOrNone
BY DEF Pcs, Phases, SidsOrNone

LEMMA IdleTyped == Idle \in Jobs
BY DEF Idle, Jobs, Pcs, Phases, SidsOrNone

LEMMA JobTyped ==
    ASSUME job \in JobFunctions, NEW h \in Handlers
    PROVE  /\ job[h] \in Jobs
           /\ job[h].op \in {"none", "join", "event", "leave"} /\ job[h].pc \in Pcs
           /\ job[h].phase \in Phases /\ job[h].seen \in SidsOrNone
           /\ job[h].choice \in SidsOrNone /\ job[h].users \subseteq Sessions
           /\ job[h].leads \in BOOLEAN
BY DEF JobFunctions, Jobs

LEMMA FieldTyped ==
    ASSUME NEW f \in JobFunctions, NEW h \in Handlers
    PROVE  /\ \A pc \in Pcs : [f EXCEPT ![h].pc = pc] \in JobFunctions
           /\ \A p \in Phases : [f EXCEPT ![h].phase = p] \in JobFunctions
           /\ \A x \in SidsOrNone : [f EXCEPT ![h].seen = x] \in JobFunctions
           /\ \A x \in SidsOrNone : [f EXCEPT ![h].choice = x] \in JobFunctions
           /\ \A u \in SUBSET Sessions : [f EXCEPT ![h].users = u] \in JobFunctions
           /\ \A b \in BOOLEAN : [f EXCEPT ![h].leads = b] \in JobFunctions
           /\ \A j \in Jobs : [f EXCEPT ![h] = j] \in JobFunctions
BY DEF JobFunctions, Jobs

LEMMA OverTyped ==
    ASSUME job \in JobFunctions, NEW h \in Handlers, Over(h)
    PROVE  job' \in JobFunctions
<1> DEFINE told == [Idle EXCEPT !.op = "join", !.pc = "tell", !.leads = job[h].leads]
<1>1. told \in Jobs
  BY JobTyped DEF Idle, Jobs, Pcs, Phases, SidsOrNone
<1>2. job' = [job EXCEPT ![h] = IF job[h].op = "join" THEN told ELSE Idle]
  BY DEF Over, JobFunctions
<1> QED
  BY <1>1, <1>2, FieldTyped, IdleTyped

LEMMA RollTyped ==
    ASSUME job \in JobFunctions, NEW h \in Handlers, RollCall(h)
    PROVE  job' \in JobFunctions
BY FieldTyped, PcFacts DEF RollCall

LEMMA GotoTyped ==
    ASSUME job \in JobFunctions, NEW h \in Handlers, NEW pc \in Pcs, Goto(h, pc)
    PROVE  job' \in JobFunctions
BY FieldTyped DEF Goto

LEMMA BeginTyped ==
    ASSUME job \in JobFunctions, NEW s \in Sessions, NEW op \in {"join", "event", "leave"},
           Begin(s, op)
    PROVE  job' \in JobFunctions
<1> DEFINE h == <<s, IF op = "leave" THEN "disconnect" ELSE "call">>
           j == [Idle EXCEPT !.op = op,
                     !.pc = CASE op = "join" -> "register" [] op = "event" -> "authorize"
                              [] op = "leave" -> "lookup"]
<1>1. h \in Handlers
  BY DEF Handlers
<1>2. j \in Jobs
  BY DEF Idle, Jobs, Pcs, Phases, SidsOrNone
<1>3. job' = [job EXCEPT ![h] = j]
  BY DEF Begin
<1> QED
  BY <1>1, <1>2, <1>3, FieldTyped

\* What these leave a handler with.
Aside(h) == \A g \in Handlers \ {h} : job'[g] = job[g]

LEMMA GotoFacts ==
    ASSUME job \in JobFunctions, NEW h \in Handlers, NEW pc, Goto(h, pc)
    PROVE  /\ Aside(h)
           /\ job'[h].pc = pc /\ job'[h].op = job[h].op /\ job'[h].phase = job[h].phase
           /\ job'[h].seen = job[h].seen /\ job'[h].choice = job[h].choice
           /\ job'[h].users = job[h].users /\ job'[h].leads = job[h].leads
BY DEF Goto, Aside, JobFunctions, Jobs

LEMMA RollFacts ==
    ASSUME job \in JobFunctions, NEW h \in Handlers, RollCall(h)
    PROVE  /\ Aside(h)
           /\ job'[h].pc = "prune" /\ job'[h].op = job[h].op /\ job'[h].phase = "roll"
           /\ job'[h].seen = NoSession /\ job'[h].choice = NoSession
           /\ job'[h].users = job[h].users /\ job'[h].leads = job[h].leads
BY DEF RollCall, Aside, JobFunctions, Jobs

LEMMA OverFacts ==
    ASSUME job \in JobFunctions, NEW h \in Handlers, Over(h)
    PROVE  /\ Aside(h)
           /\ job[h].op # "join" => job'[h] = Idle
           /\ job[h].op = "join" =>
                /\ job'[h].op = "join" /\ job'[h].pc = "tell" /\ job'[h].phase = "none"
                /\ job'[h].leads = job[h].leads
BY DEF Over, Aside, Idle, JobFunctions

LEMMA BeginFacts ==
    ASSUME job \in JobFunctions, NEW s \in Sessions, NEW op \in {"join", "event", "leave"},
           Begin(s, op)
    PROVE  LET h == <<s, IF op = "leave" THEN "disconnect" ELSE "call">> IN
           /\ Aside(h) /\ h \in Handlers
           /\ job'[h].op = op /\ job'[h].phase = "none"
           /\ job'[h].pc = CASE op = "join" -> "register" [] op = "event" -> "authorize"
                              [] op = "leave" -> "lookup"
BY DEF Begin, Aside, Idle, JobFunctions, Handlers

LEMMA FindLeaderFacts ==
    ASSUME job \in JobFunctions, NEW s \in Sessions, NEW h \in Handlers, h = <<s, "call">>,
           FindLeader(s)
    PROVE  /\ Aside(h) /\ job'[h].op = job[h].op
           /\ leader # NoSession /\ Active(leader) =>
                /\ job'[h].pc = "prune" /\ job'[h].phase = "roll"
                /\ job'[h].leads <=> leader = s
           /\ ~(leader # NoSession /\ Active(leader)) =>
                /\ job'[h].pc = IF leader = NoSession THEN "claim" ELSE "evict"
                /\ job'[h].seen = leader
<1>1. CASE leader # NoSession /\ Active(leader)
  <2>1. job' = [job EXCEPT ![h].pc = "prune", ![h].phase = "roll", ![h].leads = (leader = s)]
    BY <1>1 DEF FindLeader
  <2>2. Aside(h)
    BY <2>1 DEF Aside, JobFunctions
  <2>3. job'[h] = [job[h] EXCEPT !.pc = "prune", !.phase = "roll", !.leads = (leader = s)]
    BY <2>1 DEF JobFunctions
  <2> QED
    BY <1>1, <2>2, <2>3, JobTyped DEF Jobs
<1>2. CASE ~(leader # NoSession /\ Active(leader))
  <2>1. job' = [job EXCEPT ![h].pc = IF leader = NoSession THEN "claim" ELSE "evict",
                           ![h].seen = leader]
    BY <1>2 DEF FindLeader
  <2> QED
    BY <1>2, <2>1 DEF Aside, JobFunctions, Jobs
<1> QED
  BY <1>1, <1>2

LEMMA ClaimFacts ==
    ASSUME job \in JobFunctions, NEW s \in Sessions, NEW h \in Handlers, h = <<s, "call">>,
           Claim(s)
    PROVE  /\ Aside(h) /\ job'[h].op = job[h].op
           /\ leader # NoSession => job'[h].pc = "reread"
           /\ leader = NoSession =>
                /\ job'[h].choice = s /\ job'[h].leads
                /\ job[h].seen = NoSession => job'[h].pc = "prune" /\ job'[h].phase = "roll"
                /\ job[h].seen # NoSession => job'[h].pc = "announce" /\ job'[h].phase = "join"
<1>1. CASE leader # NoSession
  BY <1>1, GotoFacts DEF Claim
<1>2. CASE leader = NoSession
  <2>1. job' = [job EXCEPT ![h].leads = TRUE, ![h].seen = NoSession, ![h].choice = s,
                    ![h].pc = IF job[h].seen = NoSession THEN "prune" ELSE "announce",
                    ![h].phase = IF job[h].seen = NoSession THEN "roll" ELSE "join"]
    BY <1>2 DEF Claim
  <2> QED
    BY <1>2, <2>1 DEF Aside, JobFunctions, Jobs
<1> QED
  BY <1>1, <1>2

LEMMA ReadAgainFacts ==
    ASSUME job \in JobFunctions, NEW s \in Sessions, NEW h \in Handlers, h = <<s, "call">>,
           ReadAgain(s)
    PROVE  /\ Aside(h) /\ job'[h].op = job[h].op
           /\ job'[h].pc = "prune" /\ job'[h].phase = "roll"
           /\ job'[h].leads <=> leader \in {NoSession, s}
<1>1. job' = [job EXCEPT ![h].pc = "prune", ![h].phase = "roll", ![h].seen = NoSession,
                         ![h].leads = (leader \in {NoSession, s})]
  BY DEF ReadAgain
<1>2. Aside(h)
  BY <1>1 DEF Aside, JobFunctions
<1>3. job'[h] = [job[h] EXCEPT !.pc = "prune", !.phase = "roll", !.seen = NoSession,
                               !.leads = (leader \in {NoSession, s})]
  BY <1>1 DEF JobFunctions
<1> QED
  BY <1>2, <1>3, JobTyped DEF Jobs

LEMMA ResignFacts ==
    ASSUME job \in JobFunctions, NEW s \in Sessions, NEW h \in Handlers,
           h = <<s, "disconnect">>, Resign(s), leader = s
    PROVE  /\ Aside(h) /\ job'[h].op = job[h].op
           /\ job'[h].pc = "elect" /\ job'[h].phase = "leave"
BY DEF Resign, Aside, JobFunctions, Jobs

LEMMA EnsureFacts ==
    ASSUME job \in JobFunctions, NEW s \in Sessions, NEW h \in Handlers, h = <<s, "call">>,
           EnsureLeader(s)
    PROVE  /\ Aside(h) /\ job'[h].op = job[h].op /\ job'[h].phase = "ensure"
           /\ job'[h].pc = IF leader = NoSession THEN "take"
                           ELSE IF Active(leader) THEN "target" ELSE "depose"
BY DEF EnsureLeader, Aside, JobFunctions, Jobs

LEMMA TakeOverFacts ==
    ASSUME job \in JobFunctions, NEW s \in Sessions, NEW h \in Handlers, h = <<s, "call">>,
           TakeOver(s)
    PROVE  /\ Aside(h) /\ job'[h].op = job[h].op /\ job'[h].phase = job[h].phase
           /\ job'[h].pc = "announce" /\ job'[h].choice = s
BY DEF TakeOver, Aside, JobFunctions, Jobs

LEMMA FindTargetFacts ==
    ASSUME job \in JobFunctions, NEW s \in Sessions, NEW h \in Handlers, h = <<s, "call">>,
           FindTarget(s)
    PROVE  /\ Aside(h) /\ job'[h].op = job[h].op
           /\ leader # NoSession /\ Active(leader) =>
                /\ job'[h].pc = "forward" /\ job'[h].phase = job[h].phase
           /\ ~(leader # NoSession /\ Active(leader)) =>
                /\ job'[h].pc \in {"elect", "drop"} /\ job'[h].phase = "request"
<1>1. CASE leader # NoSession /\ Active(leader)
  <2>1. job' = [job EXCEPT ![h].pc = "forward", ![h].choice = leader]
    BY <1>1 DEF FindTarget
  <2> QED
    BY <1>1, <2>1 DEF Aside, JobFunctions, Jobs
<1>2. CASE ~(leader # NoSession /\ Active(leader))
  <2>1. job' = [job EXCEPT ![h].pc = IF leader = NoSession THEN "elect" ELSE "drop",
                           ![h].phase = "request", ![h].choice = NoSession]
    BY <1>2 DEF FindTarget
  <2> QED
    BY <1>2, <2>1 DEF Aside, JobFunctions, Jobs
<1> QED
  BY <1>1, <1>2

LEMMA PruneFacts ==
    ASSUME job \in JobFunctions, NEW h \in Handlers, Prune(h)
    PROVE  /\ Aside(h) /\ job'[h].op = job[h].op /\ job'[h].phase = job[h].phase
           /\ job'[h].leads = job[h].leads /\ job'[h].choice = NoSession
           /\ job'[h].pc = "check" /\ job'[h].users = {s \in registered : Active(s)}
<1>1. job' = [job EXCEPT ![h].pc = "check", ![h].users = {s \in registered : Active(s)},
                         ![h].choice = NoSession]
  BY DEF Prune
<1> QED
  BY <1>1 DEF Aside, JobFunctions, Jobs

LEMMA CheckFacts ==
    ASSUME job \in JobFunctions, NEW h \in Handlers, Check(h), ~Over(h)
    PROVE  /\ Aside(h) /\ job'[h].op = job[h].op /\ job'[h].phase = job[h].phase
           /\ job'[h].choice = job[h].choice /\ job'[h].users = job[h].users
           /\ job'[h].leads = job[h].leads /\ job'[h].seen = leader
           /\ job'[h].pc = IF leader = NoSession THEN "elect" ELSE "drop"
           /\ leader \notin job[h].users
           /\ leader = NoSession => job[h].users # {}
<1>1. job' = [job EXCEPT ![h].pc = IF leader = NoSession THEN "elect" ELSE "drop",
                         ![h].seen = leader]
  BY DEF Check
<1>2. leader \notin job[h].users /\ (leader = NoSession => job[h].users # {})
  BY DEF Check
<1> QED
  BY <1>1, <1>2 DEF Aside, JobFunctions, Jobs

LEMMA ElectFacts ==
    ASSUME job \in JobFunctions, NEW h \in Handlers, Elect(h)
    PROVE  \/ \E s \in registered :
                /\ Active(s) /\ Aside(h) /\ job'[h].op = job[h].op
                /\ job'[h].phase = job[h].phase /\ job'[h].seen = job[h].seen
                /\ job'[h].pc = "appoint" /\ job'[h].choice = s
           \/ /\ \A s \in registered : ~Active(s)
              /\ \/ job[h].phase = "leave" /\ Goto(h, "vacate")
                 \/ job[h].phase = "request" /\ Aside(h) /\ job'[h] = Idle
                 \/ /\ job[h].phase \notin {"leave", "request"}
                    /\ IF job[h].seen = NoSession THEN Over(h) ELSE Goto(h, "announce")
<1>1. CASE \E s \in {x \in registered : Active(x)} :
                job' = [job EXCEPT ![h].pc = "appoint", ![h].choice = s]
  BY <1>1 DEF Aside, JobFunctions, Jobs
<1>2. CASE /\ {x \in registered : Active(x)} = {}
           /\ CASE job[h].phase = "leave" -> Goto(h, "vacate")
                [] job[h].phase = "request" -> job' = [job EXCEPT ![h] = Idle]
                [] OTHER -> IF job[h].seen = NoSession THEN Over(h) ELSE Goto(h, "announce")
  BY <1>2 DEF Aside, JobFunctions
<1> QED
  BY <1>1, <1>2 DEF Elect

LEMMA SendTyped ==
    ASSUME inbox \in [Sessions -> Seq({"lead", "follow", "sync"})], NEW messages,
           \A s \in DOMAIN messages : messages[s] \in {"lead", "follow", "sync"},
           Send(messages)
    PROVE  inbox' \in [Sessions -> Seq({"lead", "follow", "sync"})]
BY DEF Send

LEMMA SharedTyped ==
    ASSUME TypeInv, NEW h \in Handlers, Shared(h)
    PROVE  TypeOK'
<1>0. /\ TypeOK
      /\ job \in JobFunctions
      /\ inbox \in [Sessions -> Seq({"lead", "follow", "sync"})]
  BY DEF TypeInv, TypeOK, JobFunctions
<1>1. CASE Prune(h)
  <2>1. job' \in JobFunctions
    BY <1>0, <1>1, FieldTyped, PcFacts DEF Prune, TypeOK
  <2> QED
    BY <1>0, <1>1, <2>1 DEF Prune, Drops, tabVars, TypeOK, JobFunctions
<1>2. CASE Check(h)
  <2>1. job' \in JobFunctions
    BY <1>0, <1>2, FieldTyped, OverTyped, PcFacts DEF Check, TypeOK
  <2> QED
    BY <1>0, <1>2, <2>1 DEF Check, tabVars, redis, TypeOK, JobFunctions
<1>3. CASE Drop(h)
  <2>1. job' \in JobFunctions
    BY <1>0, <1>3, GotoTyped, PcFacts DEF Drop
  <2> QED
    BY <1>0, <1>3, <2>1, PcFacts DEF Drop, SetLeader, tabVars, TypeOK,
                                     JobFunctions
<1>4. CASE Elect(h)
  <2>1. job' \in JobFunctions
    BY <1>0, <1>4, FieldTyped, GotoTyped, OverTyped, IdleTyped,
       PcFacts DEF Elect, TypeOK
  <2> QED
    BY <1>0, <1>4, <2>1 DEF Elect, tabVars, redis, TypeOK, JobFunctions
<1>5. CASE Appoint(h)
  <2>1. job' \in JobFunctions
    BY <1>0, <1>5, GotoTyped, OverTyped, PcFacts DEF Appoint
  <2> QED
    BY <1>0, <1>5, <2>1, JobTyped DEF Appoint, SetLeader, tabVars, TypeOK,
                                      JobFunctions
<1>6. CASE Announce(h)
  <2>1. job[h].phase \in {"join", "leave", "roll", "ensure", "request"}
    BY <1>0, <1>6, JobTyped DEF Announce, TypeInv, PhaseOK, HasReason, Phases
  <2>3. \/ RollCall(h) \/ Over(h) \/ Goto(h, "target") \/ Goto(h, "forward")
    BY <1>6, <2>1 DEF Announce
  <2>4. job' \in JobFunctions
    BY <1>0, <2>3, GotoTyped, OverTyped, RollTyped, PcFacts
  <2>2. inbox' \in [Sessions -> Seq({"lead", "follow", "sync"})]
    BY <1>0, <1>6, SendTyped DEF Announce
  <2> QED
    BY <1>0, <1>6, <2>4, <2>2 DEF Announce, redis, TypeOK, JobFunctions
<1> QED
  BY <1>1, <1>2, <1>3, <1>4, <1>5, <1>6 DEF Shared

LEMMA JoinTyped ==
    ASSUME TypeOK, NEW s \in Sessions, Join(s)
    PROVE  TypeOK'
<1> DEFINE h == <<s, "call">>
<1>0. /\ job \in JobFunctions /\ h \in Handlers
      /\ inbox \in [Sessions -> Seq({"lead", "follow", "sync"})]
  BY HandlerFacts DEF TypeOK, JobFunctions
<1> HIDE DEF h
<1>1. CASE Register(s) \/ MapSession(s)
  <2>1. job' \in JobFunctions
    BY <1>0, <1>1, GotoTyped, PcFacts DEF Register, MapSession, h
  <2> QED
    BY <1>1, <2>1 DEF Register, MapSession, tabVars, TypeOK, JobFunctions
<1>2. CASE FindLeader(s)
  <2>1. leader \in SidsOrNone
    BY DEF TypeOK
  <2>2. ASSUME leader # NoSession /\ Active(leader)
       PROVE  job' \in JobFunctions
    <3> DEFINE f1 == [job EXCEPT ![h].pc = "prune"]
               f2 == [f1 EXCEPT ![h].phase = "roll"]
               f3 == [f2 EXCEPT ![h].leads = (leader = s)]
    <3>1. f1 \in JobFunctions
      BY <1>0, FieldTyped, PcFacts
    <3>2. f2 \in JobFunctions
      BY <1>0, <3>1, FieldTyped, PcFacts
    <3>3. f3 \in JobFunctions
      BY <1>0, <3>2, FieldTyped
    <3>4. job' = f3
      BY <1>2, <2>2 DEF FindLeader, h
    <3> QED
      BY <3>3, <3>4
  <2>3. ASSUME ~(leader # NoSession /\ Active(leader))
       PROVE  job' \in JobFunctions
    <3> DEFINE pc == IF leader = NoSession THEN "claim" ELSE "evict"
               f1 == [job EXCEPT ![h].pc = pc]
               f2 == [f1 EXCEPT ![h].seen = leader]
    <3>1. f1 \in JobFunctions
      BY <1>0, FieldTyped, PcFacts
    <3>2. f2 \in JobFunctions
      BY <1>0, <2>1, <3>1, FieldTyped
    <3>3. job' = f2
      BY <1>2, <2>3 DEF FindLeader, h
    <3> QED
      BY <3>2, <3>3
  <2>4. job' \in JobFunctions
    BY <2>2, <2>3
  <2> QED
    BY <1>2, <2>4 DEF FindLeader, tabVars, redis, TypeOK, JobFunctions
<1>3. CASE Evict(s)
  <2>1. job' \in JobFunctions
    BY <1>0, <1>3, GotoTyped, PcFacts DEF Evict, h
  <2> QED
    BY <1>3, <2>1 DEF Evict, Drops, tabVars, TypeOK, JobFunctions
<1>7. CASE Unseat(s)
  <2>1. job' \in JobFunctions
    BY <1>0, <1>7, GotoTyped, PcFacts DEF Unseat, h
  <2> QED
    BY <1>7, <2>1, PcFacts DEF Unseat, SetLeader, tabVars, TypeOK, JobFunctions
<1>4. CASE Claim(s)
  <2>2. ASSUME leader # NoSession
       PROVE  job' \in JobFunctions
    <3>1. Goto(h, "reread")
      BY <1>4, <2>2 DEF Claim, h
    <3> QED
      BY <1>0, <3>1, GotoTyped, PcFacts
  <2>3. ASSUME leader = NoSession /\ job[h].seen = NoSession
       PROVE  job' \in JobFunctions
    <3>1. job' = [job EXCEPT ![h].leads = TRUE, ![h].seen = NoSession, ![h].choice = s,
                             ![h].pc = "prune", ![h].phase = "roll"]
      BY <1>4, <2>3 DEF Claim, h
    <3> QED
      BY <1>0, <3>1, FieldTyped, PcFacts
  <2>4. ASSUME leader = NoSession /\ job[h].seen # NoSession
       PROVE  job' \in JobFunctions
    <3>1. job' = [job EXCEPT ![h].leads = TRUE, ![h].seen = NoSession, ![h].choice = s,
                             ![h].pc = "announce", ![h].phase = "join"]
      BY <1>4, <2>4 DEF Claim, h
    <3> QED
      BY <1>0, <3>1, FieldTyped, PcFacts
  <2>1. job' \in JobFunctions
    BY <2>2, <2>3, <2>4
  <2> QED
    BY <1>4, <2>1, PcFacts DEF Claim, SetLeader, tabVars, TypeOK, JobFunctions
<1>5. CASE ReadAgain(s)
  <2>0. (leader \in {NoSession, s}) \in BOOLEAN
    OBVIOUS
  <2>1. job' \in JobFunctions
    BY <1>0, <1>5, <2>0, FieldTyped, PcFacts DEF ReadAgain, h
  <2> QED
    BY <1>5, <2>1 DEF ReadAgain, tabVars, redis, TypeOK, JobFunctions
<1>6. CASE Tell(s)
  <2>1. job' \in JobFunctions
    BY <1>0, <1>6, FieldTyped, IdleTyped DEF Tell, h
  <2>2. inbox' \in [Sessions -> Seq({"lead", "follow", "sync"})]
    BY <1>0, <1>6, SendTyped DEF Tell
  <2> QED
    BY <1>6, <2>1, <2>2 DEF Tell, redis, TypeOK, JobFunctions
<1> QED
  BY <1>1, <1>2, <1>3, <1>4, <1>5, <1>6, <1>7 DEF Join

LEMMA LeaveTyped ==
    ASSUME TypeOK, NEW s \in Sessions, Leave(s)
    PROVE  TypeOK'
<1> DEFINE h == <<s, "disconnect">>
<1>0. job \in JobFunctions /\ h \in Handlers
  BY HandlerFacts DEF TypeOK, JobFunctions
<1> HIDE DEF h
<1>1. CASE Forget(s)
  <2>1. job' \in JobFunctions
    BY <1>0, <1>1, GotoTyped, PcFacts DEF Forget, h
  <2> QED
    BY <1>1, <2>1 DEF Forget, tabVars, TypeOK, JobFunctions
<1>4. CASE LookUp(s)
  <2>1. job' \in JobFunctions
    BY <1>0, <1>4, FieldTyped, IdleTyped, PcFacts DEF LookUp, h
  <2> QED
    BY <1>4, <2>1 DEF LookUp, tabVars, redis, TypeOK, JobFunctions
<1>2. CASE Resign(s)
  <2>1. job' \in JobFunctions
    BY <1>0, <1>2, FieldTyped, RollTyped, PcFacts DEF Resign, h
  <2> QED
    BY <1>2, <2>1 DEF Resign, tabVars, redis, TypeOK, JobFunctions
<1>3. CASE Vacate(s)
  <2>1. job' \in JobFunctions
    BY <1>0, <1>3, RollTyped DEF Vacate, h
  <2> QED
    BY <1>3, <2>1, PcFacts DEF Vacate, SetLeader, tabVars, TypeOK, JobFunctions
<1> QED
  BY <1>1, <1>2, <1>3, <1>4 DEF Leave

LEMMA EventTyped ==
    ASSUME TypeOK, NEW s \in Sessions, Event(s)
    PROVE  TypeOK'
<1> DEFINE h == <<s, "call">>
<1>0. /\ job \in JobFunctions /\ h \in Handlers
      /\ inbox \in [Sessions -> Seq({"lead", "follow", "sync"})]
  BY HandlerFacts DEF TypeOK, JobFunctions
<1> HIDE DEF h
<1>1. CASE Authorize(s)
  <2>1. job' \in JobFunctions
    BY <1>0, <1>1, FieldTyped, GotoTyped, BeginTyped, IdleTyped,
       PcFacts DEF Authorize, h
  <2> QED
    BY <1>1, <2>1 DEF Authorize, tabVars, redis, TypeOK, JobFunctions
<1>2. CASE EnsureLeader(s)
  <2>1. job' \in JobFunctions
    BY <1>0, <1>2, FieldTyped, PcFacts DEF EnsureLeader, h
  <2> QED
    BY <1>2, <2>1 DEF EnsureLeader, tabVars, redis, TypeOK, JobFunctions
<1>3. CASE Depose(s)
  <2>1. job' \in JobFunctions
    BY <1>0, <1>3, GotoTyped, PcFacts DEF Depose, h
  <2> QED
    BY <1>3, <2>1, PcFacts DEF Depose, SetLeader, tabVars, TypeOK, JobFunctions
<1>4. CASE TakeOver(s)
  <2>1. job' \in JobFunctions
    BY <1>0, <1>4, FieldTyped, PcFacts DEF TakeOver, h
  <2> QED
    BY <1>4, <2>1, PcFacts DEF TakeOver, SetLeader, tabVars, TypeOK,
                               JobFunctions
<1>5. CASE FindTarget(s)
  <2>1. job' \in JobFunctions
    BY <1>0, <1>5, FieldTyped, PcFacts DEF FindTarget, h, TypeOK
  <2> QED
    BY <1>5, <2>1 DEF FindTarget, tabVars, redis, TypeOK, JobFunctions
<1>6. CASE Forward(s)
  <2>1. job' \in JobFunctions
    BY <1>0, <1>6, FieldTyped, IdleTyped DEF Forward, h
  <2>2. inbox' \in [Sessions -> Seq({"lead", "follow", "sync"})]
    BY <1>0, <1>6, SendTyped DEF Forward
  <2> QED
    BY <1>6, <2>1, <2>2 DEF Forward, redis, TypeOK, JobFunctions
<1> QED
  BY <1>1, <1>2, <1>3, <1>4, <1>5, <1>6 DEF Event

LEMMA TabTyped ==
    ASSUME TypeOK, NEW s \in Sessions,
           \/ Connect(s) \/ Hear(s) \/ Disconnect(s) \/ Edit(s) \/ Close(s)
           \/ ExpireSession(s)
    PROVE  TypeOK'
<1>0. job \in JobFunctions
  BY DEF TypeOK, JobFunctions
<1>1. CASE Connect(s)
  <2>1. job' \in JobFunctions
    BY <1>0, <1>1, BeginTyped DEF Connect
  <2> QED
    BY <1>1, <2>1 DEF Connect, redis, TypeOK, JobFunctions
<1>2. CASE HearStatus(s)
  BY <1>2 DEF HearStatus, redis, TypeOK
<1>3. CASE HearSync(s)
  BY <1>3 DEF HearSync, redis, TypeOK
<1>4. CASE Disconnect(s)
  <2>1. job' \in JobFunctions
    BY <1>0, <1>4, BeginTyped DEF Disconnect
  <2> QED
    BY <1>4, <2>1 DEF Disconnect, Gone, tabVars, TypeOK, JobFunctions
<1>5. CASE Edit(s)
  <2>1. job' \in JobFunctions
    BY <1>0, <1>5, BeginTyped DEF Edit
  <2> QED
    BY <1>5, <2>1 DEF Edit, redis, TypeOK, JobFunctions
<1>6. CASE Close(s)
  BY <1>6 DEF Close, redis, TypeOK
<1>7. CASE ExpireSession(s)
  BY <1>7 DEF ExpireSession, Gone, tabVars, TypeOK
<1> QED
  BY <1>1, <1>2, <1>3, <1>4, <1>5, <1>6, <1>7 DEF Hear

LEMMA SharedAside ==
    ASSUME TypeInv, NEW h \in Handlers, Shared(h)
    PROVE  Aside(h) /\ HasReason(h)' /\ job[h].pc # "idle"
<1>0. job \in JobFunctions
  BY DEF TypeInv, TypeOK, JobFunctions
<1> USE DEF HasReason
<1>9. Idle.pc = "idle"
  BY DEF Idle
<1>1. CASE Prune(h) \/ Check(h)
  BY <1>0, <1>9, <1>1, OverFacts, PruneFacts, CheckFacts DEF Prune, Check,
                                                             TypeInv, PhaseOK,
                                                             HasReason
<1>2. CASE Drop(h) \/ Appoint(h)
  BY <1>0, <1>9, <1>2, OverFacts, GotoFacts DEF Drop, Appoint, TypeInv,
                                                PhaseOK, HasReason
<1>3. CASE Elect(h)
  BY <1>0, <1>9, <1>3, OverFacts, GotoFacts, ElectFacts DEF Elect, TypeInv,
                                                            PhaseOK, HasReason
<1>4. CASE Announce(h)
  <2>1. job[h].phase \in {"join", "leave", "roll", "ensure", "request"}
    BY <1>0, <1>4, JobTyped DEF Announce, TypeInv, PhaseOK, HasReason, Phases
  <2> QED
    BY <1>0, <1>9, <1>4, <2>1, OverFacts, GotoFacts, RollFacts DEF Announce
<1> QED
  BY <1>1, <1>2, <1>3, <1>4 DEF Shared, Prune, Check, Drop, Elect, Appoint,
                                Announce

LEMMA CallAside ==
    ASSUME TypeInv, NEW s \in Sessions, Join(s) \/ Event(s), NEW h \in Handlers, h = <<s, "call">>
    PROVE  Aside(h) /\ HasReason(h)' /\ job[h].pc # "idle"
<1>0. job \in JobFunctions
  BY DEF TypeInv, TypeOK, JobFunctions
<1>10. Idle.pc = "idle"
  BY DEF Idle
<1>8. job[h].pc # "idle"
  BY DEF Join, Event, Register, MapSession, FindLeader, Evict, Unseat, Claim, ReadAgain, Tell,
     Authorize, EnsureLeader, Depose, TakeOver, FindTarget, Forward
<1> USE DEF HasReason
<1>1. CASE Register(s) \/ MapSession(s) \/ FindLeader(s) \/ Evict(s) \/ Unseat(s)
  BY <1>0, <1>8, <1>10, <1>1, GotoFacts, FindLeaderFacts DEF Register, MapSession, Evict,
                                                             Unseat
<1>2. CASE Claim(s) \/ ReadAgain(s) \/ Tell(s)
  BY <1>0, <1>8, <1>10, <1>2, ClaimFacts, ReadAgainFacts DEF Tell, Aside,
                                                             JobFunctions
<1>3. CASE Authorize(s)
  <2>1. CASE Goto(h, "ensure")
    BY <1>0, <1>8, <1>10, <2>1, GotoFacts
  <2>2. CASE Begin(s, "join")
    <3>1. Aside(h) /\ job'[h].pc = "register"
      BY <1>0, <2>2, BeginFacts
    <3> QED
      BY <1>8, <3>1
  <2>3. CASE job' = [job EXCEPT ![h] = Idle]
    BY <1>0, <1>8, <1>10, <2>3 DEF Aside, JobFunctions
  <2> QED
    BY <1>3, <2>1, <2>2, <2>3 DEF Authorize
<1>4. CASE EnsureLeader(s)
  BY <1>0, <1>8, <1>10, <1>4, EnsureFacts
<1>7. CASE TakeOver(s)
  <2>1. job[h].phase # "none"
    BY <1>10, <1>7 DEF TakeOver, TypeInv, PhaseOK, HasReason
  <2> QED
    BY <1>0, <1>8, <1>10, <1>7, <2>1, TakeOverFacts
<1>6. CASE Depose(s)
  BY <1>0, <1>8, <1>10, <1>6, GotoFacts DEF Depose, TypeInv, PhaseOK, HasReason
<1>5. CASE FindTarget(s) \/ Forward(s)
  BY <1>0, <1>8, <1>10, <1>5, FindTargetFacts DEF Forward, Aside, JobFunctions
<1> QED
  BY <1>1, <1>2, <1>3, <1>4, <1>5, <1>6, <1>7 DEF Join, Event

LEMMA LeaveAside ==
    ASSUME TypeInv, NEW s \in Sessions, Leave(s), NEW h \in Handlers, h = <<s, "disconnect">>
    PROVE  Aside(h) /\ HasReason(h)' /\ job[h].pc # "idle"
<1>0. job \in JobFunctions
  BY DEF TypeInv, TypeOK, JobFunctions
<1>10. Idle.pc = "idle"
  BY DEF Idle
<1> USE DEF HasReason
<1>1. CASE Forget(s)
  BY <1>0, <1>10, <1>1, GotoFacts DEF Forget
<1>4. CASE LookUp(s)
  BY <1>0, <1>10, <1>4 DEF LookUp, Aside, JobFunctions, Jobs
<1>2. CASE Resign(s)
  BY <1>0, <1>10, <1>2, RollFacts, ResignFacts DEF Resign
<1>3. CASE Vacate(s)
  BY <1>0, <1>10, <1>3, RollFacts DEF Vacate
<1> QED
  BY <1>1, <1>2, <1>3, <1>4 DEF Leave, LookUp, Forget, Resign, Vacate

LEMMA PhaseStep ==
    ASSUME TypeInv, Next
    PROVE  PhaseOK'
<1>0. job \in JobFunctions
  BY DEF TypeInv, TypeOK, JobFunctions
<1>1. ASSUME NEW h \in Handlers, Aside(h), HasReason(h)' PROVE PhaseOK'
  BY <1>1 DEF TypeInv, PhaseOK, HasReason, Aside
<1>2. ASSUME UNCHANGED job PROVE PhaseOK'
  BY <1>2 DEF TypeInv, PhaseOK, HasReason
<1>3. ASSUME NEW h \in Handlers, Shared(h) PROVE PhaseOK'
  BY <1>1, <1>3, SharedAside
<1>4. ASSUME NEW s \in Sessions, Join(s) \/ Event(s) PROVE PhaseOK'
  BY <1>1, <1>4, CallAside, HandlerFacts
<1>5. ASSUME NEW s \in Sessions, Leave(s) PROVE PhaseOK'
  BY <1>1, <1>5, LeaveAside, HandlerFacts
<1>6. ASSUME NEW s \in Sessions,
             Connect(s) \/ Hear(s) \/ Disconnect(s) \/ Edit(s) \/ Close(s) \/ ExpireSession(s)
      PROVE  PhaseOK'
  <2>1. CASE Connect(s)
    BY <1>0, <1>1, <2>1, BeginFacts DEF Connect, HasReason
  <2>2. CASE Disconnect(s)
    BY <1>0, <1>1, <2>2, BeginFacts DEF Disconnect, HasReason
  <2>3. CASE Edit(s)
    BY <1>0, <1>1, <1>2, <2>3, BeginFacts DEF Edit, HasReason
  <2> QED
    BY <1>2, <1>6, <2>1, <2>2, <2>3 DEF Hear, HearStatus, HearSync, Close,
                                        ExpireSession
<1>7. CASE ExpireRoom
  BY <1>2, <1>7 DEF ExpireRoom
<1> QED
  BY <1>3, <1>4, <1>5, <1>6, <1>7, CollabLeaderAssumption DEF Next

LEMMA TypeStep ==
    ASSUME TypeInv, [Next]_vars
    PROVE  TypeInv'
<1>1. CASE UNCHANGED vars
  BY <1>1 DEF vars, tabVars, redis, TypeInv, TypeOK, PhaseOK, HasReason
<1>2. CASE Next
  <2>1. TypeOK'
    <3>1. CASE \E s \in Sessions : Join(s) \/ Leave(s) \/ Event(s)
      BY <3>1, JoinTyped, LeaveTyped, EventTyped DEF TypeInv
    <3>2. CASE \E h \in Handlers : Shared(h)
      BY <3>2, SharedTyped
    <3>3. CASE \E s \in Sessions : Connect(s) \/ Hear(s) \/ Disconnect(s) \/ Edit(s)
                                    \/ Close(s) \/ ExpireSession(s)
      BY <3>3, TabTyped DEF TypeInv
    <3>4. CASE ExpireRoom
      BY <3>4, PcFacts DEF ExpireRoom, tabVars, TypeInv, TypeOK
    <3> QED
      BY <1>2, <3>1, <3>2, <3>3, <3>4, CollabLeaderAssumption DEF Next
  <2> QED
    BY <1>2, <2>1, PhaseStep DEF TypeInv
<1> QED
  BY <1>1, <1>2

LEMMA TypeInit ==
    ASSUME Init
    PROVE  TypeInv
<1>1. job \in JobFunctions
  BY IdleTyped DEF Init, JobFunctions
<1>2. inbox \in [Sessions -> Seq({"lead", "follow", "sync"})]
  BY DEF Init
<1>3. TypeOK
  BY <1>1, <1>2, PcFacts DEF Init, TypeOK, JobFunctions
<1>4. PhaseOK
  BY DEF Init, PhaseOK, HasReason, Idle
<1> QED
  BY <1>3, <1>4 DEF TypeInv

\* Every tab, handler and key keeps to its kind: a handler is always at one of the
\* calls to Redis that its function makes.
THEOREM TypeCorrect == Spec => []TypeOK
<1>1. Init => TypeInv
  BY TypeInit
<1>2. TypeInv /\ [Next]_vars => TypeInv'
  BY TypeStep
<1>3. TypeInv => TypeOK
  BY DEF TypeInv
<1> QED
  BY <1>1, <1>2, <1>3, PTL DEF Spec

-----------------------------------------------------------------------------
(* The inductive invariant.                                                *)

Present == leader # NoSession /\ Active(leader)

Joining(s) == job[<<s, "call">>].op = "join"

\* What a tab will believe when it has heard what is on its way.
LastWord(q, b) ==
    \/ b /\ \A k \in 1..Len(q) : q[k] = "sync"
    \/ \E i \in 1..Len(q) : q[i] = "lead" /\ \A k \in (i + 1)..Len(q) : q[k] = "sync"

Believes(s) == LastWord(inbox[s], isLeader[s])

\* The server knows the socket of every open tab, and has never heard of a tab
\* that is not open yet.
TabsInv ==
    /\ \A s \in Sessions : tab[s] = "open" => s \in connected
    /\ \A s \in Sessions : tab[s] = "new" => s \notin registered
    /\ \A h \in Handlers : job[h] # Idle => tab[h[1]] # "new"

\* A join evicts the leader it found gone and no other, and from its roll call on
\* there is a leader, and it knows whether that is its own session: it never gets
\* as far as electing one.
JoinOK(h) ==
    /\ job[h].pc \in {"register", "map", "find", "evict", "unseat", "claim", "reread",
                      "prune", "check", "announce", "tell"}
    /\ job[h].pc \in {"evict", "unseat"} => leader = job[h].seen /\ leader # NoSession
    /\ job[h].pc = "claim" => leader = NoSession \/ Present
    /\ job[h].pc \in {"reread", "prune", "check", "announce", "tell"} => Present
    /\ job[h].pc \in {"prune", "check", "announce", "tell"} => (job[h].leads <=> leader = h[1])
    /\ job[h].pc = "check" => leader \in job[h].users
    /\ job[h].pc = "announce" => job[h].phase = "join" /\ job[h].choice = leader

\* A request that has seen to the leader has one to go to: it does not elect
\* another.
EventOK(h) ==
    /\ job[h].pc \in {"authorize", "ensure", "depose", "take", "target", "announce", "forward"}
    /\ job[h].pc \in {"take", "depose", "announce", "target", "forward"} => job[h].phase = "ensure"
    /\ job[h].pc \in {"target", "announce", "forward"} => Present
    /\ job[h].pc = "announce" => job[h].choice = leader

\* A disconnect elects in its own leader's place, or in the place of one that was
\* not in the room when it called the roll; whoever is in the room and was not
\* called is still joining.
LeaveOK(h) ==
    /\ h[1] \notin connected
    /\ job[h].pc \in {"lookup", "forget", "resign", "vacate", "prune", "check", "drop", "elect", "appoint",
                      "announce"}
    /\ job[h].pc \in {"elect", "appoint", "announce"} => job[h].phase \in {"leave", "roll"}
    /\ job[h].pc \in {"prune", "check", "drop"} => job[h].phase = "roll"
    /\ job[h].pc = "vacate" => leader = h[1]
    /\ job[h].pc \in {"elect", "appoint"} /\ job[h].phase = "leave" => leader = h[1]
    /\ job[h].pc \in {"elect", "appoint"} /\ job[h].phase = "roll" =>
        /\ leader = NoSession \/ Present
        /\ job[h].seen # NoSession /\ leader = NoSession =>
            job[h].seen \notin Members \/ Joining(job[h].seen)
    /\ job[h].pc \in {"check", "drop"} \/ (job[h].pc = "elect" /\ job[h].phase = "roll") =>
        job[h].choice = NoSession
    /\ job[h].pc = "drop" => leader = job[h].seen /\ leader # NoSession
    /\ job[h].pc \in {"check", "drop"} =>
        Present \/ \A s \in Members : s \in job[h].users \/ Joining(s)
    /\ job[h].pc = "announce" => job[h].choice = leader
    /\ job[h].pc = "appoint" => job[h].choice \in Sessions

JobOK(h) ==
    /\ job[h].op = "none" => job[h] = Idle
    /\ job[h].op \in {"join", "event"} => h[2] = "call"
    /\ job[h].op = "join" => JoinOK(h)
    /\ job[h].op = "event" => EventOK(h)
    /\ job[h].op = "leave" => LeaveOK(h)

HandlersOK == \A h \in Handlers : JobOK(h)

Announcing(h) == job[h].pc = "announce"

\* The tabs will believe what the server holds, when they have heard what is on
\* its way and their joins are done; or it is about to be announced.
Known ==
    \/ \E h \in Handlers : Announcing(h)
    \/ \A s \in Members : ~Joining(s) => (Believes(s) <=> leader = s)

Fixing(h) ==
    \/ job[h].op = "join" /\ job[h].pc \in {"register", "map", "find", "evict", "unseat", "claim"}
    \/ job[h].pc \in {"take", "prune"}
    \/ job[h].pc = "check" /\ job[h].users # {}
    \/ job[h].pc \in {"elect", "appoint"} /\ job[h].phase = "roll"

\* A room with somebody in it has a leader, or a handler that will find one.
Mended == leader = NoSession /\ Members # {} => \E h \in Handlers : Fixing(h)

Agreed == HandlersOK /\ Known /\ Mended

\* The server knows a tab that is open from the second half of set_session_info on,
\* unless it has forgotten it, and no disconnect of it is under way.
Kept == \A s \in Sessions : tab[s] = "open" =>
    /\ job[<<s, "disconnect">>] = Idle
    /\ \/ s \in lapsed
       \/ s \in registered /\ s \in mapped
       \/ job[<<s, "call">>].pc = "register"
       \/ job[<<s, "call">>].pc = "map" /\ s \in registered

LeaderInv == TypeInv /\ TabsInv /\ Kept /\ (replaced \/ Agreed)

-----------------------------------------------------------------------------
(* Messages, members and handlers that stand by.                           *)

LEMMA AppendWord ==
    ASSUME NEW q \in Seq({"lead", "follow", "sync"}), NEW b \in BOOLEAN
    PROVE  /\ LastWord(Append(q, "lead"), b)
           /\ ~LastWord(Append(q, "follow"), b)
           /\ LastWord(Append(q, "sync"), b) <=> LastWord(q, b)
<1>1. /\ Len(q) \in Nat
      /\ \A m : Len(Append(q, m)) = Len(q) + 1 /\ Append(q, m)[Len(q) + 1] = m
      /\ \A m : \A k \in 1..Len(q) : Append(q, m)[k] = q[k]
  OBVIOUS
<1>2. LastWord(Append(q, "lead"), b)
  BY <1>1 DEF LastWord
<1>3. ~LastWord(Append(q, "follow"), b)
  <2> DEFINE a == Append(q, "follow")
  <2>1. a[Len(a)] = "follow" /\ Len(a) \in 1..Len(a)
    BY <1>1
  <2>2. ~\A k \in 1..Len(a) : a[k] = "sync"
    BY <2>1
  <2>3. ASSUME NEW i \in 1..Len(a), a[i] = "lead", \A k \in (i + 1)..Len(a) : a[k] = "sync"
        PROVE  FALSE
    <3>1. i # Len(a)
      BY <2>1, <2>3
    <3> QED
      BY <1>1, <2>1, <2>3, <3>1
  <2> QED
    BY <2>2, <2>3 DEF LastWord
<1>4. LastWord(Append(q, "sync"), b) <=> LastWord(q, b)
  <2> DEFINE a == Append(q, "sync")
  <2>1. Len(a) = Len(q) + 1 /\ a[Len(a)] = "sync" /\ \A k \in 1..Len(q) : a[k] = q[k]
    BY <1>1
  <2> HIDE DEF a
  <2>2. (\A k \in 1..Len(a) : a[k] = "sync") <=> (\A k \in 1..Len(q) : q[k] = "sync")
    BY <1>1, <2>1
  <2>3. \A i \in 1..Len(q) : (\A k \in (i + 1)..Len(a) : a[k] = "sync")
                             <=> (\A k \in (i + 1)..Len(q) : q[k] = "sync")
    BY <1>1, <2>1
  <2>4. \A i \in 1..Len(a) : a[i] = "lead" => i \in 1..Len(q)
    BY <1>1, <2>1
  <2>5. \A i \in 1..Len(q) : i \in 1..Len(a)
    BY <1>1, <2>1
  <2>6. LastWord(a, b) <=> LastWord(q, b)
    BY <2>1, <2>2, <2>3, <2>4, <2>5 DEF LastWord
  <2> QED
    BY <2>6 DEF a
<1> QED
  BY <1>2, <1>3, <1>4

LEMMA TailWord ==
    ASSUME NEW q \in Seq({"lead", "follow", "sync"}), NEW b \in BOOLEAN, q # <<>>
    PROVE  LastWord(Tail(q), IF Head(q) = "sync" THEN b ELSE Head(q) = "lead") <=> LastWord(q, b)
<1> DEFINE r == Tail(q)
           c == IF Head(q) = "sync" THEN b ELSE Head(q) = "lead"
<1>1. /\ Len(q) \in Nat /\ Len(q) > 0 /\ Len(r) = Len(q) - 1
      /\ Head(q) = q[1] /\ \A k \in 1..Len(r) : r[k] = q[k + 1]
  OBVIOUS
<1>2. \A k \in 2..Len(q) : q[k] = r[k - 1] /\ k - 1 \in 1..Len(r)
  BY <1>1
<1> HIDE DEF r
<1>3. ASSUME LastWord(r, c) PROVE LastWord(q, b)
  <2>1. CASE c /\ \A k \in 1..Len(r) : r[k] = "sync"
    <3>1. \A k \in 2..Len(q) : q[k] = "sync"
      BY <1>2, <2>1
    <3>2. CASE q[1] = "sync"
      <4>1. \A k \in 1..Len(q) : k = 1 \/ k \in 2..Len(q)
        BY <1>1
      <4> QED
        BY <1>1, <2>1, <3>1, <3>2, <4>1 DEF LastWord
    <3>3. CASE q[1] # "sync"
      <4>1. q[1] = "lead" /\ 1 \in 1..Len(q)
        BY <1>1, <2>1, <3>3
      <4> QED
        BY <1>1, <3>1, <4>1 DEF LastWord
    <3> QED
      BY <3>2, <3>3
  <2>2. ASSUME NEW i \in 1..Len(r), r[i] = "lead", \A k \in (i + 1)..Len(r) : r[k] = "sync"
        PROVE  LastWord(q, b)
    <3>1. q[i + 1] = "lead" /\ i + 1 \in 1..Len(q)
      BY <1>1, <2>2
    <3>2. \A k \in (i + 1 + 1)..Len(q) : q[k] = "sync"
      BY <1>1, <1>2, <2>2
    <3> QED
      BY <3>1, <3>2 DEF LastWord
  <2> QED
    BY <1>3, <2>1, <2>2 DEF LastWord
<1>4. ASSUME LastWord(q, b) PROVE LastWord(r, c)
  <2>1. CASE b /\ \A k \in 1..Len(q) : q[k] = "sync"
    BY <1>1, <2>1 DEF LastWord
  <2>2. ASSUME NEW i \in 1..Len(q), q[i] = "lead", \A k \in (i + 1)..Len(q) : q[k] = "sync"
        PROVE  LastWord(r, c)
    <3>1. CASE i = 1
      <4>1. \A k \in 1..Len(r) : r[k] = "sync"
        BY <1>1, <2>2, <3>1
      <4>2. c
        BY <1>1, <2>2, <3>1
      <4> QED
        BY <4>1, <4>2 DEF LastWord
    <3>2. CASE i # 1
      <4>1. i - 1 \in 1..Len(r) /\ r[i - 1] = "lead"
        BY <1>1, <2>2, <3>2
      <4>2. \A k \in ((i - 1) + 1)..Len(r) : r[k] = "sync"
        BY <1>1, <2>2
      <4> QED
        BY <4>1, <4>2 DEF LastWord
    <3> QED
      BY <3>1, <3>2
  <2> QED
    BY <1>4, <2>1, <2>2 DEF LastWord
<1> QED
  BY <1>3, <1>4 DEF r

LEMMA MemberActive ==
    ASSUME TypeInv, TabsInv, NEW s \in Members
    PROVE  s \in Sessions /\ s \in registered /\ Active(s)
BY DEF TypeInv, TypeOK, TabsInv, Members, Active

LEMMA Bystander ==
    ASSUME TypeInv, NEW g \in Handlers, JobOK(g), job'[g] = job[g],
           \/ job[g] = Idle
           \/ /\ \/ leader' = leader /\ (Present => Present')
                 \/ leader = NoSession /\ Present' /\ job[g].pc # "announce"
              /\ \A s \in Members' : s \in Members \/ Joining(s)'
              /\ Present' \/ \A s \in Members' : Joining(s) => Joining(s)'
              /\ job[g].op = "leave" => g[1] \notin connected'
    PROVE  JobOK(g)'
<1>0. job \in JobFunctions /\ job[g].op \in {"none", "join", "event", "leave"}
  BY JobTyped DEF TypeInv, TypeOK, JobFunctions
<1>1. CASE job[g].op = "none"
  BY <1>1 DEF JobOK
<1>2. CASE job[g] = Idle
  BY <1>2 DEF JobOK, Idle
<1>3. CASE job[g].op = "join" /\ job[g] # Idle
  <2>1. JoinOK(g)
    BY <1>3 DEF JobOK
  <2>2. CASE leader' = leader /\ (Present => Present')
    BY <1>3, <2>1, <2>2 DEF JobOK, JoinOK
  <2>3. CASE leader = NoSession /\ Present' /\ job[g].pc # "announce"
    <3>1. job[g].pc \notin {"evict", "unseat", "reread", "prune", "check", "announce", "tell"}
      BY <2>1, <2>3 DEF JoinOK, Present
    <3> QED
      BY <1>3, <2>1, <2>3, <3>1 DEF JobOK, JoinOK
  <2> QED
    BY <1>3, <2>2, <2>3
<1>4. CASE job[g].op = "event" /\ job[g] # Idle
  <2>1. EventOK(g)
    BY <1>4 DEF JobOK
  <2> QED
    BY <1>4, <2>1 DEF JobOK, EventOK, Present
<1>5. CASE job[g].op = "leave" /\ job[g] # Idle
  <2>1. LeaveOK(g)
    BY <1>5 DEF JobOK
  <2>2. job[g].seen # NoSession /\ leader' = NoSession =>
            (job[g].seen \notin Members \/ Joining(job[g].seen)
               => job[g].seen \notin Members' \/ Joining(job[g].seen)')
    BY <1>5 DEF Present
  <2>3. Present \/ (\A s \in Members : s \in job[g].users \/ Joining(s))
          => Present' \/ \A s \in Members' : s \in job[g].users \/ Joining(s)'
    BY <1>5
  <2>4. CASE leader' = leader /\ (Present => Present')
    BY <1>5, <2>1, <2>2, <2>3, <2>4 DEF JobOK, LeaveOK
  <2>5. CASE leader = NoSession /\ Present' /\ job[g].pc # "announce"
    <3>1. Present' /\ leader' # NoSession
      BY <2>5 DEF Present
    <3>0. g[1] # NoSession
      BY CollabLeaderAssumption DEF Handlers
    <3>2. /\ job[g].pc \notin {"vacate", "drop", "announce"}
          /\ job[g].pc \in {"elect", "appoint"} => job[g].phase = "roll"
      BY <2>1, <2>5, <1>0, <3>0 DEF LeaveOK
    <3> QED
      BY <1>5, <2>1, <2>2, <2>3, <2>5, <3>1, <3>2 DEF JobOK, LeaveOK
  <2> QED
    BY <1>5, <2>4, <2>5
<1> QED
  BY <1>0, <1>1, <1>2, <1>3, <1>4, <1>5

LEMMA Quiet ==
    ASSUME TypeInv, HandlersOK, Known, Mended,
           NEW h \in Handlers, Aside(h), job[h].pc # "announce",
           leader' = leader,
           (Present => Present') \/ \A g \in Handlers \ {h} : job[g] = Idle,
           \A s \in Members' : s \in Members /\ (Believes(s)' <=> Believes(s)),
           job[h].op = "join" => job'[h].op = "join",
           \A g \in Handlers \ {h} : job[g].op = "leave" => g[1] \notin connected',
           JobOK(h)',
           Fixing(h) => Fixing(h)' \/ leader # NoSession \/ Members' = {}
    PROVE  HandlersOK' /\ Known' /\ Mended'
<1>1. \A s \in Members' : Joining(s) => Joining(s)'
  <2> TAKE s \in Members'
  <2>1. <<s, "call">> \in Handlers
    BY HandlerFacts DEF Members, TypeInv, TypeOK
  <2> QED
    BY <2>1 DEF Joining, Aside
<1>2. HandlersOK'
  <2> SUFFICES ASSUME NEW g \in Handlers PROVE JobOK(g)'
    BY DEF HandlersOK
  <2>1. CASE g = h
    BY <2>1
  <2>2. CASE g # h
    <3>1. JobOK(g) /\ job'[g] = job[g] /\ (job[g].op = "leave" => g[1] \notin connected')
      BY <2>2 DEF HandlersOK, Aside
    <3>2. \A s \in Members' : s \in Members \/ Joining(s)'
      OBVIOUS
    <3>3. job[g] = Idle \/ (Present => Present')
      BY <2>2
    <3> QED
      BY <1>1, <3>1, <3>2, <3>3, Bystander
  <2> QED
    BY <2>1, <2>2
<1>3. Known'
  <2>1. CASE \E g \in Handlers : Announcing(g)
    BY <2>1 DEF Known, Announcing, Aside
  <2>2. CASE \A s \in Members : ~Joining(s) => (Believes(s) <=> leader = s)
    <3>1. \A s \in Members' : ~Joining(s)' => (Believes(s)' <=> leader' = s)
      BY <1>1, <2>2
    <3> QED
      BY <3>1 DEF Known
  <2> QED
    BY <2>1, <2>2 DEF Known
<1>4. Mended'
  <2> SUFFICES ASSUME leader = NoSession, Members' # {} PROVE \E g \in Handlers : Fixing(g)'
    BY DEF Mended
  <2>1. Members # {}
    OBVIOUS
  <2>2. PICK g \in Handlers : Fixing(g)
    BY <2>1 DEF Mended
  <2>3. CASE g = h
    BY <2>2, <2>3
  <2>4. CASE g # h
    BY <2>2, <2>4 DEF Fixing, Aside
  <2> QED
    BY <2>3, <2>4
<1> QED
  BY <1>2, <1>3, <1>4

LEMMA LeaderChange ==
    ASSUME TypeInv, NEW h \in Handlers, NEW x \in SidsOrNone, SetLeader(h, x), ~replaced'
    PROVE  /\ ~replaced /\ leader' = x
           /\ x # NoSession => Active(x)
           /\ \/ leader \in {NoSession, x}
              \/ ~Active(leader) /\ \A g \in Handlers \ {h} : job[g] = Idle
           /\ leader # x => \A g \in Handlers \ {h} : job[g].pc # "announce"
BY DEF SetLeader, Busy

LEMMA Led ==
    ASSUME TypeInv, HandlersOK, NEW h \in Handlers, Aside(h), ~replaced',
           NEW x \in SidsOrNone, SetLeader(h, x),
           tab' = tab, connected' = connected,
           registered' \subseteq registered, mapped' \subseteq mapped,
           x # NoSession => registered' = registered /\ mapped' = mapped,
           job[h].op = "join" => job'[h].op = "join",
           JobOK(h)'
    PROVE  /\ HandlersOK'
           /\ \A s \in Members' : s \in Members /\ (Joining(s) => Joining(s)')
<1>1. \A s \in Members' : s \in Members /\ (Joining(s) => Joining(s)')
  <2> TAKE s \in Members'
  <2>1. <<s, "call">> \in Handlers
    BY HandlerFacts DEF Members, TypeInv, TypeOK
  <2> QED
    BY <2>1 DEF Joining, Aside, Members
<1>2. HandlersOK'
  <2> SUFFICES ASSUME NEW g \in Handlers PROVE JobOK(g)'
    BY DEF HandlersOK
  <2>1. CASE g = h
    BY <2>1
  <2>2. CASE g # h
    <3>1. JobOK(g) /\ job'[g] = job[g]
      BY <2>2 DEF HandlersOK, Aside
    <3>2. job[g].op = "leave" => g[1] \notin connected'
      BY <3>1 DEF JobOK, LeaveOK
    <3>3. CASE leader = x
      <4>1. leader' = leader /\ (Present => Present')
        BY <3>3, LeaderChange DEF Present, Active
      <4> QED
        BY <1>1, <3>1, <3>2, <4>1, Bystander
    <3>4. CASE leader # x /\ leader = NoSession
      <4>1. Present' /\ job[g].pc # "announce"
        BY <2>2, <3>4, LeaderChange DEF Present, Active
      <4> QED
        BY <1>1, <3>1, <3>2, <3>4, <4>1, Bystander
    <3>5. CASE leader # x /\ leader # NoSession
      <4>1. job[g] = Idle
        BY <2>2, <3>5, LeaderChange
      <4> QED
        BY <3>1, <4>1, Bystander
    <3> QED
      BY <3>3, <3>4, <3>5
  <2> QED
    BY <2>1, <2>2
<1> QED
  BY <1>1, <1>2

LEMMA Vacant ==
    ASSUME TypeInv, TabsInv, Known, NEW h \in Handlers, Aside(h), ~replaced',
           SetLeader(h, NoSession), job[h].pc # "announce",
           inbox' = inbox, isLeader' = isLeader,
           \A s \in Members' : s \in Members /\ (Joining(s) => Joining(s)')
    PROVE  Known'
<1>0. NoSession \in SidsOrNone /\ leader' = NoSession
  BY PcFacts, LeaderChange
<1>1. CASE \E g \in Handlers : Announcing(g)
  BY <1>1 DEF Known, Announcing, Aside
<1>2. CASE \A s \in Members : ~Joining(s) => (Believes(s) <=> leader = s)
  <2>1. \A s \in Members' : leader # s
    BY <1>0, LeaderChange, MemberActive, CollabLeaderAssumption
  <2>2. \A s \in Members' : NoSession # s
    BY MemberActive, CollabLeaderAssumption
  <2>3. \A s \in Members' : ~Joining(s)' => (Believes(s)' <=> leader' = s)
    BY <1>0, <1>2, <2>1, <2>2 DEF Believes
  <2> QED
    BY <2>3 DEF Known
<1> QED
  BY <1>1, <1>2 DEF Known

LEMMA QuietStep ==
    ASSUME TypeInv, Agreed, NEW h \in Handlers, Aside(h), job[h].pc # "announce",
           UNCHANGED <<tab, isLeader, inbox, connected, leader>>,
           registered' \subseteq registered, mapped' \subseteq mapped,
           Present => Present',
           job[h].op = "join" => job'[h].op = "join",
           JobOK(h)',
           Fixing(h) => Fixing(h)' \/ leader # NoSession \/ Members' = {}
    PROVE  Agreed'
<1>1. \A s \in Members' : s \in Members /\ (Believes(s)' <=> Believes(s))
  BY DEF Members, Believes
<1>2. \A g \in Handlers \ {h} : job[g].op = "leave" => g[1] \notin connected'
  BY DEF Agreed, HandlersOK, JobOK, LeaveOK
<1> QED
  BY <1>1, <1>2, Quiet DEF Agreed

\* Which of the three functions a call is in.
LEMMA Kinds ==
    ASSUME TypeInv, HandlersOK, NEW h \in Handlers, job[h].pc # "idle"
    PROVE  /\ job[h].op \in {"join", "event", "leave"}
           /\ job[h].op \in {"join", "event"} => h[2] = "call"
           /\ job[h].op = "join" => JoinOK(h)
           /\ job[h].op = "event" => EventOK(h)
           /\ job[h].op = "leave" => LeaveOK(h)
<1>1. job[h].op \in {"none", "join", "event", "leave"}
  BY JobTyped DEF TypeInv, TypeOK, JobFunctions
<1> QED
  BY <1>1 DEF HandlersOK, JobOK, Idle

\* What a tab that is open will believe after a message.
LEMMA Sent ==
    ASSUME TypeInv, NEW messages, Send(messages), UNCHANGED <<tab, isLeader>>,
           \A s \in DOMAIN messages : messages[s] \in {"lead", "follow", "sync"},
           NEW s \in Sessions, tab[s] = "open"
    PROVE  /\ s \notin DOMAIN messages => (Believes(s)' <=> Believes(s))
           /\ s \in DOMAIN messages /\ messages[s] = "sync" => (Believes(s)' <=> Believes(s))
           /\ s \in DOMAIN messages /\ messages[s] # "sync" =>
                (Believes(s)' <=> messages[s] = "lead")
<1>1. inbox[s] \in Seq({"lead", "follow", "sync"}) /\ isLeader[s] \in BOOLEAN
  BY DEF TypeInv, TypeOK
<1>2. isLeader'[s] = isLeader[s]
  OBVIOUS
<1>3. CASE s \notin DOMAIN messages
  BY <1>2, <1>3 DEF Send, Believes
<1>4. CASE s \in DOMAIN messages
  <2>1. inbox'[s] = Append(inbox[s], messages[s])
    BY <1>4 DEF Send
  <2>2. messages[s] \in {"lead", "follow", "sync"}
    BY <1>4
  <2>3. CASE messages[s] = "sync"
    BY <1>1, <1>2, <2>1, <2>3, AppendWord DEF Believes
  <2>4. CASE messages[s] = "lead"
    BY <1>1, <1>2, <1>4, <2>1, <2>4, AppendWord DEF Believes
  <2>5. CASE messages[s] = "follow"
    BY <1>1, <1>2, <1>4, <2>1, <2>5, AppendWord DEF Believes
  <2> QED
    BY <1>4, <2>2, <2>3, <2>4, <2>5
<1> QED
  BY <1>3, <1>4

LEMMA Unmoved ==
    ASSUME TypeInv, HandlersOK, Mended, NEW h \in Handlers, Aside(h),
           UNCHANGED <<tab, connected, registered, mapped, leader>>,
           job[h].op = "join" => job'[h].op = "join" \/ Present,
           JobOK(h)',
           Fixing(h) => Fixing(h)' \/ leader # NoSession
    PROVE  HandlersOK' /\ Mended' /\ Members' = Members
<1>1. Members' = Members /\ (Present' <=> Present)
  BY DEF Members, Present, Active
<1>2. Present' \/ \A s \in Members' : Joining(s) => Joining(s)'
  <2>1. \A s \in Members : <<s, "call">> \in Handlers
    BY HandlerFacts DEF Members, TypeInv, TypeOK
  <2> QED
    BY <1>1, <2>1 DEF Joining, Aside
<1>3. HandlersOK'
  <2> SUFFICES ASSUME NEW g \in Handlers, g # h PROVE JobOK(g)'
    BY DEF HandlersOK
  <2>1. JobOK(g) /\ job'[g] = job[g]
    BY DEF HandlersOK, Aside
  <2>2. job[g].op = "leave" => g[1] \notin connected'
    BY <2>1 DEF JobOK, LeaveOK
  <2> QED
    BY <1>1, <1>2, <2>1, <2>2, Bystander
<1>4. Mended'
  BY <1>1 DEF Mended, Fixing, Aside
<1> QED
  BY <1>1, <1>3, <1>4

-----------------------------------------------------------------------------
(* What the handlers share: one lemma per action.                          *)

LEMMA PruneOK ==
    ASSUME TypeInv, TabsInv, Agreed, NEW h \in Handlers, Prune(h)
    PROVE  Agreed'
<1> DEFINE users == {s \in registered : Active(s)}
<1>0. job \in JobFunctions /\ job[h].pc = "prune"
  BY DEF Prune, TypeInv, TypeOK, JobFunctions
<1>1. /\ Aside(h) /\ job'[h].op = job[h].op /\ job'[h].phase = job[h].phase
      /\ job'[h].leads = job[h].leads /\ job'[h].choice = NoSession
      /\ job'[h].pc = "check" /\ job'[h].users = users
  BY <1>0, PruneFacts
<1>2. /\ UNCHANGED <<tab, isLeader, inbox, connected, leader>>
      /\ registered' = users /\ mapped' = mapped \ (registered \ users)
  BY DEF Prune, tabVars
<1>3. \A s : Active(s) => Active(s)'
  BY <1>2 DEF Active
<1>4. \A s \in Members' : s \in users
  BY <1>2 DEF Members
<1>5. JobOK(h)'
  <2>1. CASE job[h].op = "join"
    <3>1. JoinOK(h) /\ h[2] = "call"
      BY <1>0, <2>1, Kinds DEF Agreed
    <3>2. leader' \in users /\ Present'
      BY <1>0, <1>2, <1>3, <3>1 DEF JoinOK, Present, Active
    <3>3. JoinOK(h)'
      BY <1>0, <1>1, <1>2, <3>1, <3>2 DEF JoinOK
    <3> QED
      BY <1>1, <2>1, <3>1, <3>3 DEF JobOK
  <2>2. CASE job[h].op = "leave"
    <3>1. LeaveOK(h)
      BY <1>0, <2>2, Kinds DEF Agreed
    <3>2. LeaveOK(h)'
      BY <1>0, <1>1, <1>2, <1>4, <3>1 DEF LeaveOK
    <3> QED
      BY <1>1, <2>2, <3>2 DEF JobOK
  <2> QED
    BY <1>0, <2>1, <2>2, Kinds DEF EventOK, Agreed
<1>6. Fixing(h)' \/ Members' = {}
  BY <1>1, <1>4 DEF Fixing
<1> QED
  BY <1>0, <1>1, <1>2, <1>3, <1>5, <1>6, QuietStep DEF Present

LEMMA CheckOK ==
    ASSUME TypeInv, TabsInv, Agreed, NEW h \in Handlers, Check(h)
    PROVE  Agreed'
<1>0. job \in JobFunctions /\ job[h].pc = "check"
  BY DEF Check, TypeInv, TypeOK, JobFunctions
<1>1. UNCHANGED <<tab, isLeader, inbox, connected, leader, registered, mapped>>
  BY DEF Check, tabVars, redis
<1>2. Present => Present'
  BY <1>1 DEF Present, Active
<1>3. CASE leader \in job[h].users \/ (leader = NoSession /\ job[h].users = {})
  <2>0. Over(h) /\ job[h].users \subseteq Sessions
    BY <1>0, <1>3, JobTyped DEF Check
  <2>1. Aside(h)
    BY <1>0, <2>0, OverFacts
  <2>2. JobOK(h)' /\ (job[h].op = "join" => job'[h].op = "join")
    <3>1. CASE job[h].op = "join"
      <4>1. JoinOK(h) /\ h[2] = "call"
        BY <1>0, <3>1, Kinds DEF Agreed
      <4>2. /\ job'[h].op = "join" /\ job'[h].pc = "tell"
            /\ job'[h].leads = job[h].leads
        BY <1>0, <2>0, <3>1, OverFacts
      <4>3. JoinOK(h)'
        BY <1>0, <1>1, <1>2, <4>1, <4>2 DEF JoinOK
      <4> QED
        BY <4>1, <4>2, <4>3 DEF JobOK
    <3>2. CASE job[h].op # "join"
      <4>1. job'[h] = Idle
        BY <1>0, <2>0, <3>2, OverFacts
      <4> QED
        BY <3>2, <4>1 DEF JobOK, Idle
    <3> QED
      BY <3>1, <3>2
  <2>3. Fixing(h) => leader # NoSession
    BY <1>0, <1>3, <2>0, CollabLeaderAssumption DEF Fixing
  <2> QED
    BY <1>0, <1>1, <1>2, <2>1, <2>2, <2>3, QuietStep
<1>4. CASE ~(leader \in job[h].users \/ (leader = NoSession /\ job[h].users = {}))
  <2>0. job' = [job EXCEPT ![h].pc = IF leader = NoSession THEN "elect" ELSE "drop",
                           ![h].seen = leader]
    BY <1>4 DEF Check
  <2>1. /\ Aside(h) /\ job'[h].op = job[h].op /\ job'[h].phase = job[h].phase
        /\ job'[h].choice = job[h].choice /\ job'[h].users = job[h].users
        /\ job'[h].seen = leader
        /\ job'[h].pc = IF leader = NoSession THEN "elect" ELSE "drop"
    BY <1>0, <2>0 DEF Aside, JobFunctions, Jobs
  <2>2. job[h].op = "leave"
    BY <1>0, <1>4, Kinds DEF Agreed, JoinOK, EventOK
  <2>3. LeaveOK(h)
    BY <1>0, <2>2, Kinds DEF Agreed
  <2>4. /\ Members' = Members /\ \A s \in Members : Joining(s) => Joining(s)'
    <3>1. Members' = Members
      BY <1>1 DEF Members
    <3>2. \A s \in Members : <<s, "call">> \in Handlers
      BY HandlerFacts DEF Members, TypeInv, TypeOK
    <3> QED
      BY <2>1, <3>1, <3>2 DEF Joining, Aside
  <2>5. LeaveOK(h)'
    BY <1>0, <1>1, <1>2, <2>1, <2>3, <2>4 DEF LeaveOK
  <2>6. JobOK(h)'
    BY <2>1, <2>2, <2>5 DEF JobOK
  <2>7. Fixing(h)' \/ leader # NoSession
    BY <1>0, <2>1, <2>3 DEF Fixing, LeaveOK
  <2> QED
    BY <1>0, <1>1, <1>2, <2>1, <2>6, <2>7, QuietStep
<1> QED
  BY <1>3, <1>4

LEMMA ElectOK ==
    ASSUME TypeInv, TabsInv, Agreed, NEW h \in Handlers, Elect(h)
    PROVE  Agreed'
<1>0. job \in JobFunctions /\ job[h].pc = "elect"
  BY DEF Elect, TypeInv, TypeOK, JobFunctions
<1>1. UNCHANGED <<tab, isLeader, inbox, connected, leader, registered, mapped>>
  BY DEF Elect, tabVars, redis
<1>2. (Present => Present') /\ Members' = Members /\ Active(leader)' = Active(leader)
  BY <1>1 DEF Present, Active, Members
<1>3. job[h].op = "leave" /\ LeaveOK(h) /\ job[h].phase \in {"leave", "roll"}
  BY <1>0, Kinds DEF Agreed, JoinOK, EventOK, LeaveOK
<1>4. ASSUME Aside(h) PROVE \A s \in Members : Joining(s) => Joining(s)'
                            \/ <<s, "call">> = h
  <2>2. \A s \in Members : <<s, "call">> \in Handlers
    BY HandlerFacts DEF Members, TypeInv, TypeOK
  <2> QED
    BY <1>4, <2>2 DEF Joining, Aside
<1>5. ASSUME NEW s \in registered, Active(s), Aside(h), job'[h].op = job[h].op,
             job'[h].phase = job[h].phase, job'[h].seen = job[h].seen,
             job'[h].pc = "appoint", job'[h].choice = s
      PROVE  Agreed'
  <2>1. \A m \in Members : Joining(m) => Joining(m)'
    BY <1>4, <1>5 DEF Joining
  <2>2. s \in Sessions
    BY DEF TypeInv, TypeOK
  <2>4. LeaveOK(h)'
    BY <1>0, <1>1, <1>2, <1>3, <1>5, <2>1, <2>2 DEF LeaveOK, Joining
  <2>5. JobOK(h)'
    BY <1>3, <1>5, <2>4 DEF JobOK
  <2>6. Fixing(h) => Fixing(h)'
    BY <1>0, <1>3, <1>5 DEF Fixing
  <2> QED
    BY <1>0, <1>1, <1>2, <1>3, <1>5, <2>5, <2>6, QuietStep
<1>6. CASE \A s \in registered : ~Active(s)
  <2>0. Members' = {}
    BY <1>2, <1>6, MemberActive
  <2>1. ASSUME job[h].phase = "leave", Goto(h, "vacate") PROVE Agreed'
    <3>1. /\ Aside(h) /\ job'[h].op = job[h].op /\ job'[h].pc = "vacate"
          /\ job'[h].phase = job[h].phase
      BY <1>0, <2>1, GotoFacts
    <3>2. LeaveOK(h)'
      BY <1>0, <1>1, <1>3, <2>1, <3>1 DEF LeaveOK
    <3> QED
      BY <1>0, <1>1, <1>2, <1>3, <2>0, <3>1, <3>2, QuietStep DEF JobOK
  <2>2. ASSUME job[h].phase = "roll", job[h].seen = NoSession, Over(h) PROVE Agreed'
    <3>1. Aside(h) /\ job'[h] = Idle
      BY <1>0, <1>3, <2>2, OverFacts
    <3>2. JobOK(h)'
      BY <3>1 DEF JobOK, Idle
    <3> QED
      BY <1>0, <1>1, <1>2, <1>3, <2>0, <3>1, <3>2, QuietStep
  <2>3. ASSUME job[h].phase = "roll", Goto(h, "announce") PROVE Agreed'
    <3>1. /\ Aside(h) /\ job'[h].op = job[h].op /\ job'[h].pc = "announce"
          /\ job'[h].phase = job[h].phase /\ job'[h].choice = job[h].choice
      BY <1>0, <2>3, GotoFacts
    <3>2. leader = NoSession
      BY <1>0, <1>3, <1>6, <2>3 DEF LeaveOK, Present, Active
    <3>3. LeaveOK(h)'
      BY <1>0, <1>1, <1>3, <2>3, <3>1, <3>2 DEF LeaveOK
    <3> QED
      BY <1>0, <1>1, <1>2, <1>3, <2>0, <3>1, <3>3, QuietStep DEF JobOK
  <2> QED
    BY <1>0, <1>3, <1>6, <2>1, <2>2, <2>3, ElectFacts
<1> QED
  BY <1>0, <1>5, <1>6, ElectFacts

LEMMA AnnounceOK ==
    ASSUME TypeInv, TabsInv, Agreed, NEW h \in Handlers, Announce(h)
    PROVE  Agreed'
<1>0. job \in JobFunctions /\ job[h].pc = "announce"
  BY DEF Announce, TypeInv, TypeOK, JobFunctions
<1>1. UNCHANGED <<tab, isLeader, connected, leader, registered, mapped>>
  BY DEF Announce, redis
<1>2. (Present => Present') /\ Members' = Members
  BY <1>1 DEF Present, Active, Members
<1>3. job[h].choice = leader
  BY <1>0, Kinds DEF Agreed, JoinOK, EventOK, LeaveOK
<1>4. /\ Aside(h) /\ JobOK(h)'
      /\ job[h].op = "join" => job'[h].op = "join"
  <2>1. CASE job[h].op = "join"
    <3>1. JoinOK(h) /\ h[2] = "call"
      BY <1>0, <2>1, Kinds DEF Agreed
    <3>2. RollCall(h)
      BY <1>0, <3>1 DEF Announce, JoinOK
    <3>3. /\ Aside(h) /\ job'[h].op = "join" /\ job'[h].pc = "prune"
          /\ job'[h].leads = job[h].leads
      BY <1>0, <2>1, <3>2, RollFacts
    <3>4. JoinOK(h)'
      BY <1>0, <1>1, <1>2, <3>1, <3>3 DEF JoinOK
    <3> QED
      BY <3>1, <3>3, <3>4 DEF JobOK
  <2>2. CASE job[h].op = "event"
    <3>1. EventOK(h) /\ h[2] = "call"
      BY <1>0, <2>2, Kinds DEF Agreed
    <3>2. Goto(h, "target")
      BY <1>0, <3>1 DEF Announce, EventOK
    <3>3. /\ Aside(h) /\ job'[h].op = "event" /\ job'[h].pc = "target"
          /\ job'[h].phase = job[h].phase
      BY <1>0, <2>2, <3>2, GotoFacts
    <3>4. EventOK(h)'
      BY <1>0, <1>1, <1>2, <3>1, <3>3 DEF EventOK
    <3> QED
      BY <2>2, <3>1, <3>3, <3>4 DEF JobOK
  <2>3. CASE job[h].op = "leave"
    <3>1. LeaveOK(h)
      BY <1>0, <2>3, Kinds DEF Agreed
    <3>2. CASE RollCall(h)
      <4>1. /\ Aside(h) /\ job'[h].op = "leave" /\ job'[h].pc = "prune"
            /\ job'[h].phase = "roll"
        BY <1>0, <2>3, <3>2, RollFacts
      <4>2. LeaveOK(h)'
        BY <1>1, <3>1, <4>1 DEF LeaveOK
      <4> QED
        BY <2>3, <4>1, <4>2 DEF JobOK
    <3>3. CASE Over(h)
      <4>1. Aside(h) /\ job'[h] = Idle
        BY <1>0, <2>3, <3>3, OverFacts
      <4> QED
        BY <2>3, <4>1 DEF JobOK, Idle
    <3> QED
      BY <1>0, <3>1, <3>2, <3>3 DEF Announce, LeaveOK
  <2> QED
    BY <1>0, <2>1, <2>2, <2>3, Kinds DEF Agreed
<1>5. ~Fixing(h)
  BY <1>0 DEF Fixing
<1>6. HandlersOK' /\ Mended'
  BY <1>1, <1>4, <1>5, Unmoved DEF Agreed
<1>7. Known'
  <2> SUFFICES ASSUME NEW s \in Members PROVE Believes(s)' <=> leader' = s
    BY <1>2 DEF Known
  <2> DEFINE messages == [x \in registered |-> IF x = job[h].choice THEN "lead" ELSE "follow"]
  <2>1. Send(messages)
    BY DEF Announce
  <2>2. s \in Sessions /\ s \in registered /\ tab[s] = "open"
    BY MemberActive DEF Members
  <2>3. s \in DOMAIN messages /\ messages[s] # "sync" /\ (messages[s] = "lead" <=> s = leader)
    BY <1>3, <2>2
  <2>4. \A x \in DOMAIN messages : messages[x] \in {"lead", "follow", "sync"}
    OBVIOUS
  <2> HIDE DEF messages
  <2> QED
    BY <1>1, <2>1, <2>2, <2>3, <2>4, Sent
<1> QED
  BY <1>6, <1>7 DEF Agreed

LEMMA DropOK ==
    ASSUME TypeInv, TabsInv, Agreed, NEW h \in Handlers, Drop(h), ~replaced'
    PROVE  Agreed'
<1>0. job \in JobFunctions /\ job[h].pc = "drop" /\ NoSession \in SidsOrNone
  BY PcFacts DEF Drop, TypeInv, TypeOK, JobFunctions
<1>1. UNCHANGED <<tab, isLeader, inbox, connected, registered, mapped>> /\ SetLeader(h, NoSession)
  BY DEF Drop, tabVars
<1>2. job[h].op = "leave" /\ LeaveOK(h)
  BY <1>0, Kinds DEF Agreed, JoinOK, EventOK
<1>3. /\ leader # NoSession /\ job[h].seen = leader /\ leader' = NoSession
      /\ ~Active(leader) /\ \A g \in Handlers \ {h} : job[g] = Idle
      /\ job[h].choice = NoSession /\ job[h].phase = "roll"
  BY <1>0, <1>1, <1>2, LeaderChange DEF LeaveOK
<1>4. Goto(h, IF job[h].users = {} THEN "announce" ELSE "elect")
  BY <1>3 DEF Drop
<1>5. /\ Aside(h) /\ job'[h].op = job[h].op /\ job'[h].phase = job[h].phase
      /\ job'[h].seen = job[h].seen /\ job'[h].choice = job[h].choice
      /\ job'[h].pc = IF job[h].users = {} THEN "announce" ELSE "elect"
  BY <1>0, <1>4, GotoFacts
<1>6. Members' = Members
  BY <1>1 DEF Members
<1>7. JobOK(h)'
  <2>1. job'[h].seen \notin Members'
    BY <1>3, <1>5, <1>6, MemberActive
  <2>2. LeaveOK(h)'
    BY <1>0, <1>1, <1>2, <1>3, <1>5, <2>1 DEF LeaveOK
  <2> QED
    BY <1>2, <1>5, <2>2 DEF JobOK
<1>8. HandlersOK' /\ \A s \in Members' : s \in Members /\ (Joining(s) => Joining(s)')
  BY <1>0, <1>1, <1>2, <1>5, <1>7, Led DEF Agreed
<1>9. Known'
  BY <1>0, <1>1, <1>5, <1>8, Vacant DEF Agreed
<1>10. Mended'
  <2>1. CASE job[h].users # {}
    BY <1>3, <1>5, <2>1 DEF Mended, Fixing
  <2>2. CASE job[h].users = {}
    <3>1. \A s \in Members : Joining(s)
      BY <1>0, <1>2, <1>3, <2>2 DEF LeaveOK, Present
    <3>2. ASSUME NEW s \in Members PROVE FALSE
      <4>1. <<s, "call">> \in Handlers /\ job[<<s, "call">>].op = "join"
        BY <3>1, HandlerFacts DEF Joining, Members, TypeInv, TypeOK
      <4>2. job[<<s, "call">>] # Idle /\ <<s, "call">> # h
        BY <1>2, <4>1 DEF Idle
      <4> QED
        BY <1>3, <4>1, <4>2
    <3> QED
      BY <1>6, <3>2 DEF Mended
  <2> QED
    BY <2>1, <2>2
<1> QED
  BY <1>8, <1>9, <1>10 DEF Agreed

LEMMA AppointOK ==
    ASSUME TypeInv, TabsInv, Agreed, NEW h \in Handlers, Appoint(h), ~replaced'
    PROVE  Agreed'
<1> DEFINE x == job[h].choice
<1>0. job \in JobFunctions /\ job[h].pc = "appoint"
  BY DEF Appoint, TypeInv, TypeOK, JobFunctions
<1>1. UNCHANGED <<tab, isLeader, inbox, connected, registered, mapped>> /\ SetLeader(h, x)
  BY DEF Appoint, tabVars
<1>2. job[h].op = "leave" /\ LeaveOK(h)
  BY <1>0, Kinds DEF Agreed, JoinOK, EventOK
<1>3. x \in Sessions /\ x # NoSession /\ x \in SidsOrNone
  BY <1>0, <1>2, PcFacts, CollabLeaderAssumption DEF LeaveOK
<1>4. /\ leader' = x /\ Active(x) /\ Members' = Members /\ Present'
      /\ leader # x => \A g \in Handlers \ {h} : job[g].pc # "announce"
      /\ leader \in {NoSession, x} \/ ~Active(leader)
  <2>1. leader' = x /\ Active(x)
    BY <1>1, <1>3, LeaderChange
  <2>2. Members' = Members /\ Present'
    BY <1>1, <1>3, <2>1 DEF Members, Present, Active
  <2> QED
    BY <1>1, <1>3, <2>1, <2>2, LeaderChange
<1>5. Mended'
  BY <1>3, <1>4 DEF Mended
<1>6. CASE Goto(h, "announce")
  <2>1. /\ Aside(h) /\ job'[h].op = job[h].op /\ job'[h].phase = job[h].phase
        /\ job'[h].choice = job[h].choice /\ job'[h].pc = "announce"
    BY <1>0, <1>6, GotoFacts
  <2>2. LeaveOK(h)'
    BY <1>0, <1>1, <1>2, <1>4, <2>1 DEF LeaveOK
  <2>3. JobOK(h)'
    BY <1>2, <2>1, <2>2 DEF JobOK
  <2>4. HandlersOK'
    BY <1>1, <1>2, <1>3, <2>1, <2>3, Led DEF Agreed
  <2>5. Known'
    BY <2>1 DEF Known, Announcing
  <2> QED
    BY <1>5, <2>4, <2>5 DEF Agreed
<1>7. CASE job[h].phase = "roll" /\ x = job[h].seen /\ Over(h)
  <2>1. Aside(h) /\ job'[h] = Idle
    BY <1>0, <1>2, <1>7, OverFacts
  <2>2. JobOK(h)'
    BY <2>1 DEF JobOK, Idle
  <2>3. HandlersOK' /\ \A s \in Members' : s \in Members /\ (Joining(s) => Joining(s)')
    BY <1>1, <1>2, <1>3, <2>1, <2>2, Led DEF Agreed
  <2>4. Known'
    <3>1. CASE \E g \in Handlers : Announcing(g)
      BY <1>0, <2>1, <3>1 DEF Known, Announcing, Aside
    <3>2. CASE \A s \in Members : ~Joining(s) => (Believes(s) <=> leader = s)
      <4>1. CASE leader = x
        BY <1>1, <1>4, <2>3, <3>2, <4>1 DEF Known, Believes
      <4>2. CASE leader # x
        <5>1. leader = NoSession
          BY <1>0, <1>2, <1>4, <1>7, <4>2 DEF LeaveOK, Present
        <5>2. x \notin Members \/ Joining(x)
          BY <1>0, <1>2, <1>3, <1>7, <5>1 DEF LeaveOK
        <5>3. ASSUME NEW s \in Members', ~Joining(s)' PROVE Believes(s)' <=> leader' = s
          <6>1. s \in Members /\ ~Joining(s) /\ s # NoSession /\ s # x
            BY <1>4, <2>3, <5>2, <5>3, MemberActive, CollabLeaderAssumption
          <6>2. ~Believes(s)
            BY <3>2, <5>1, <6>1
          <6> QED
            BY <1>1, <1>4, <6>1, <6>2 DEF Believes
        <5> QED
          BY <5>3 DEF Known
      <4> QED
        BY <4>1, <4>2
    <3> QED
      BY <3>1, <3>2 DEF Agreed, Known
  <2> QED
    BY <1>5, <2>3, <2>4 DEF Agreed
<1> QED
  BY <1>6, <1>7 DEF Appoint

-----------------------------------------------------------------------------
(* user_connect.                                                           *)

LEMMA CallFacts ==
    ASSUME TypeInv, NEW s \in Sessions
    PROVE  /\ <<s, "call">> \in Handlers /\ <<s, "call">>[1] = s /\ <<s, "call">>[2] = "call"
           /\ job \in JobFunctions
BY HandlerFacts DEF TypeInv, TypeOK, JobFunctions

LEMMA RegisterOK ==
    ASSUME TypeInv, TabsInv, Agreed, NEW s \in Sessions, Register(s) \/ MapSession(s)
    PROVE  Agreed'
<1> DEFINE h == <<s, "call">>
<1>0. /\ h \in Handlers /\ h[1] = s /\ h[2] = "call" /\ job \in JobFunctions
      /\ job[h].pc \in {"register", "map"}
  BY CallFacts DEF Register, MapSession
<1>1. /\ UNCHANGED <<tab, isLeader, inbox, connected, leader>>
      /\ registered \subseteq registered' /\ registered' \subseteq registered \cup {s}
      /\ mapped \subseteq mapped' /\ mapped' \subseteq mapped \cup {s}
      /\ Goto(h, "map") \/ Goto(h, "find")
  BY DEF Register, MapSession, tabVars
<1> HIDE DEF h
<1>2. job[h].op = "join" /\ JoinOK(h)
  BY <1>0, Kinds DEF Agreed, EventOK, LeaveOK
<1>3. Aside(h) /\ job'[h].op = "join" /\ job'[h].pc \in {"map", "find"}
  BY <1>0, <1>1, <1>2, GotoFacts
<1>4. Present => Present'
  BY <1>1 DEF Present, Active
<1>5. \A m \in Members' : m \in Sessions /\ (m \in Members \/ m = s)
  BY <1>0, <1>1 DEF Members, TypeInv, TypeOK
<1>6. Joining(s)' /\ \A m \in Sessions : Joining(m) => Joining(m)'
  <2>1. \A m \in Sessions : <<m, "call">> \in Handlers
    BY HandlerFacts
  <2> QED
    BY <1>0, <1>2, <1>3, <2>1 DEF Joining, Aside, h
<1>7. HandlersOK'
  <2> SUFFICES ASSUME NEW g \in Handlers PROVE JobOK(g)'
    BY DEF HandlersOK
  <2>1. CASE g = h
    <3>1. JoinOK(h)'
      BY <1>3 DEF JoinOK
    <3> QED
      BY <1>0, <1>3, <2>1, <3>1 DEF JobOK
  <2>2. CASE g # h
    <3>1. JobOK(g) /\ job'[g] = job[g]
      BY <1>3, <2>2 DEF Agreed, HandlersOK, Aside
    <3>2. job[g].op = "leave" => g[1] \notin connected'
      BY <1>1, <3>1 DEF JobOK, LeaveOK
    <3> QED
      BY <1>1, <1>4, <1>5, <1>6, <3>1, <3>2, Bystander
  <2> QED
    BY <2>1, <2>2
<1>8. Known'
  <2>1. CASE \E g \in Handlers : Announcing(g)
    BY <1>0, <1>3, <2>1 DEF Known, Announcing, Aside
  <2>2. CASE \A m \in Members : ~Joining(m) => (Believes(m) <=> leader = m)
    BY <1>1, <1>5, <1>6, <2>2 DEF Known, Believes
  <2> QED
    BY <2>1, <2>2 DEF Agreed, Known
<1>9. Mended'
  BY <1>0, <1>3 DEF Mended, Fixing
<1> QED
  BY <1>7, <1>8, <1>9 DEF Agreed

LEMMA FindLeaderOK ==
    ASSUME TypeInv, TabsInv, Agreed, NEW s \in Sessions, FindLeader(s)
    PROVE  Agreed'
<1> DEFINE h == <<s, "call">>
<1>0. /\ h \in Handlers /\ h[1] = s /\ h[2] = "call" /\ job \in JobFunctions
      /\ job[h].pc = "find"
  BY CallFacts DEF FindLeader
<1>1. UNCHANGED <<tab, isLeader, inbox, connected, leader, registered, mapped>>
  BY DEF FindLeader, tabVars, redis
<1>3. /\ Aside(h) /\ job'[h].op = job[h].op
      /\ Present => /\ job'[h].pc = "prune" /\ job'[h].phase = "roll"
                    /\ job'[h].leads <=> leader = s
      /\ ~Present => /\ job'[h].pc = IF leader = NoSession THEN "claim" ELSE "evict"
                     /\ job'[h].seen = leader
  BY <1>0, FindLeaderFacts DEF Present
<1> HIDE DEF h
<1>2. job[h].op = "join" /\ JoinOK(h)
  BY <1>0, Kinds DEF Agreed, EventOK, LeaveOK
<1>4. Present' <=> Present
  BY <1>1 DEF Present, Active
<1>5. JoinOK(h)'
  BY <1>0, <1>1, <1>3, <1>4 DEF JoinOK
<1>6. JobOK(h)'
  BY <1>0, <1>2, <1>3, <1>5 DEF JobOK
<1>7. Fixing(h)' \/ leader # NoSession
  BY <1>2, <1>3 DEF Fixing, Present
<1> QED
  BY <1>0, <1>1, <1>2, <1>3, <1>4, <1>6, <1>7, QuietStep

LEMMA EvictOK ==
    ASSUME TypeInv, TabsInv, Agreed, NEW s \in Sessions, Evict(s), ~replaced'
    PROVE  Agreed'
<1> DEFINE h == <<s, "call">>
<1>0. /\ h \in Handlers /\ h[1] = s /\ h[2] = "call" /\ job \in JobFunctions
      /\ job[h].pc = "evict"
  BY CallFacts DEF Evict
<1>1. /\ UNCHANGED <<tab, isLeader, inbox, connected, leader>>
      /\ registered' \subseteq registered /\ mapped' \subseteq mapped
      /\ Goto(h, "unseat") /\ ~Active(job[h].seen)
  BY DEF Evict, tabVars
<1> HIDE DEF h
<1>2. job[h].op = "join" /\ JoinOK(h)
  BY <1>0, Kinds DEF Agreed, EventOK, LeaveOK
<1>3. Aside(h) /\ job'[h].op = "join" /\ job'[h].pc = "unseat" /\ job'[h].seen = job[h].seen
  BY <1>0, <1>1, <1>2, GotoFacts
<1>4. ~Present
  BY <1>0, <1>1, <1>2 DEF JoinOK, Present
<1>5. JobOK(h)'
  BY <1>0, <1>1, <1>2, <1>3 DEF JobOK, JoinOK
<1>6. Fixing(h)'
  BY <1>3 DEF Fixing
<1> QED
  BY <1>0, <1>1, <1>2, <1>3, <1>4, <1>5, <1>6, QuietStep

LEMMA UnseatOK ==
    ASSUME TypeInv, TabsInv, Agreed, NEW s \in Sessions, Unseat(s), ~replaced'
    PROVE  Agreed'
<1> DEFINE h == <<s, "call">>
<1>0. /\ h \in Handlers /\ h[1] = s /\ h[2] = "call" /\ job \in JobFunctions
      /\ job[h].pc = "unseat" /\ NoSession \in SidsOrNone
  BY CallFacts, PcFacts DEF Unseat
<1>1. /\ UNCHANGED <<tab, isLeader, inbox, connected>>
      /\ registered' = registered /\ mapped' = mapped
      /\ SetLeader(h, NoSession) /\ Goto(h, "claim")
  BY DEF Unseat, tabVars
<1> HIDE DEF h
<1>2. job[h].op = "join" /\ JoinOK(h)
  BY <1>0, Kinds DEF Agreed, EventOK, LeaveOK
<1>3. Aside(h) /\ job'[h].op = "join" /\ job'[h].pc = "claim"
  BY <1>0, <1>1, <1>2, GotoFacts
<1>4. leader' = NoSession
  BY <1>0, <1>1, LeaderChange
<1>5. JobOK(h)'
  BY <1>0, <1>3, <1>4 DEF JobOK, JoinOK
<1>6. HandlersOK' /\ \A m \in Members' : m \in Members /\ (Joining(m) => Joining(m)')
  BY <1>0, <1>1, <1>3, <1>5, Led DEF Agreed
<1>7. Known'
  BY <1>0, <1>1, <1>3, <1>6, Vacant DEF Agreed
<1>8. Mended'
  BY <1>0, <1>3 DEF Mended, Fixing
<1> QED
  BY <1>6, <1>7, <1>8 DEF Agreed

LEMMA ClaimOK ==
    ASSUME TypeInv, TabsInv, Agreed, NEW s \in Sessions, Claim(s), ~replaced'
    PROVE  Agreed'
<1> DEFINE h == <<s, "call">>
<1>0. /\ h \in Handlers /\ h[1] = s /\ h[2] = "call" /\ job \in JobFunctions
      /\ job[h].pc = "claim" /\ s \in SidsOrNone /\ s # NoSession
  BY CallFacts, PcFacts, HandlerFacts DEF Claim
<1>1. UNCHANGED <<tab, isLeader, inbox, connected, registered, mapped>>
  BY DEF Claim, tabVars
<1>3. /\ Aside(h) /\ job'[h].op = job[h].op
      /\ leader # NoSession => job'[h].pc = "reread" /\ leader' = leader
      /\ leader = NoSession =>
            /\ SetLeader(h, s)
            /\ job'[h].choice = s /\ job'[h].leads
            /\ job[h].seen = NoSession => job'[h].pc = "prune" /\ job'[h].phase = "roll"
            /\ job[h].seen # NoSession => job'[h].pc = "announce" /\ job'[h].phase = "join"
  BY <1>0, ClaimFacts DEF Claim
<1>9. job[h].op = "join" => Joining(s)
  BY DEF Joining
<1>10. job'[h].op = "join" => Joining(s)'
  BY DEF Joining
<1> HIDE DEF h
<1>2. job[h].op = "join" /\ JoinOK(h)
  BY <1>0, Kinds DEF Agreed, EventOK, LeaveOK
<1>4. CASE leader # NoSession
  <2>1. Present /\ Present'
    BY <1>0, <1>1, <1>2, <1>3, <1>4 DEF JoinOK, Present, Active
  <2>2. JoinOK(h)'
    BY <1>3, <1>4, <2>1 DEF JoinOK
  <2>3. JobOK(h)'
    BY <1>0, <1>2, <1>3, <2>2 DEF JobOK
  <2> QED
    BY <1>0, <1>1, <1>2, <1>3, <1>4, <2>1, <2>3, QuietStep
<1>5. CASE leader = NoSession
  <2>1. leader' = s /\ Present'
    BY <1>0, <1>1, <1>3, <1>5, LeaderChange DEF Present, Active
  <2>2. JoinOK(h)'
    BY <1>0, <1>3, <1>5, <2>1 DEF JoinOK
  <2>3. JobOK(h)'
    BY <1>0, <1>2, <1>3, <2>2 DEF JobOK
  <2>4. HandlersOK' /\ \A m \in Members' : m \in Members /\ (Joining(m) => Joining(m)')
    BY <1>0, <1>1, <1>2, <1>3, <1>5, <2>3, Led DEF Agreed
  <2>5. Mended'
    BY <1>0, <2>1 DEF Mended
  <2>6. Known'
    <3>1. ~\E g \in Handlers : Announcing(g)
      BY <1>0, <1>3, <1>5, LeaderChange DEF Announcing
    <3>2. ASSUME NEW m \in Members', ~Joining(m)' PROVE Believes(m)' <=> leader' = m
      <4>1. m \in Members /\ ~Joining(m) /\ m # s
        BY <1>2, <1>3, <1>10, <2>4, <3>2
      <4>2. m # NoSession
        BY <4>1, MemberActive, CollabLeaderAssumption
      <4>3. ~Believes(m)
        BY <1>5, <3>1, <4>1, <4>2 DEF Agreed, Known
      <4> QED
        BY <1>1, <2>1, <4>1, <4>3 DEF Believes
    <3> QED
      BY <3>2 DEF Known
  <2> QED
    BY <2>4, <2>5, <2>6 DEF Agreed
<1> QED
  BY <1>4, <1>5

LEMMA ReadAgainOK ==
    ASSUME TypeInv, TabsInv, Agreed, NEW s \in Sessions, ReadAgain(s)
    PROVE  Agreed'
<1> DEFINE h == <<s, "call">>
<1>0. /\ h \in Handlers /\ h[1] = s /\ h[2] = "call" /\ job \in JobFunctions
      /\ job[h].pc = "reread"
  BY CallFacts DEF ReadAgain
<1>1. UNCHANGED <<tab, isLeader, inbox, connected, leader, registered, mapped>>
  BY DEF ReadAgain, tabVars, redis
<1>3. /\ Aside(h) /\ job'[h].op = job[h].op
      /\ job'[h].pc = "prune" /\ job'[h].phase = "roll"
      /\ job'[h].leads <=> leader \in {NoSession, s}
  BY <1>0, ReadAgainFacts
<1> HIDE DEF h
<1>2. job[h].op = "join" /\ JoinOK(h)
  BY <1>0, Kinds DEF Agreed, EventOK, LeaveOK
<1>4. Present /\ Present' /\ leader # NoSession
  BY <1>0, <1>1, <1>2 DEF JoinOK, Present, Active
<1>5. JoinOK(h)'
  BY <1>0, <1>1, <1>3, <1>4 DEF JoinOK
<1>6. JobOK(h)'
  BY <1>0, <1>2, <1>3, <1>5 DEF JobOK
<1> QED
  BY <1>0, <1>1, <1>2, <1>3, <1>4, <1>6, QuietStep

LEMMA TellOK ==
    ASSUME TypeInv, TabsInv, Agreed, NEW s \in Sessions, Tell(s)
    PROVE  Agreed'
<1> DEFINE h == <<s, "call">>
           messages == [x \in {s} |-> IF job[h].leads THEN "lead" ELSE "follow"]
<1>0. /\ h \in Handlers /\ h[1] = s /\ h[2] = "call" /\ job \in JobFunctions
      /\ job[h].pc = "tell"
  BY CallFacts DEF Tell
<1>1. UNCHANGED <<tab, isLeader, connected, leader, registered, mapped>> /\ Send(messages)
  BY DEF Tell, redis
<1>3. Aside(h) /\ job'[h] = Idle
  BY <1>0 DEF Tell, Aside, JobFunctions
<1>4. /\ DOMAIN messages = {s}
      /\ \A x \in DOMAIN messages : messages[x] \in {"lead", "follow", "sync"}
      /\ messages[s] # "sync" /\ (messages[s] = "lead" <=> job[h].leads)
  OBVIOUS
<1>10. \A m \in Sessions : m # s => (Joining(m)' <=> Joining(m))
  <2>1. \A m \in Sessions : <<m, "call">> \in Handlers
    BY HandlerFacts
  <2> QED
    BY <1>3, <2>1 DEF Joining, Aside
<1> HIDE DEF h, messages
<1>2. job[h].op = "join" /\ JoinOK(h)
  BY <1>0, Kinds DEF Agreed, EventOK, LeaveOK
<1>5. Present /\ (job[h].leads <=> leader = s)
  BY <1>0, <1>2 DEF JoinOK
<1>6. JobOK(h)'
  BY <1>3 DEF JobOK, Idle
<1>7. leader # NoSession
  BY <1>5 DEF Present
<1>8. HandlersOK' /\ Mended' /\ Members' = Members
  BY <1>0, <1>1, <1>3, <1>5, <1>6, <1>7, Unmoved DEF Agreed
<1>9. Known'
  <2>1. CASE \E g \in Handlers : Announcing(g)
    BY <1>0, <1>3, <2>1 DEF Known, Announcing, Aside
  <2>2. CASE \A m \in Members : ~Joining(m) => (Believes(m) <=> leader = m)
    <3>1. ASSUME NEW m \in Members, ~Joining(m)' PROVE Believes(m)' <=> leader' = m
      <4>1. m \in Sessions /\ tab[m] = "open"
        BY MemberActive DEF Members
      <4>2. CASE m = s
        BY <1>1, <1>4, <1>5, <4>1, <4>2, Sent
      <4>3. CASE m # s
        <5>1. Believes(m)' <=> Believes(m)
          BY <1>1, <1>4, <4>1, <4>3, Sent
        <5>2. ~Joining(m)
          BY <1>10, <3>1, <4>1, <4>3
        <5> QED
          BY <1>1, <2>2, <5>1, <5>2
      <4> QED
        BY <4>2, <4>3
    <3> QED
      BY <1>8, <3>1 DEF Known
  <2> QED
    BY <2>1, <2>2 DEF Agreed, Known
<1> QED
  BY <1>8, <1>9 DEF Agreed

-----------------------------------------------------------------------------
(* disconnect and collaboration_event.                                     *)

LEMMA LeaveFacts ==
    ASSUME TypeInv, NEW s \in Sessions
    PROVE  /\ <<s, "disconnect">> \in Handlers /\ <<s, "disconnect">>[1] = s
           /\ <<s, "disconnect">>[2] = "disconnect"
           /\ job \in JobFunctions
BY HandlerFacts DEF TypeInv, TypeOK, JobFunctions

LEMMA LookUpOK ==
    ASSUME TypeInv, TabsInv, Agreed, NEW s \in Sessions, LookUp(s)
    PROVE  Agreed'
<1> DEFINE h == <<s, "disconnect">>
<1>0. /\ h \in Handlers /\ h[1] = s /\ h[2] = "disconnect" /\ job \in JobFunctions
      /\ job[h].pc = "lookup"
  BY LeaveFacts DEF LookUp
<1>1. /\ UNCHANGED <<tab, isLeader, inbox, connected, leader, registered, mapped>>
      /\ job' = IF s \in mapped THEN [job EXCEPT ![h].pc = "forget"] ELSE [job EXCEPT ![h] = Idle]
  BY DEF LookUp, tabVars, redis
<1> HIDE DEF h
<1>2. job[h].op = "leave" /\ LeaveOK(h)
  BY <1>0, Kinds DEF Agreed, EventOK, JoinOK
<1>3. /\ Aside(h)
      /\ \/ job'[h].op = "leave" /\ job'[h].pc = "forget"
         \/ job'[h] = Idle
  BY <1>0, <1>1, <1>2 DEF Aside, JobFunctions, Jobs
<1>4. Present => Present'
  BY <1>1 DEF Present, Active
<1>5. JobOK(h)'
  <2>1. CASE job'[h].op = "leave" /\ job'[h].pc = "forget"
    BY <1>1, <1>2, <2>1 DEF JobOK, LeaveOK
  <2>2. CASE job'[h] = Idle
    BY <2>2 DEF JobOK, Idle
  <2> QED
    BY <1>3, <2>1, <2>2
<1>6. ~Fixing(h)
  BY <1>0, <1>2 DEF Fixing
<1> QED
  BY <1>0, <1>1, <1>2, <1>3, <1>4, <1>5, <1>6, QuietStep

LEMMA ForgetOK ==
    ASSUME TypeInv, TabsInv, Agreed, NEW s \in Sessions, Forget(s)
    PROVE  Agreed'
<1> DEFINE h == <<s, "disconnect">>
<1>0. /\ h \in Handlers /\ h[1] = s /\ h[2] = "disconnect" /\ job \in JobFunctions
      /\ job[h].pc = "forget"
  BY LeaveFacts DEF Forget
<1>1. /\ UNCHANGED <<tab, isLeader, inbox, connected, leader>>
      /\ registered' \subseteq registered /\ mapped' \subseteq mapped
      /\ \A x \in Sessions : x # s =>
            (x \in registered => x \in registered') /\ (x \in mapped => x \in mapped')
      /\ Goto(h, "resign")
  BY DEF Forget, tabVars
<1> HIDE DEF h
<1>2. job[h].op = "leave" /\ LeaveOK(h)
  BY <1>0, Kinds DEF Agreed, EventOK, JoinOK
<1>3. Aside(h) /\ job'[h].op = "leave" /\ job'[h].pc = "resign"
  BY <1>0, <1>1, <1>2, GotoFacts
<1>4. Present => Present'
  <2>1. s \notin connected
    BY <1>0, <1>2 DEF LeaveOK
  <2>2. Present => leader \in Sessions /\ leader # s
    BY <2>1 DEF Present, Active, TypeInv, TypeOK
  <2> QED
    BY <1>1, <2>2 DEF Present, Active
<1>5. JobOK(h)'
  BY <1>1, <1>2, <1>3 DEF JobOK, LeaveOK
<1>6. ~Fixing(h)
  BY <1>0, <1>2 DEF Fixing
<1> QED
  BY <1>0, <1>1, <1>2, <1>3, <1>4, <1>5, <1>6, QuietStep

LEMMA ResignOK ==
    ASSUME TypeInv, TabsInv, Agreed, NEW s \in Sessions, Resign(s)
    PROVE  Agreed'
<1> DEFINE h == <<s, "disconnect">>
<1>0. /\ h \in Handlers /\ h[1] = s /\ h[2] = "disconnect" /\ job \in JobFunctions
      /\ job[h].pc = "resign"
  BY LeaveFacts DEF Resign
<1>1. UNCHANGED <<tab, isLeader, inbox, connected, leader, registered, mapped>>
  BY DEF Resign, tabVars, redis
<1>3. /\ Aside(h) /\ job'[h].op = job[h].op
      /\ \/ leader = s /\ job'[h].pc = "elect" /\ job'[h].phase = "leave"
         \/ job'[h].pc = "prune" /\ job'[h].phase = "roll"
  <2>1. CASE leader = s
    BY <1>0, <2>1, ResignFacts
  <2>2. CASE leader # s
    <3>1. RollCall(h)
      BY <2>2 DEF Resign
    <3> QED
      BY <1>0, <3>1, RollFacts
  <2> QED
    BY <2>1, <2>2
<1> HIDE DEF h
<1>2. job[h].op = "leave" /\ LeaveOK(h)
  BY <1>0, Kinds DEF Agreed, EventOK, JoinOK
<1>4. Present => Present'
  BY <1>1 DEF Present, Active
<1>5. LeaveOK(h)'
  BY <1>0, <1>1, <1>2, <1>3 DEF LeaveOK
<1>6. JobOK(h)'
  BY <1>2, <1>3, <1>5 DEF JobOK
<1>7. ~Fixing(h)
  BY <1>0, <1>2 DEF Fixing
<1> QED
  BY <1>0, <1>1, <1>2, <1>3, <1>4, <1>6, <1>7, QuietStep

LEMMA VacateOK ==
    ASSUME TypeInv, TabsInv, Agreed, NEW s \in Sessions, Vacate(s), ~replaced'
    PROVE  Agreed'
<1> DEFINE h == <<s, "disconnect">>
<1>0. /\ h \in Handlers /\ h[1] = s /\ h[2] = "disconnect" /\ job \in JobFunctions
      /\ job[h].pc = "vacate" /\ NoSession \in SidsOrNone
  BY LeaveFacts, PcFacts DEF Vacate
<1>1. /\ UNCHANGED <<tab, isLeader, inbox, connected, registered, mapped>>
      /\ SetLeader(h, NoSession) /\ RollCall(h)
  BY DEF Vacate, tabVars
<1> HIDE DEF h
<1>2. job[h].op = "leave" /\ LeaveOK(h)
  BY <1>0, Kinds DEF Agreed, EventOK, JoinOK
<1>3. Aside(h) /\ job'[h].op = "leave" /\ job'[h].pc = "prune" /\ job'[h].phase = "roll"
  BY <1>0, <1>1, <1>2, RollFacts
<1>4. JobOK(h)'
  BY <1>1, <1>2, <1>3 DEF JobOK, LeaveOK
<1>5. HandlersOK' /\ \A m \in Members' : m \in Members /\ (Joining(m) => Joining(m)')
  BY <1>0, <1>1, <1>2, <1>3, <1>4, Led DEF Agreed
<1>6. Known'
  BY <1>0, <1>1, <1>3, <1>5, Vacant DEF Agreed
<1>7. Mended'
  BY <1>0, <1>3 DEF Mended, Fixing
<1> QED
  BY <1>5, <1>6, <1>7 DEF Agreed

LEMMA AuthorizeOK ==
    ASSUME TypeInv, TabsInv, Agreed, NEW s \in Sessions, Authorize(s)
    PROVE  Agreed'
<1> DEFINE h == <<s, "call">>
<1>0. /\ h \in Handlers /\ h[1] = s /\ h[2] = "call" /\ job \in JobFunctions
      /\ job[h].pc = "authorize"
  BY CallFacts DEF Authorize
<1>1. UNCHANGED <<tab, isLeader, inbox, connected, leader, registered, mapped>>
  BY DEF Authorize, tabVars, redis
<1>8. Goto(h, "ensure") \/ Begin(s, "join") \/ job' = [job EXCEPT ![h] = Idle]
  BY DEF Authorize
<1>9. Begin(s, "join") => Aside(h) /\ job'[h].op = "join" /\ job'[h].pc = "register"
  BY <1>0, BeginFacts
<1> HIDE DEF h
<1>2. job[h].op = "event" /\ EventOK(h)
  BY <1>0, Kinds DEF Agreed, LeaveOK, JoinOK
<1>4. Present => Present'
  BY <1>1 DEF Present, Active
<1>5. Aside(h) /\ JobOK(h)'
  <2>1. CASE Goto(h, "ensure")
    BY <1>0, <1>2, <2>1, GotoFacts DEF JobOK, EventOK
  <2>2. CASE Begin(s, "join")
    BY <1>0, <1>9, <2>2 DEF JobOK, JoinOK
  <2>3. CASE job' = [job EXCEPT ![h] = Idle]
    <3>1. Aside(h) /\ job'[h] = Idle
      BY <1>0, <2>3 DEF Aside, JobFunctions
    <3> QED
      BY <3>1 DEF JobOK, Idle
  <2> QED
    BY <1>8, <2>1, <2>2, <2>3
<1>7. ~Fixing(h)
  BY <1>0, <1>2 DEF Fixing
<1> QED
  BY <1>0, <1>1, <1>2, <1>4, <1>5, <1>7, QuietStep

LEMMA EnsureLeaderOK ==
    ASSUME TypeInv, TabsInv, Agreed, NEW s \in Sessions, EnsureLeader(s)
    PROVE  Agreed'
<1> DEFINE h == <<s, "call">>
<1>0. /\ h \in Handlers /\ h[1] = s /\ h[2] = "call" /\ job \in JobFunctions
      /\ job[h].pc = "ensure"
  BY CallFacts DEF EnsureLeader
<1>1. UNCHANGED <<tab, isLeader, inbox, connected, leader, registered, mapped>>
  BY DEF EnsureLeader, tabVars, redis
<1>3. /\ Aside(h) /\ job'[h].op = job[h].op /\ job'[h].phase = "ensure"
      /\ job'[h].pc = IF leader = NoSession THEN "take"
                      ELSE IF Active(leader) THEN "target" ELSE "depose"
  BY <1>0, EnsureFacts
<1> HIDE DEF h
<1>2. job[h].op = "event" /\ EventOK(h)
  BY <1>0, Kinds DEF Agreed, LeaveOK, JoinOK
<1>4. Present' <=> Present
  BY <1>1 DEF Present, Active
<1>5. EventOK(h)'
  BY <1>3, <1>4 DEF EventOK, Present
<1>6. JobOK(h)'
  BY <1>0, <1>2, <1>3, <1>5 DEF JobOK
<1>7. ~Fixing(h)
  BY <1>0, <1>2 DEF Fixing
<1> QED
  BY <1>0, <1>1, <1>2, <1>3, <1>4, <1>6, <1>7, QuietStep

LEMMA DeposeOK ==
    ASSUME TypeInv, TabsInv, Agreed, NEW s \in Sessions, Depose(s), ~replaced'
    PROVE  Agreed'
<1> DEFINE h == <<s, "call">>
<1>0. /\ h \in Handlers /\ h[1] = s /\ h[2] = "call" /\ job \in JobFunctions
      /\ job[h].pc = "depose" /\ NoSession \in SidsOrNone
  BY CallFacts, PcFacts DEF Depose
<1>1. /\ UNCHANGED <<tab, isLeader, inbox, connected, registered, mapped>>
      /\ SetLeader(h, NoSession) /\ Goto(h, "take")
  BY DEF Depose, tabVars
<1> HIDE DEF h
<1>2. job[h].op = "event" /\ EventOK(h)
  BY <1>0, Kinds DEF Agreed, LeaveOK, JoinOK
<1>3. Aside(h) /\ job'[h].op = "event" /\ job'[h].pc = "take" /\ job'[h].phase = job[h].phase
  BY <1>0, <1>1, <1>2, GotoFacts
<1>4. JobOK(h)'
  BY <1>0, <1>2, <1>3 DEF JobOK, EventOK
<1>5. HandlersOK' /\ \A m \in Members' : m \in Members /\ (Joining(m) => Joining(m)')
  BY <1>0, <1>1, <1>2, <1>3, <1>4, Led DEF Agreed
<1>6. Known'
  BY <1>0, <1>1, <1>3, <1>5, Vacant DEF Agreed
<1>7. Mended'
  BY <1>0, <1>3 DEF Mended, Fixing
<1> QED
  BY <1>5, <1>6, <1>7 DEF Agreed

LEMMA TakeOverOK ==
    ASSUME TypeInv, TabsInv, Agreed, NEW s \in Sessions, TakeOver(s), ~replaced'
    PROVE  Agreed'
<1> DEFINE h == <<s, "call">>
<1>0. /\ h \in Handlers /\ h[1] = s /\ h[2] = "call" /\ job \in JobFunctions
      /\ job[h].pc = "take" /\ s \in SidsOrNone /\ s # NoSession
  BY CallFacts, PcFacts, HandlerFacts DEF TakeOver
<1>1. /\ UNCHANGED <<tab, isLeader, inbox, connected, registered, mapped>>
      /\ SetLeader(h, s)
  BY DEF TakeOver, tabVars
<1>3. /\ Aside(h) /\ job'[h].op = job[h].op /\ job'[h].phase = job[h].phase
      /\ job'[h].pc = "announce" /\ job'[h].choice = s
  BY <1>0, TakeOverFacts
<1> HIDE DEF h
<1>2. job[h].op = "event" /\ EventOK(h)
  BY <1>0, Kinds DEF Agreed, LeaveOK, JoinOK
<1>4. leader' = s /\ Present'
  BY <1>0, <1>1, LeaderChange DEF Present, Active
<1>5. EventOK(h)'
  BY <1>0, <1>2, <1>3, <1>4 DEF EventOK
<1>6. JobOK(h)'
  BY <1>0, <1>2, <1>3, <1>5 DEF JobOK
<1>7. HandlersOK'
  BY <1>0, <1>1, <1>2, <1>3, <1>6, Led DEF Agreed
<1>8. Known'
  BY <1>0, <1>3 DEF Known, Announcing
<1>9. Mended'
  BY <1>0, <1>4 DEF Mended
<1> QED
  BY <1>7, <1>8, <1>9 DEF Agreed

LEMMA FindTargetOK ==
    ASSUME TypeInv, TabsInv, Agreed, NEW s \in Sessions, FindTarget(s)
    PROVE  Agreed'
<1> DEFINE h == <<s, "call">>
<1>0. /\ h \in Handlers /\ h[1] = s /\ h[2] = "call" /\ job \in JobFunctions
      /\ job[h].pc = "target"
  BY CallFacts DEF FindTarget
<1>1. UNCHANGED <<tab, isLeader, inbox, connected, leader, registered, mapped>>
  BY DEF FindTarget, tabVars, redis
<1>3. /\ Aside(h) /\ job'[h].op = job[h].op
      /\ Present => job'[h].pc = "forward" /\ job'[h].phase = job[h].phase
  BY <1>0, FindTargetFacts DEF Present
<1> HIDE DEF h
<1>2. job[h].op = "event" /\ EventOK(h)
  BY <1>0, Kinds DEF Agreed, LeaveOK, JoinOK
<1>4. Present /\ Present'
  BY <1>0, <1>1, <1>2 DEF EventOK, Present, Active
<1>5. EventOK(h)'
  BY <1>0, <1>2, <1>3, <1>4 DEF EventOK
<1>6. JobOK(h)'
  BY <1>0, <1>2, <1>3, <1>5 DEF JobOK
<1>7. ~Fixing(h)
  BY <1>0, <1>2 DEF Fixing
<1> QED
  BY <1>0, <1>1, <1>2, <1>3, <1>4, <1>6, <1>7, QuietStep

LEMMA ForwardOK ==
    ASSUME TypeInv, TabsInv, Agreed, NEW s \in Sessions, Forward(s)
    PROVE  Agreed'
<1> DEFINE h == <<s, "call">>
           messages == [x \in {job[h].choice} |-> "sync"]
<1>0. /\ h \in Handlers /\ h[1] = s /\ h[2] = "call" /\ job \in JobFunctions
      /\ job[h].pc = "forward"
  BY CallFacts DEF Forward
<1>1. UNCHANGED <<tab, isLeader, connected, leader, registered, mapped>> /\ Send(messages)
  BY DEF Forward, redis
<1>3. Aside(h) /\ job'[h] = Idle
  BY <1>0 DEF Forward, Aside, JobFunctions
<1>4. \A x \in DOMAIN messages : messages[x] = "sync"
  OBVIOUS
<1> HIDE DEF h, messages
<1>2. job[h].op = "event" /\ EventOK(h)
  BY <1>0, Kinds DEF Agreed, LeaveOK, JoinOK
<1>5. Present => Present'
  BY <1>1 DEF Present, Active
<1>6. JobOK(h)'
  BY <1>3 DEF JobOK, Idle
<1>7. ~Fixing(h)
  BY <1>0, <1>2 DEF Fixing
<1>8. \A m \in Members' : m \in Members /\ (Believes(m)' <=> Believes(m))
  <2> TAKE m \in Members'
  <2>1. m \in Members
    BY <1>1 DEF Members
  <2>2. m \in Sessions /\ tab[m] = "open"
    BY <2>1, MemberActive DEF Members
  <2> QED
    BY <1>1, <1>4, <2>1, <2>2, Sent
<1>9. \A g \in Handlers \ {h} : job[g].op = "leave" => g[1] \notin connected'
  BY <1>1 DEF Agreed, HandlersOK, JobOK, LeaveOK
<1> QED
  BY <1>0, <1>1, <1>2, <1>3, <1>5, <1>6, <1>7, <1>8, <1>9, Quiet DEF Agreed

-----------------------------------------------------------------------------
(* Tabs, and an hour without a call.                                       *)

\* A step of a tab, or of time, that moves no handler.
LEMMA NoHandler ==
    ASSUME TypeInv, Agreed, UNCHANGED <<job, leader>>,
           (Present => Present') \/ \A g \in Handlers : job[g] = Idle,
           \A s \in Members' : s \in Members /\ (Believes(s)' <=> Believes(s)),
           connected' = connected
    PROVE  Agreed'
<1>1. \A s \in Members' : Joining(s)' <=> Joining(s)
  BY DEF Joining
<1>2. HandlersOK'
  <2> SUFFICES ASSUME NEW g \in Handlers PROVE JobOK(g)'
    BY DEF HandlersOK
  <2>1. JobOK(g) /\ job'[g] = job[g]
    BY DEF Agreed, HandlersOK
  <2>2. job[g].op = "leave" => g[1] \notin connected'
    BY <2>1 DEF JobOK, LeaveOK
  <2> QED
    BY <1>1, <2>1, <2>2, Bystander
<1>3. Known'
  BY <1>1 DEF Agreed, Known, Announcing
<1>4. Mended'
  BY DEF Agreed, Mended, Fixing
<1> QED
  BY <1>2, <1>3, <1>4 DEF Agreed

LEMMA ConnectOK ==
    ASSUME TypeInv, TabsInv, Agreed, NEW s \in Sessions, Connect(s)
    PROVE  Agreed'
<1> DEFINE h == <<s, "call">>
<1>0. h \in Handlers /\ h[1] = s /\ h[2] = "call" /\ job \in JobFunctions
  BY CallFacts
<1>1. /\ UNCHANGED <<isLeader, inbox, leader, registered, mapped>>
      /\ tab[s] = "new" /\ tab' = [tab EXCEPT ![s] = "open"] /\ connected' = connected \cup {s}
  BY DEF Connect, redis
<1>3. Aside(h) /\ job'[h].op = "join" /\ job'[h].pc = "register"
  BY <1>0, BeginFacts DEF Connect
<1> HIDE DEF h
<1>2. job[h] = Idle
  BY <1>0, <1>1 DEF TabsInv
<1>4. Present => Present'
  BY <1>1 DEF Present, Active
<1>5. JobOK(h)'
  BY <1>0, <1>3 DEF JobOK, JoinOK
<1>6. \A m \in Members' : m \in Members /\ (Believes(m)' <=> Believes(m))
  <2>1. s \notin registered
    BY <1>1 DEF TabsInv
  <2>2. \A m \in Members' : m \in Members
    BY <1>1, <2>1 DEF Members, TypeInv, TypeOK
  <2> QED
    BY <1>1, <2>2 DEF Believes
<1>7. \A g \in Handlers \ {h} : job[g].op = "leave" => g[1] \notin connected'
  <2> TAKE g \in Handlers \ {h}
  <2>1. job[g].op = "leave" => g[1] \notin connected
    BY DEF Agreed, HandlersOK, JobOK, LeaveOK
  <2>2. job[g].op = "leave" => g[1] # s
    BY <1>1 DEF TabsInv, Idle
  <2> QED
    BY <1>1, <2>1, <2>2
<1>8. job[h].pc # "announce" /\ job[h].op # "join" /\ ~Fixing(h)
  BY <1>2 DEF Idle, Fixing
<1> QED
  BY <1>0, <1>1, <1>3, <1>4, <1>5, <1>6, <1>7, <1>8, Quiet DEF Agreed

LEMMA DisconnectOK ==
    ASSUME TypeInv, TabsInv, Agreed, NEW s \in Sessions, Disconnect(s), ~replaced'
    PROVE  Agreed'
<1> DEFINE h == <<s, "disconnect">>
<1>0. h \in Handlers /\ h[1] = s /\ h[2] = "disconnect" /\ job \in JobFunctions
  BY LeaveFacts
<1>1. /\ UNCHANGED <<tab, isLeader, inbox, leader, registered, mapped>>
      /\ s \in connected /\ connected' = connected \ {s} /\ Gone(s)
  BY DEF Disconnect, tabVars
<1>3. Aside(h) /\ job'[h].op = "leave" /\ job'[h].pc = "lookup"
  BY <1>0, BeginFacts DEF Disconnect
<1> HIDE DEF h
<1>2. job[h] = Idle
  <2>1. job[h].op \in {"none", "join", "event", "leave"} /\ JobOK(h)
    BY <1>0, JobTyped DEF Agreed, HandlersOK
  <2> QED
    BY <1>0, <1>1, <2>1 DEF JobOK, LeaveOK
<1>4. (Present => Present') \/ \A g \in Handlers \ {h} : job[g] = Idle
  <2>1. leader # s \/ \A g \in Handlers : job[g] = Idle
    BY <1>1 DEF Gone, Busy
  <2>2. leader # s => (Present => Present')
    BY <1>1 DEF Present, Active
  <2> QED
    BY <2>1, <2>2
<1>5. JobOK(h)'
  BY <1>0, <1>1, <1>3 DEF JobOK, LeaveOK
<1>6. \A m \in Members' : m \in Members /\ (Believes(m)' <=> Believes(m))
  BY <1>1 DEF Members, Believes
<1>7. \A g \in Handlers \ {h} : job[g].op = "leave" => g[1] \notin connected'
  BY <1>1 DEF Agreed, HandlersOK, JobOK, LeaveOK
<1>8. job[h].pc # "announce" /\ job[h].op # "join" /\ ~Fixing(h)
  BY <1>2 DEF Idle, Fixing
<1> QED
  BY <1>0, <1>1, <1>3, <1>4, <1>5, <1>6, <1>7, <1>8, Quiet DEF Agreed

LEMMA EditOK ==
    ASSUME TypeInv, TabsInv, Agreed, NEW s \in Sessions, Edit(s)
    PROVE  Agreed'
<1> DEFINE h == <<s, "call">>
<1>0. h \in Handlers /\ h[1] = s /\ h[2] = "call" /\ job \in JobFunctions
  BY CallFacts
<1>1. UNCHANGED <<tab, isLeader, inbox, connected, leader, registered, mapped>> /\ job[h] = Idle
  BY DEF Edit, redis
<1>2. (Present => Present') /\ \A m \in Members' : m \in Members /\ (Believes(m)' <=> Believes(m))
  BY <1>1 DEF Present, Active, Members, Believes
<1>3. CASE UNCHANGED job
  BY <1>1, <1>2, <1>3, NoHandler
<1>4. CASE Begin(s, "event")
  <2>1. Aside(h) /\ job'[h].op = "event" /\ job'[h].pc = "authorize"
    BY <1>0, <1>4, BeginFacts
  <2> HIDE DEF h
  <2>2. JobOK(h)'
    BY <1>0, <2>1 DEF JobOK, EventOK
  <2>3. job[h].pc # "announce" /\ job[h].op # "join" /\ ~Fixing(h)
    BY <1>1 DEF Idle, Fixing
  <2> QED
    BY <1>0, <1>1, <1>2, <2>1, <2>2, <2>3, QuietStep
<1> QED
  BY <1>3, <1>4 DEF Edit

LEMMA HearOK ==
    ASSUME TypeInv, TabsInv, Agreed, NEW s \in Sessions, Hear(s)
    PROVE  Agreed'
<1>1. /\ UNCHANGED <<tab, connected, registered, mapped, leader, job>>
      /\ inbox[s] # <<>> /\ inbox' = [inbox EXCEPT ![s] = Tail(@)]
      /\ \/ Head(inbox[s]) # "sync"
            /\ isLeader' = [isLeader EXCEPT ![s] = (Head(inbox[s]) = "lead")]
         \/ Head(inbox[s]) = "sync" /\ UNCHANGED isLeader
  BY DEF Hear, HearStatus, HearSync, redis
<1>2. (Present => Present') /\ Members' = Members
  BY <1>1 DEF Present, Active, Members
<1>3. \A m \in Sessions : Believes(m)' <=> Believes(m)
  <2> TAKE m \in Sessions
  <2>0. inbox[s] \in Seq({"lead", "follow", "sync"}) /\ isLeader[s] \in BOOLEAN
    BY DEF TypeInv, TypeOK
  <2>1. CASE m # s
    <3>1. inbox'[m] = inbox[m] /\ isLeader'[m] = isLeader[m]
      BY <1>1, <2>1 DEF TypeInv, TypeOK
    <3> QED
      BY <3>1 DEF Believes
  <2>2. CASE m = s
    <3>1. inbox'[s] = Tail(inbox[s])
      BY <1>1 DEF TypeInv, TypeOK
    <3>2. CASE Head(inbox[s]) = "sync"
      <4>1. isLeader'[s] = isLeader[s]
        BY <1>1, <3>2
      <4> QED
        BY <1>1, <2>0, <2>2, <3>1, <3>2, <4>1, TailWord DEF Believes
    <3>3. CASE Head(inbox[s]) # "sync"
      <4>1. isLeader'[s] = (Head(inbox[s]) = "lead")
        BY <1>1, <3>3 DEF TypeInv, TypeOK
      <4> QED
        BY <1>1, <2>0, <2>2, <3>1, <3>3, <4>1, TailWord DEF Believes
    <3> QED
      BY <3>2, <3>3
  <2> QED
    BY <2>1, <2>2
<1> QED
  BY <1>1, <1>2, <1>3, NoHandler, MemberActive

LEMMA CloseOK ==
    ASSUME TypeInv, TabsInv, Agreed, NEW s \in Sessions, Close(s)
    PROVE  Agreed'
<1>1. /\ UNCHANGED <<connected, registered, mapped, leader, job>>
      /\ tab' = [tab EXCEPT ![s] = "closed"]
      /\ isLeader' = [isLeader EXCEPT ![s] = FALSE] /\ inbox' = [inbox EXCEPT ![s] = <<>>]
  BY DEF Close, redis
<1>2. Present => Present'
  BY <1>1 DEF Present, Active
<1>3. \A m \in Members' : m \in Members /\ m # s
  BY <1>1 DEF Members, TypeInv, TypeOK
<1>4. \A m \in Members' : Believes(m)' <=> Believes(m)
  <2> TAKE m \in Members'
  <2>1. m \in Sessions /\ m # s
    BY <1>3, MemberActive
  <2>2. inbox'[m] = inbox[m] /\ isLeader'[m] = isLeader[m]
    BY <1>1, <2>1 DEF TypeInv, TypeOK
  <2> QED
    BY <2>2 DEF Believes
<1> QED
  BY <1>1, <1>2, <1>3, <1>4, NoHandler

LEMMA ExpireSessionOK ==
    ASSUME TypeInv, TabsInv, Agreed, NEW s \in Sessions, ExpireSession(s), ~replaced'
    PROVE  Agreed'
<1>1. /\ UNCHANGED <<tab, isLeader, inbox, connected, registered, leader, job>>
      /\ mapped' = mapped \ {s} /\ Gone(s)
  BY DEF ExpireSession, tabVars
<1>2. (Present => Present') \/ \A g \in Handlers : job[g] = Idle
  BY <1>1 DEF Gone, Busy, Present, Active
<1>3. \A m \in Members' : m \in Members /\ (Believes(m)' <=> Believes(m))
  BY <1>1 DEF Members, Believes
<1> QED
  BY <1>1, <1>2, <1>3, NoHandler

LEMMA ExpireRoomOK ==
    ASSUME TypeInv, TabsInv, Agreed, ExpireRoom
    PROVE  Agreed'
<1>1. \A g \in Handlers : job'[g] = Idle
  BY DEF ExpireRoom, Settled
<1>2. HandlersOK'
  <2>1. \A g \in Handlers : job'[g].op = "none"
    BY <1>1 DEF Idle
  <2> QED
    BY <1>1, <2>1 DEF HandlersOK, JobOK
<1>3. Members' = {}
  BY DEF ExpireRoom, Members
<1> QED
  BY <1>2, <1>3 DEF Agreed, Known, Mended

LEMMA TabsStep ==
    ASSUME TypeInv, TabsInv, Next
    PROVE  TabsInv'
<1>0. job \in JobFunctions
  BY DEF TypeInv, TypeOK, JobFunctions
<1>1. ASSUME NEW h \in Handlers, Aside(h), job[h].pc # "idle", UNCHANGED <<tab, connected>>,
             registered' \subseteq registered \cup {h[1]}
      PROVE  TabsInv'
  <2>1. job[h] # Idle
    BY <1>1 DEF Idle
  <2>2. tab[h[1]] # "new"
    BY <2>1, <1>1 DEF TabsInv
  <2>3. \A g \in Handlers : job'[g] # Idle => tab'[g[1]] # "new"
    BY <1>1, <2>2 DEF TabsInv, Aside
  <2>4. \A s \in Sessions : tab'[s] = "new" => s \notin registered'
    BY <1>1, <2>2 DEF TabsInv
  <2>5. \A s \in Sessions : tab'[s] = "open" => s \in connected'
    BY <1>1 DEF TabsInv
  <2> QED
    BY <2>3, <2>4, <2>5 DEF TabsInv
<1>2. ASSUME NEW h \in Handlers, Shared(h) PROVE TabsInv'
  <2>1. UNCHANGED <<tab, connected>> /\ registered' \subseteq registered
    BY <1>2 DEF Shared, Prune, Check, Drop, Elect, Appoint, Announce, tabVars,
                redis
  <2> QED
    BY <1>1, <1>2, <2>1, SharedAside
<1>3. ASSUME NEW s \in Sessions, Join(s) \/ Event(s) PROVE TabsInv'
  <2>1. UNCHANGED <<tab, connected>> /\ registered' \subseteq registered \cup {s}
    BY <1>3 DEF Join, Event, Register, MapSession, FindLeader, Evict, Unseat, Claim, ReadAgain,
                Tell, Authorize,
       EnsureLeader, Depose, TakeOver, FindTarget, Forward, tabVars, redis
  <2>2. <<s, "call">> \in Handlers /\ <<s, "call">>[1] = s
    BY CallFacts
  <2> QED
    BY <1>1, <1>3, <2>1, <2>2, CallAside
<1>4. ASSUME NEW s \in Sessions, Leave(s) PROVE TabsInv'
  <2>1. UNCHANGED <<tab, connected>> /\ registered' \subseteq registered
    BY <1>4 DEF Leave, LookUp, Forget, Resign, Vacate, tabVars, redis
  <2>2. <<s, "disconnect">> \in Handlers
    BY LeaveFacts
  <2> QED
    BY <1>1, <1>4, <2>1, <2>2, LeaveAside
<1>5. ASSUME NEW s \in Sessions, Connect(s) PROVE TabsInv'
  <2>1. Aside(<<s, "call">>) /\ <<s, "call">>[1] = s
    BY <1>0, <1>5, BeginFacts DEF Connect
  <2>2. /\ tab' = [tab EXCEPT ![s] = "open"] /\ connected' = connected \cup {s}
        /\ registered' = registered
    BY <1>5 DEF Connect, redis
  <2>3. \A g \in Handlers : g[1] \in Sessions
    BY DEF Handlers
  <2> QED
    BY <2>1, <2>2, <2>3 DEF TabsInv, Aside, TypeInv, TypeOK
<1>6. ASSUME NEW s \in Sessions, Disconnect(s) PROVE TabsInv'
  <2>1. Aside(<<s, "disconnect">>) /\ <<s, "disconnect">>[1] = s
    BY <1>0, <1>6, BeginFacts DEF Disconnect
  <2>2. /\ tab' = tab /\ connected' = connected \ {s} /\ tab[s] = "closed"
        /\ registered' = registered
    BY <1>6 DEF Disconnect, tabVars
  <2>3. \A g \in Handlers : g[1] \in Sessions
    BY DEF Handlers
  <2> QED
    BY <2>1, <2>2, <2>3 DEF TabsInv, Aside
<1>7. ASSUME NEW s \in Sessions, Edit(s) PROVE TabsInv'
  <2>1. UNCHANGED <<tab, connected, registered>> /\ tab[s] = "open"
    BY <1>7 DEF Edit, redis
  <2>2. CASE UNCHANGED job
    BY <2>1, <2>2 DEF TabsInv
  <2>3. CASE Begin(s, "event")
    <3>1. Aside(<<s, "call">>) /\ <<s, "call">>[1] = s
      BY <1>0, <2>3, BeginFacts
    <3> QED
      BY <2>1, <3>1 DEF TabsInv, Aside
  <2> QED
    BY <1>7, <2>2, <2>3 DEF Edit
<1>8. ASSUME NEW s \in Sessions, Hear(s) \/ ExpireSession(s) PROVE TabsInv'
  BY <1>8 DEF Hear, HearStatus, HearSync, ExpireSession, tabVars, redis,
              TabsInv
<1>9. ASSUME NEW s \in Sessions, Close(s) PROVE TabsInv'
  <2>1. \A g \in Handlers : g[1] \in Sessions
    BY DEF Handlers
  <2> QED
    BY <1>9, <2>1 DEF Close, redis, TabsInv, TypeInv, TypeOK
<1>10. CASE ExpireRoom
  BY <1>10 DEF ExpireRoom, tabVars, TabsInv
<1> QED
  BY <1>2, <1>3, <1>4, <1>5, <1>6, <1>7, <1>8, <1>9, <1>10,
     CollabLeaderAssumption DEF Next

LEMMA KeptStep ==
    ASSUME TypeInv, TabsInv, Kept, Next
    PROVE  Kept'
<1>0. /\ job \in JobFunctions /\ Idle.pc = "idle"
      /\ \A s \in Sessions : <<s, "call">> \in Handlers /\ <<s, "disconnect">> \in Handlers
  BY HandlerFacts DEF TypeInv, TypeOK, JobFunctions, Idle
\* A handler that forgets nothing, and is past the registration of its session.
<1>1. ASSUME NEW h \in Handlers, Aside(h), job[h].pc \notin {"idle", "register", "map"},
             UNCHANGED <<tab, registered, mapped, lapsed>>
      PROVE  Kept'
  <2> SUFFICES ASSUME NEW m \in Sessions, tab[m] = "open"
               PROVE  /\ job'[<<m, "disconnect">>] = Idle
                      /\ \/ m \in lapsed
                         \/ m \in registered /\ m \in mapped
                         \/ job'[<<m, "call">>].pc = "register"
                         \/ job'[<<m, "call">>].pc = "map" /\ m \in registered
    BY <1>1 DEF Kept
  <2>1. job[<<m, "disconnect">>] = Idle /\ h # <<m, "disconnect">>
    BY <1>0, <1>1 DEF Kept
  <2>2. job'[<<m, "disconnect">>] = Idle
    BY <1>0, <1>1, <2>1 DEF Aside
  <2> QED
    BY <1>0, <1>1, <2>2 DEF Kept, Aside
<1>2. ASSUME NEW h \in Handlers, Shared(h) PROVE Kept'
  <2>0. Aside(h) /\ job[h].pc \notin {"idle", "register", "map"}
    BY <1>2, SharedAside DEF Shared, Prune, Check, Drop, Elect, Appoint, Announce
  <2>1. CASE Prune(h)
    <3> SUFFICES ASSUME NEW m \in Sessions, tab'[m] = "open"
                 PROVE  /\ job'[<<m, "disconnect">>] = Idle
                        /\ \/ m \in lapsed'
                           \/ m \in registered' /\ m \in mapped'
                           \/ job'[<<m, "call">>].pc = "register"
                           \/ job'[<<m, "call">>].pc = "map" /\ m \in registered'
      BY DEF Kept
    <3>1. /\ tab[m] = "open" /\ job[<<m, "disconnect">>] = Idle /\ h # <<m, "disconnect">>
      BY <1>0, <2>0, <2>1 DEF Prune, tabVars, Kept
    <3>2. job'[<<m, "disconnect">>] = Idle
      BY <1>0, <2>0, <3>1 DEF Aside
    <3>3. h # <<m, "call">> => job'[<<m, "call">>] = job[<<m, "call">>]
      BY <1>0, <2>0 DEF Aside
    <3>4. /\ registered' = {s \in registered : Active(s)}
          /\ mapped' = mapped \ (registered \ registered')
          /\ \A s \in Sessions : s \in lapsed' <=>
                s \in lapsed \/ (s \in registered \ registered' /\ tab[s] = "open")
      BY <2>1 DEF Prune, Drops
    <3> QED
      BY <2>0, <3>1, <3>2, <3>3, <3>4 DEF Kept
  <2>2. CASE ~Prune(h)
    <3>1. UNCHANGED <<tab, registered, mapped, lapsed>>
      BY <1>2, <2>2 DEF Shared, Check, Drop, Elect, Appoint, Announce, tabVars, redis
    <3> QED
      BY <1>1, <2>0, <3>1
  <2> QED
    BY <2>1, <2>2
<1>3. ASSUME NEW s \in Sessions, Join(s) \/ Event(s) PROVE Kept'
  <2> DEFINE h == <<s, "call">>
  <2>0. h \in Handlers /\ Aside(h) /\ job[h].pc # "idle"
    BY <1>0, <1>3, CallAside
  <2>1. \A m \in Sessions : job'[<<m, "disconnect">>] = job[<<m, "disconnect">>]
    BY <1>0, <2>0 DEF Aside
  <2>2. \A m \in Sessions \ {s} : job'[<<m, "call">>] = job[<<m, "call">>]
    BY <1>0, <2>0 DEF Aside
  <2> HIDE DEF h
  <2>3. CASE Register(s)
    <3>1. job'[h].pc = "map"
      BY <1>0, <2>0, <2>3, GotoFacts, PcFacts DEF Register, h
    <3>2. /\ tab' = tab /\ registered' = registered \cup {s} /\ mapped' = mapped
          /\ lapsed' = lapsed \ {s}
      BY <2>3 DEF Register, tabVars
    <3> QED
      BY <2>1, <2>2, <3>1, <3>2 DEF Kept, h
  <2>4. CASE MapSession(s)
    <3>1. job[h].pc = "map"
      BY <2>4 DEF MapSession, h
    <3>2. UNCHANGED <<tab, registered, lapsed>> /\ mapped' = mapped \cup {s}
      BY <2>4 DEF MapSession, tabVars
    <3> QED
      BY <2>1, <2>2, <3>1, <3>2 DEF Kept, h
  <2>5. CASE Evict(s)
    <3>1. job[h].pc = "evict"
      BY <2>5 DEF Evict, h
    <3>2. /\ tab' = tab /\ registered' = registered \ {job[h].seen}
          /\ mapped' = mapped \ {job[h].seen}
          /\ \A m \in Sessions : m \in lapsed' <=>
                m \in lapsed \/ (m = job[h].seen /\ tab[m] = "open")
      BY <2>5 DEF Evict, Drops, tabVars, h
    <3> QED
      BY <2>1, <2>2, <3>1, <3>2 DEF Kept, h
  <2>6. CASE Authorize(s) /\ Begin(s, "join")
    <3>1. job'[h].pc = "register"
      BY <1>0, <2>6, BeginFacts DEF h
    <3>2. UNCHANGED <<tab, registered, mapped, lapsed>>
      BY <2>6 DEF Authorize, tabVars, redis
    <3> QED
      BY <2>1, <2>2, <3>1, <3>2 DEF Kept, h
  <2>7. CASE ~Register(s) /\ ~MapSession(s) /\ ~Evict(s) /\ ~(Authorize(s) /\ Begin(s, "join"))
    <3>1. UNCHANGED <<tab, registered, mapped, lapsed>>
      BY <1>3, <2>7 DEF Join, Event, FindLeader, Unseat, Claim, ReadAgain, Tell, Authorize,
         EnsureLeader, Depose, TakeOver, FindTarget, Forward, tabVars, redis
    <3>2. job[h].pc \notin {"register", "map"}
      BY <1>3, <2>7 DEF Join, Event, FindLeader, Unseat, Claim, ReadAgain, Tell, Authorize,
         EnsureLeader, Depose, TakeOver, FindTarget, Forward, h
    <3> QED
      BY <1>1, <2>0, <3>1, <3>2
  <2> QED
    BY <2>3, <2>4, <2>5, <2>6, <2>7
<1>4. ASSUME NEW s \in Sessions, Leave(s) PROVE Kept'
  <2> DEFINE h == <<s, "disconnect">>
  <2>0. h \in Handlers /\ Aside(h) /\ job[h].pc # "idle"
    BY <1>0, <1>4, LeaveAside
  <2>1. tab' = tab /\ tab[s] # "open"
    BY <1>0, <1>4, <2>0 DEF Kept, Leave, LookUp, Forget, Resign, Vacate, tabVars
  <2>2. \A m \in Sessions \ {s} :
            /\ job'[<<m, "call">>] = job[<<m, "call">>]
            /\ job'[<<m, "disconnect">>] = job[<<m, "disconnect">>]
    BY <1>0, <2>0 DEF Aside
  <2>3. /\ lapsed' = lapsed
        /\ \A m \in Sessions \ {s} :
            (m \in registered => m \in registered') /\ (m \in mapped => m \in mapped')
    BY <1>4 DEF Leave, LookUp, Forget, Resign, Vacate, redis
  <2> QED
    BY <2>1, <2>2, <2>3 DEF Kept
<1>5. ASSUME NEW s \in Sessions, Connect(s) PROVE Kept'
  <2> DEFINE h == <<s, "call">>
  <2>1. Aside(h) /\ job'[h].pc = "register" /\ job[<<s, "disconnect">>] = Idle
    BY <1>0, <1>5, BeginFacts DEF Connect, TabsInv
  <2>2. tab' = [tab EXCEPT ![s] = "open"] /\ UNCHANGED <<registered, mapped, lapsed>>
    BY <1>5 DEF Connect, redis
  <2>3. /\ \A m \in Sessions : job'[<<m, "disconnect">>] = job[<<m, "disconnect">>]
        /\ \A m \in Sessions \ {s} : /\ job'[<<m, "call">>] = job[<<m, "call">>]
                                     /\ tab'[m] = tab[m]
    BY <1>0, <2>1, <2>2 DEF Aside, TypeInv, TypeOK
  <2> QED
    BY <2>1, <2>2, <2>3 DEF Kept
<1>6. ASSUME NEW s \in Sessions, Disconnect(s) PROVE Kept'
  <2>1. Aside(<<s, "disconnect">>)
    BY <1>0, <1>6, BeginFacts DEF Disconnect
  <2>2. UNCHANGED <<tab, registered, mapped, lapsed>> /\ tab[s] = "closed"
    BY <1>6 DEF Disconnect, tabVars
  <2>3. \A m \in Sessions \ {s} :
            /\ job'[<<m, "call">>] = job[<<m, "call">>]
            /\ job'[<<m, "disconnect">>] = job[<<m, "disconnect">>]
    BY <1>0, <2>1 DEF Aside
  <2> QED
    BY <2>2, <2>3 DEF Kept
<1>7. ASSUME NEW s \in Sessions, Edit(s) PROVE Kept'
  <2>1. UNCHANGED <<tab, registered, mapped, lapsed>> /\ job[<<s, "call">>] = Idle
    BY <1>7 DEF Edit, redis
  <2>2. CASE UNCHANGED job
    BY <2>1, <2>2 DEF Kept
  <2>3. CASE Begin(s, "event")
    <3>1. Aside(<<s, "call">>)
      BY <1>0, <2>3, BeginFacts
    <3>2. /\ \A m \in Sessions : job'[<<m, "disconnect">>] = job[<<m, "disconnect">>]
          /\ \A m \in Sessions \ {s} : job'[<<m, "call">>] = job[<<m, "call">>]
      BY <1>0, <3>1 DEF Aside
    <3> QED
      BY <1>0, <2>1, <3>2 DEF Kept
  <2> QED
    BY <1>7, <2>2, <2>3 DEF Edit
<1>8. ASSUME NEW s \in Sessions, Hear(s) \/ ExpireSession(s) PROVE Kept'
  BY <1>8 DEF Hear, HearStatus, HearSync, ExpireSession, tabVars, redis, Kept
<1>9. ASSUME NEW s \in Sessions, Close(s) PROVE Kept'
  BY <1>9 DEF Close, redis, Kept, TypeInv, TypeOK
<1>10. CASE ExpireRoom
  BY <1>0, <1>10 DEF ExpireRoom, Settled, tabVars, Kept
<1> QED
  BY <1>2, <1>3, <1>4, <1>5, <1>6, <1>7, <1>8, <1>9, <1>10,
     CollabLeaderAssumption DEF Next

LEMMA AgreedStep ==
    ASSUME TypeInv, TabsInv, Agreed, Next, ~replaced'
    PROVE  Agreed'
<1>1. ASSUME NEW h \in Handlers, Shared(h) PROVE Agreed'
  BY <1>1, PruneOK, CheckOK, DropOK, ElectOK, AppointOK, AnnounceOK DEF Shared
<1>2. ASSUME NEW s \in Sessions, Join(s) PROVE Agreed'
  BY <1>2, RegisterOK, FindLeaderOK, EvictOK, UnseatOK, ClaimOK, ReadAgainOK,
     TellOK DEF Join
<1>3. ASSUME NEW s \in Sessions, Leave(s) PROVE Agreed'
  BY <1>3, LookUpOK, ForgetOK, ResignOK, VacateOK DEF Leave
<1>4. ASSUME NEW s \in Sessions, Event(s) PROVE Agreed'
  BY <1>4, AuthorizeOK, EnsureLeaderOK, DeposeOK, TakeOverOK, FindTargetOK,
     ForwardOK DEF Event
<1>5. ASSUME NEW s \in Sessions,
             Connect(s) \/ Hear(s) \/ Disconnect(s) \/ Edit(s) \/ Close(s) \/ ExpireSession(s)
      PROVE  Agreed'
  BY <1>5, ConnectOK, HearOK, DisconnectOK, EditOK, CloseOK, ExpireSessionOK
<1> QED
  BY <1>1, <1>2, <1>3, <1>4, <1>5, ExpireRoomOK,
     CollabLeaderAssumption DEF Next

LEMMA ReplacedStays ==
    ASSUME TypeInv, Next, replaced
    PROVE  replaced'
<1>1. ASSUME NEW h \in Handlers, Shared(h) PROVE replaced'
  BY <1>1 DEF Shared, Prune, Check, Drop, Elect, Appoint, Announce, SetLeader,
              redis
<1>2. ASSUME NEW s \in Sessions, Join(s) PROVE replaced'
  BY <1>2 DEF Join, Register, MapSession, FindLeader, Evict, Unseat, Claim, ReadAgain, Tell,
              SetLeader, redis
<1>3. ASSUME NEW s \in Sessions, Leave(s) PROVE replaced'
  BY <1>3 DEF Leave, LookUp, Forget, Resign, Vacate, SetLeader, redis
<1>4. ASSUME NEW s \in Sessions, Event(s) PROVE replaced'
  BY <1>4 DEF Event, Authorize, EnsureLeader, Depose, TakeOver, FindTarget,
              Forward, SetLeader, redis
<1>5. ASSUME NEW s \in Sessions,
             Connect(s) \/ Hear(s) \/ Disconnect(s) \/ Edit(s) \/ Close(s) \/ ExpireSession(s)
      PROVE  replaced'
  BY <1>5 DEF Connect, Hear, HearStatus, HearSync, Disconnect, Edit, Close,
              ExpireSession, Gone, redis
<1>6. CASE ExpireRoom
  BY <1>6 DEF ExpireRoom
<1> QED
  BY <1>1, <1>2, <1>3, <1>4, <1>5, <1>6, CollabLeaderAssumption DEF Next

\* In every reachable state the server knows the open tabs that it has not forgotten
\* (Kept), and, unless a leader went while a handler ran, what the handlers rely on
\* holds and a disagreement between the server and the sessions it has registered
\* does not outlive them (Agreed).
THEOREM LeaderInvariance == Spec => []LeaderInv
<1>1. Init => LeaderInv
  <2> SUFFICES ASSUME Init PROVE LeaderInv
    OBVIOUS
  <2>1. TypeInv
    BY TypeInit
  <2>2. TabsInv
    <3>1. \A h \in Handlers : job[h] = Idle
      BY DEF Init
    <3> QED
      BY <3>1 DEF Init, TabsInv
  <2>3. \A h \in Handlers : job[h] = Idle
    BY DEF Init
  <2>4. HandlersOK
    <3>1. \A h \in Handlers : job[h].op = "none"
      BY <2>3 DEF Idle
    <3> QED
      BY <2>3, <3>1 DEF HandlersOK, JobOK
  <2>5. Members = {} /\ Kept
    BY DEF Init, Members, Kept
  <2>6. Known /\ Mended
    BY <2>5 DEF Known, Mended
  <2> QED
    BY <2>1, <2>2, <2>4, <2>5, <2>6 DEF LeaderInv, Agreed
<1>2. LeaderInv /\ [Next]_vars => LeaderInv'
  <2> SUFFICES ASSUME LeaderInv, [Next]_vars PROVE LeaderInv'
    OBVIOUS
  <2>1. TypeInv'
    BY TypeStep DEF LeaderInv
  <2>2. CASE Next
    <3>1. TabsInv' /\ Kept'
      BY <2>2, TabsStep, KeptStep DEF LeaderInv
    <3>2. replaced' \/ Agreed'
      BY <2>2, AgreedStep, ReplacedStays DEF LeaderInv
    <3> QED
      BY <2>1, <3>1, <3>2 DEF LeaderInv
  <2>3. CASE UNCHANGED vars
    <3>1. TabsInv' /\ Kept'
      BY <2>3 DEF LeaderInv, TabsInv, Kept, vars, tabVars, redis
    <3>2. Agreed => Agreed'
      <4>1. UNCHANGED <<tab, isLeader, inbox, connected, registered, mapped, leader, job>>
        BY <2>3 DEF vars, tabVars, redis
      <4>2. Present => Present'
        BY <4>1 DEF Present, Active
      <4>3. \A s \in Members' : s \in Members /\ (Believes(s)' <=> Believes(s))
        BY <4>1 DEF Members, Believes
      <4> QED
        BY <4>1, <4>2, <4>3, NoHandler DEF LeaderInv
    <3> QED
      BY <2>1, <2>3, <3>1, <3>2 DEF LeaderInv, vars, redis
  <2> QED
    BY <2>2, <2>3
<1> QED
  BY <1>1, <1>2, PTL DEF Spec

\* When the handlers are done and the tabs have heard, the tab that the server
\* takes for the leader is, of the tabs it has not forgotten, the one that takes
\* itself for it, and a room with such a tab in it has a leader (get_or_set_leader,
\* handle_leader_disconnect, broadcast_online_users, _ensure_leader).
THEOREM OneLeaderElected == Spec => []OneLeader
<1>1. LeaderInv => OneLeader
  <2> SUFFICES ASSUME LeaderInv, ~replaced, Settled PROVE LeaderKnows /\ SomebodyLeads
    BY DEF OneLeader, LeaderKnows, SomebodyLeads
  <2>0. TypeInv /\ TabsInv /\ Kept /\ Known /\ Mended
    BY DEF LeaderInv, Agreed
  <2>1. \A h \in Handlers : ~Announcing(h) /\ ~Fixing(h)
    BY DEF Settled, Announcing, Fixing, Idle
  <2>2. \A s \in Tabs : s \in Members
    <3> SUFFICES ASSUME NEW s \in Sessions, tab[s] = "open", s \notin lapsed
                 PROVE  s \in registered /\ s \in mapped
      BY DEF Tabs, Members
    <3>0. <<s, "call">> \in Handlers
      BY HandlerFacts
    <3>1. job[<<s, "call">>].pc = "idle"
      BY <3>0 DEF Settled, Idle
    <3> QED
      BY <2>0, <3>1 DEF Kept
  <2>3. ASSUME NEW s \in Members PROVE isLeader[s] <=> leader = s
    <3>1. s \in Sessions /\ <<s, "call">> \in Handlers
      BY <2>0, HandlerFacts DEF Members, TypeInv, TypeOK
    <3>2. ~Joining(s)
      BY <3>1 DEF Settled, Joining, Idle
    <3>3. Believes(s) <=> leader = s
      BY <2>0, <2>1, <3>2 DEF Known
    <3>4. inbox[s] = <<>>
      BY <3>1 DEF Settled
    <3>5. Believes(s) <=> isLeader[s]
      BY <3>4 DEF Believes, LastWord
    <3> QED
      BY <3>3, <3>5
  <2> QED
    BY <2>0, <2>1, <2>2, <2>3 DEF LeaderKnows, SomebodyLeads, Mended
<1> QED
  BY <1>1, LeaderInvariance, PTL
=============================================================================
