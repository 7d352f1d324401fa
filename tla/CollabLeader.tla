----------------------------- MODULE CollabLeader -----------------------------
(***************************************************************************)
(* Which tab saves a workflow that several tabs edit together (dify,       *)
(* api/services/workflow_collaboration_service.py; the tab's side is       *)
(* web/app/components/workflow/collaboration/core/collaboration-manager.ts *)
(* and use-nodes-sync-draft.ts).                                           *)
(*                                                                         *)
(* A session is one connection of a tab; a tab that reconnects is another  *)
(* session.  The server keeps its sessions and the leader in Redis.  Its   *)
(* handlers run beside one another and a step is about one call to Redis;  *)
(* is_session_active, delete_session and the loop of a prune are part of   *)
(* one step.  What a handler emits reaches a tab in order.                 *)
(***************************************************************************)
EXTENDS Naturals, Sequences, FiniteSets

CONSTANTS
    Sessions,  \* connections of tabs to the room of a workflow
    NoSession,
    Editing,   \* bound: the sessions that edit, each once
    Closing,   \* bound: the sessions whose tab may be closed
    Expiring,  \* bound: the sessions that may be idle for an hour
    MaxHandlers \* bound: the handlers under way at once

ASSUME CollabLeaderAssumption ==
    /\ NoSession \notin Sessions
    /\ MaxHandlers \in Nat \ {0}
    /\ Editing \subseteq Sessions /\ Closing \subseteq Sessions /\ Expiring \subseteq Sessions

VARIABLES
    tab,        \* what became of a session's tab: new, open, closed
    isLeader,   \* what each tab believes
    inbox,      \* what is on its way to each tab
    edited,     \* sessions that have edited
    unheard,    \* history: sessions whose request for a save no leader has heard
    connected,  \* the sockets the server knows
    registered, \* workflow_online_users: the fields of the hash
    mapped,     \* ws_sid_map
    leader,     \* workflow_leader
    job,        \* the handlers under way
    lapsed,     \* history: open tabs that the server forgot, until they join again:
                \* the key expired, or another tab's handler removed the session
    replaced    \* history: a leader went while a handler ran, or before it was
                \* appointed, or came while one was about to announce another

tabVars == <<tab, isLeader, inbox, edited, unheard>>
redis == <<registered, mapped, leader, lapsed, replaced>>
vars == <<tabVars, connected, redis, job>>

\* The handler of a session's call, user_connect or collaboration_event, and
\* that of its disconnect, which may overlap.
Handlers == Sessions \X {"call", "disconnect"}
SidsOrNone == Sessions \cup {NoSession}
Phases == {"none", "join", "leave", "roll", "ensure", "request"}
Pcs == {"idle", "register", "map", "find", "evict", "unseat", "claim", "reread", "tell",
        "lookup", "forget", "resign", "vacate", "prune", "check", "drop", "elect", "appoint", "announce",
        "authorize", "ensure", "depose", "take", "target", "forward"}
Jobs == [op : {"none", "join", "event", "leave"}, pc : Pcs, phase : Phases,
         seen : SidsOrNone, choice : SidsOrNone, users : SUBSET Sessions, leads : BOOLEAN]
Idle == [op |-> "none", pc |-> "idle", phase |-> "none",
         seen |-> NoSession, choice |-> NoSession, users |-> {}, leads |-> FALSE]

TypeOK ==
    /\ tab \in [Sessions -> {"new", "open", "closed"}]
    /\ isLeader \in [Sessions -> BOOLEAN]
    /\ inbox \in [Sessions -> Seq({"lead", "follow", "sync"})]
    /\ edited \subseteq Sessions /\ unheard \subseteq Sessions
    /\ connected \subseteq Sessions /\ registered \subseteq Sessions /\ mapped \subseteq Sessions
    /\ leader \in SidsOrNone
    /\ job \in [Handlers -> Jobs]
    /\ lapsed \subseteq Sessions /\ replaced \in BOOLEAN

Init ==
    /\ tab = [s \in Sessions |-> "new"]
    /\ isLeader = [s \in Sessions |-> FALSE]
    /\ inbox = [s \in Sessions |-> <<>>]
    /\ edited = {} /\ unheard = {}
    /\ connected = {} /\ registered = {} /\ mapped = {}
    /\ leader = NoSession
    /\ job = [h \in Handlers |-> Idle]
    /\ lapsed = {} /\ replaced = FALSE

\* is_session_active
Active(s) == s \in connected \cap registered \cap mapped

Settled ==
    /\ \A h \in Handlers : job[h] = Idle
    /\ \A s \in Sessions : inbox[s] = <<>>

Room == Cardinality({h \in Handlers : job[h] # Idle}) < MaxHandlers

Begin(s, op) ==
    job' = [job EXCEPT ![<<s, IF op = "leave" THEN "disconnect" ELSE "call">>] =
        [Idle EXCEPT !.op = op,
                     !.pc = CASE op = "join" -> "register" [] op = "event" -> "authorize"
                              [] op = "leave" -> "lookup"]]

Goto(h, pc) == job' = [job EXCEPT ![h].pc = pc]

\* broadcast_online_users: the second half of a join and of a disconnect.
RollCall(h) == job' = [job EXCEPT ![h].pc = "prune", ![h].phase = "roll",
                                  ![h].seen = NoSession, ![h].choice = NoSession]

\* After the roll a join tells its session the outcome; a disconnect is over.
Over(h) == job' = [job EXCEPT ![h] =
    IF @.op = "join" THEN [Idle EXCEPT !.op = "join", !.pc = "tell", !.leads = job[h].leads]
                     ELSE Idle]

Busy(handlers) == \E h \in handlers : job[h] # Idle

SetLeader(h, s) ==
    /\ leader' = s
    /\ replaced' = (\/ replaced
                    \/ leader \notin {NoSession, s} /\ (Active(leader) \/ Busy(Handlers \ {h}))
                    \/ s # NoSession /\ ~Active(s)
                    \/ leader # s /\ \E g \in Handlers \ {h} : job[g].pc = "announce")

\* The session is gone, or its mapping is: it is not active any more.
Gone(s) == replaced' = (replaced \/ (leader = s /\ Busy(Handlers)))

\* Sessions that a handler removes, of tabs that may be open all the same.
Drops(sessions) ==
    lapsed' = lapsed \cup {s \in sessions \cap Sessions : tab[s] = "open"}

Send(messages) ==
    inbox' = [s \in Sessions |->
        IF s \in DOMAIN messages /\ tab[s] = "open"
        THEN Append(inbox[s], messages[s]) ELSE inbox[s]]

-----------------------------------------------------------------------------
(* Tabs.                                                                   *)

\* socket_connect, and the user_connect the tab sends at once.
Connect(s) ==
    /\ tab[s] = "new"
    /\ Room
    /\ tab' = [tab EXCEPT ![s] = "open"]
    /\ connected' = connected \cup {s}
    /\ Begin(s, "join")
    /\ UNCHANGED <<isLeader, inbox, edited, unheard, redis>>

\* Asked now, for a save that should be heard of: nothing else is under way, the
\* server knows the session, and no tab is gone that it takes for the leader.
Counts(s) ==
    Settled /\ Active(s) /\ (leader = NoSession \/ tab[leader] = "open")

\* performSync: the leader saves the graph; a follower asks for it.
Edit(s) ==
    /\ tab[s] = "open" /\ s \notin edited
    /\ Room
    /\ job[<<s, "call">>] = Idle
    /\ edited' = edited \cup {s}
    /\ IF isLeader[s]
       THEN UNCHANGED <<unheard, job>>
       ELSE /\ unheard' = IF Counts(s) THEN unheard \cup {s} ELSE unheard
            /\ Begin(s, "event")
    /\ UNCHANGED <<tab, isLeader, inbox, connected, redis>>

HearStatus(s) ==
    /\ inbox[s] # <<>> /\ Head(inbox[s]) # "sync"
    /\ isLeader' = [isLeader EXCEPT ![s] = (Head(inbox[s]) = "lead")]
    /\ inbox' = [inbox EXCEPT ![s] = Tail(@)]
    /\ UNCHANGED <<tab, edited, unheard, connected, redis, job>>

\* A tab that does not think it leads ignores the request.  One that does calls
\* doSyncWorkflowDraft, which says nothing when it does not save (nodes that are
\* read-only, a graph that is not loaded): what is modelled is that it hears.
HearSync(s) ==
    /\ inbox[s] # <<>> /\ Head(inbox[s]) = "sync"
    /\ unheard' = IF isLeader[s] THEN {} ELSE unheard
    /\ inbox' = [inbox EXCEPT ![s] = Tail(@)]
    /\ UNCHANGED <<tab, isLeader, edited, connected, redis, job>>

\* A tab is closed or loses its connection.  What was on its way to a leader is
\* not counted ...
Close(s) ==
    /\ tab[s] = "open"
    /\ tab' = [tab EXCEPT ![s] = "closed"]
    /\ isLeader' = [isLeader EXCEPT ![s] = FALSE]
    /\ inbox' = [inbox EXCEPT ![s] = <<>>]
    /\ unheard' = IF isLeader[s] THEN {} ELSE unheard \ {s}
    /\ UNCHANGED <<edited, connected, redis, job>>

\* ... and the server notices, at once or by the silence.
Disconnect(s) ==
    /\ tab[s] = "closed" /\ s \in connected
    /\ Room
    /\ connected' = connected \ {s}
    /\ Begin(s, "leave")
    /\ Gone(s)
    /\ UNCHANGED <<tabVars, registered, mapped, leader, lapsed>>

-----------------------------------------------------------------------------
(* user_connect.                                                           *)

\* set_session_info: the hash, and then the key.
Register(s) ==
    LET h == <<s, "call">> IN
    /\ job[h].pc = "register"
    /\ registered' = registered \cup {s}
    /\ lapsed' = lapsed \ {s}
    /\ Goto(h, "map")
    /\ UNCHANGED <<tabVars, connected, mapped, leader, replaced>>

\* Mutation: the leader is mapped instead of the session.
MapSession_Leader(s) ==
    LET h == <<s, "call">> IN
    /\ job[h].pc = "map"
    /\ mapped' = mapped \cup {leader}
    /\ Goto(h, "find")
    /\ UNCHANGED <<tabVars, connected, registered, leader, lapsed, replaced>>

MapSession(s) ==
    LET h == <<s, "call">> IN
    /\ job[h].pc = "map"
    /\ mapped' = mapped \cup {s}
    /\ Goto(h, "find")
    /\ UNCHANGED <<tabVars, connected, registered, leader, lapsed, replaced>>

\* get_or_set_leader, in five calls.
FindLeader(s) ==
    LET h == <<s, "call">> IN
    /\ job[h].pc = "find"
    /\ IF leader # NoSession /\ Active(leader)
       THEN job' = [job EXCEPT ![h].pc = "prune", ![h].phase = "roll", ![h].leads = (leader = s)]
       ELSE job' = [job EXCEPT ![h].pc = IF leader = NoSession THEN "claim" ELSE "evict",
                               ![h].seen = leader]
    /\ UNCHANGED <<tabVars, connected, redis>>

\* delete_session, of the leader that was found gone: it may be back.
Evict(s) ==
    LET h == <<s, "call">>
        seen == job[h].seen
    IN
    /\ job[h].pc = "evict"
    /\ registered' = registered \ {seen}
    /\ mapped' = mapped \ {seen}
    /\ Drops({seen})
    /\ replaced' = (replaced \/ Active(seen))
    /\ Goto(h, "unseat")
    /\ UNCHANGED <<tabVars, connected, leader>>

\* delete_leader
Unseat(s) ==
    LET h == <<s, "call">> IN
    /\ job[h].pc = "unseat"
    /\ SetLeader(h, NoSession)
    /\ Goto(h, "claim")
    /\ UNCHANGED <<tabVars, connected, registered, mapped, lapsed>>

\* set_leader_if_absent.  The change is announced if there was a leader.
Claim(s) ==
    LET h == <<s, "call">> IN
    /\ job[h].pc = "claim"
    /\ IF leader # NoSession
       THEN Goto(h, "reread") /\ UNCHANGED <<leader, replaced>>
       ELSE /\ SetLeader(h, s)
            /\ job' = [job EXCEPT ![h].leads = TRUE, ![h].seen = NoSession, ![h].choice = s,
                    ![h].pc = IF job[h].seen = NoSession THEN "prune" ELSE "announce",
                    ![h].phase = IF job[h].seen = NoSession THEN "roll" ELSE "join"]
    /\ UNCHANGED <<tabVars, connected, registered, mapped, lapsed>>

\* Mutation: whoever loses the race takes itself for the leader.
ReadAgain_Self(s) ==
    LET h == <<s, "call">> IN
    /\ job[h].pc = "reread"
    /\ job' = [job EXCEPT ![h].pc = "prune", ![h].phase = "roll", ![h].seen = NoSession,
                          ![h].leads = TRUE]
    /\ UNCHANGED <<tabVars, connected, redis>>

ReadAgain(s) ==
    LET h == <<s, "call">> IN
    /\ job[h].pc = "reread"
    /\ job' = [job EXCEPT ![h].pc = "prune", ![h].phase = "roll", ![h].seen = NoSession,
                          ![h].leads = (leader \in {NoSession, s})]
    /\ UNCHANGED <<tabVars, connected, redis>>

\* The last thing a join does.
Tell(s) ==
    LET h == <<s, "call">> IN
    /\ job[h].pc = "tell"
    /\ Send([x \in {s} |-> IF job[h].leads THEN "lead" ELSE "follow"])
    /\ job' = [job EXCEPT ![h] = Idle]
    /\ UNCHANGED <<tab, isLeader, edited, unheard, connected, redis>>

-----------------------------------------------------------------------------
(* disconnect.                                                             *)

\* get_sid_mapping
LookUp(s) ==
    LET h == <<s, "disconnect">> IN
    /\ job[h].pc = "lookup"
    /\ job' = IF s \in mapped THEN [job EXCEPT ![h].pc = "forget"] ELSE [job EXCEPT ![h] = Idle]
    /\ UNCHANGED <<tabVars, connected, redis>>

\* delete_session
Forget(s) ==
    LET h == <<s, "disconnect">> IN
    /\ job[h].pc = "forget"
    /\ registered' = registered \ {s}
    /\ mapped' = mapped \ {s}
    /\ Goto(h, "resign")
    /\ UNCHANGED <<tabVars, connected, leader, lapsed, replaced>>

\* handle_leader_disconnect
Resign(s) ==
    LET h == <<s, "disconnect">> IN
    /\ job[h].pc = "resign"
    /\ IF leader = s
       THEN job' = [job EXCEPT ![h].pc = "elect", ![h].phase = "leave"]
       ELSE RollCall(h)
    /\ UNCHANGED <<tabVars, connected, redis>>

Vacate(s) ==
    LET h == <<s, "disconnect">> IN
    /\ job[h].pc = "vacate"
    /\ SetLeader(h, NoSession)
    /\ RollCall(h)
    /\ UNCHANGED <<tabVars, connected, registered, mapped, lapsed>>

-----------------------------------------------------------------------------
(* What the handlers share.                                                *)

\* _prune_inactive_sessions
Prune(h) ==
    LET users == {s \in registered : Active(s)} IN
    /\ job[h].pc = "prune"
    /\ registered' = users
    /\ mapped' = mapped \ (registered \ users)
    /\ Drops(registered \ users)
    /\ job' = [job EXCEPT ![h].pc = "check", ![h].users = users, ![h].choice = NoSession]
    /\ UNCHANGED <<tabVars, connected, leader, replaced>>

\* The leader must be one of them.
Check(h) ==
    LET users == job[h].users IN
    /\ job[h].pc = "check"
    /\ IF leader \in users \/ (leader = NoSession /\ users = {})
       THEN Over(h)
       ELSE job' = [job EXCEPT ![h].pc = IF leader = NoSession THEN "elect" ELSE "drop",
                               ![h].seen = leader]
    /\ UNCHANGED <<tabVars, connected, redis>>

\* delete_leader, before another one is chosen.
Drop(h) ==
    /\ job[h].pc = "drop"
    /\ SetLeader(h, NoSession)
    /\ Goto(h, IF job[h].phase = "roll" /\ job[h].users = {} THEN "announce" ELSE "elect")
    /\ UNCHANGED <<tabVars, connected, registered, mapped, lapsed>>

\* _select_graph_leader
Elect(h) ==
    LET active == {s \in registered : Active(s)}
        phase == job[h].phase
    IN
    /\ job[h].pc = "elect"
    /\ \/ \E s \in active :
            /\ phase = "request" /\ h[1] \in active => s = h[1]
            /\ job' = [job EXCEPT ![h].pc = "appoint", ![h].choice = s]
       \/ /\ active = {}
          /\ CASE phase = "leave" -> Goto(h, "vacate")
               [] phase = "request" -> job' = [job EXCEPT ![h] = Idle]
               [] OTHER -> IF job[h].seen = NoSession THEN Over(h) ELSE Goto(h, "announce")
    /\ UNCHANGED <<tabVars, connected, redis>>

Appoint(h) ==
    /\ job[h].pc = "appoint"
    /\ SetLeader(h, job[h].choice)
    /\ IF job[h].phase = "roll" /\ job[h].choice = job[h].seen
       THEN Over(h) ELSE Goto(h, "announce")
    /\ UNCHANGED <<tabVars, connected, registered, mapped, lapsed>>

\* broadcast_leader_change
Announce(h) ==
    /\ job[h].pc = "announce"
    /\ Send([s \in registered |-> IF s = job[h].choice THEN "lead" ELSE "follow"])
    /\ CASE job[h].phase \in {"join", "leave"} -> RollCall(h)
         [] job[h].phase = "roll" -> Over(h)
         [] job[h].phase = "ensure" -> Goto(h, "target")
         [] job[h].phase = "request" -> Goto(h, "forward")
    /\ UNCHANGED <<tab, isLeader, edited, unheard, connected, redis>>

-----------------------------------------------------------------------------
(* collaboration_event: the request of a follower.                         *)

\* A session that was forgotten joins again; its request is lost.
Authorize(s) ==
    LET h == <<s, "call">> IN
    /\ job[h].pc = "authorize"
    /\ IF s \in mapped THEN Goto(h, "ensure")
       ELSE IF tab[s] = "open" THEN Begin(s, "join")
       ELSE job' = [job EXCEPT ![h] = Idle]
    /\ UNCHANGED <<tabVars, connected, redis>>

\* _ensure_leader: whoever speaks while the leader is away takes over.
EnsureLeader(s) ==
    LET h == <<s, "call">> IN
    /\ job[h].pc = "ensure"
    /\ job' = [job EXCEPT ![h].phase = "ensure",
                          ![h].pc = IF leader = NoSession THEN "take"
                                    ELSE IF Active(leader) THEN "target" ELSE "depose"]
    /\ UNCHANGED <<tabVars, connected, redis>>

Depose(s) ==
    LET h == <<s, "call">> IN
    /\ job[h].pc = "depose"
    /\ SetLeader(h, NoSession)
    /\ Goto(h, "take")
    /\ UNCHANGED <<tabVars, connected, registered, mapped, lapsed>>

\* Mutation: the new leader is not announced.
TakeOver_Quiet(s) ==
    LET h == <<s, "call">> IN
    /\ job[h].pc = "take"
    /\ SetLeader(h, s)
    /\ Goto(h, "target")
    /\ UNCHANGED <<tabVars, connected, registered, mapped, lapsed>>

TakeOver(s) ==
    LET h == <<s, "call">> IN
    /\ job[h].pc = "take"
    /\ SetLeader(h, s)
    /\ job' = [job EXCEPT ![h].pc = "announce", ![h].choice = s]
    /\ UNCHANGED <<tabVars, connected, registered, mapped, lapsed>>

FindTarget(s) ==
    LET h == <<s, "call">> IN
    /\ job[h].pc = "target"
    /\ job' = IF leader # NoSession /\ Active(leader)
              THEN [job EXCEPT ![h].pc = "forward", ![h].choice = leader]
              ELSE [job EXCEPT ![h].pc = IF leader = NoSession THEN "elect" ELSE "drop",
                               ![h].phase = "request", ![h].choice = NoSession]
    /\ UNCHANGED <<tabVars, connected, redis>>

Forward(s) ==
    LET h == <<s, "call">> IN
    /\ job[h].pc = "forward"
    /\ Send([x \in {job[h].choice} |-> "sync"])
    /\ job' = [job EXCEPT ![h] = Idle]
    /\ UNCHANGED <<tab, isLeader, edited, unheard, connected, redis>>

-----------------------------------------------------------------------------
(* An hour without a call: the keys expire.                                *)

ExpireSession(s) ==
    /\ s \in mapped /\ tab[s] = "open"
    /\ job[<<s, "call">>] = Idle /\ inbox[s] = <<>>
    /\ mapped' = mapped \ {s}
    /\ lapsed' = lapsed \cup {s}
    /\ Gone(s)
    /\ UNCHANGED <<tabVars, connected, registered, leader, job>>

\* The hash and the leader are kept alive by any session's calls.
ExpireRoom ==
    /\ Settled /\ mapped = {} /\ registered # {}
    /\ registered' = {} /\ leader' = NoSession
    /\ UNCHANGED <<tabVars, connected, mapped, lapsed, replaced, job>>

-----------------------------------------------------------------------------
Join(s) ==
    \/ Register(s) \/ MapSession(s) \/ FindLeader(s) \/ Evict(s) \/ Unseat(s) \/ Claim(s)
    \/ ReadAgain(s) \/ Tell(s)
Leave(s) == LookUp(s) \/ Forget(s) \/ Resign(s) \/ Vacate(s)
Event(s) ==
    Authorize(s) \/ EnsureLeader(s) \/ Depose(s) \/ TakeOver(s) \/ FindTarget(s) \/ Forward(s)
Shared(h) == Prune(h) \/ Check(h) \/ Drop(h) \/ Elect(h) \/ Appoint(h) \/ Announce(h)
Hear(s) == HearStatus(s) \/ HearSync(s)

Next ==
    \/ \E s \in Sessions :
        Connect(s) \/ Hear(s) \/ Disconnect(s) \/ Join(s) \/ Leave(s) \/ Event(s)
    \/ \E h \in Handlers : Shared(h)
    \/ \E s \in Editing : Edit(s)
    \/ \E s \in Closing : Close(s)
    \/ \E s \in Expiring : ExpireSession(s)
    \/ ExpireRoom

Spec == Init /\ [][Next]_vars

\* Handlers run to their end, messages arrive, and the server notices a tab
\* that is gone (by the ping, if not at once).
Fairness == \A s \in Sessions :
    /\ WF_vars(Hear(s)) /\ WF_vars(Disconnect(s))
    /\ WF_vars(Join(s) \/ Event(s) \/ Shared(<<s, "call">>))
    /\ WF_vars(Leave(s) \/ Shared(<<s, "disconnect">>))

FairSpec == Spec /\ Fairness

-----------------------------------------------------------------------------
(* Properties.                                                             *)

\* Sessions that are in the room, as the tab and the server see it.
Members == {s \in registered \cap mapped : tab[s] = "open"}

\* The tabs that the server ought to know: all that are open, except those it has
\* forgotten, which nobody tells.
Tabs == {s \in Sessions : tab[s] = "open" /\ s \notin lapsed}

\* When all is settled, a tab thinks it leads exactly if it is the leader that
\* the server forwards requests to.
LeaderKnows == Settled => \A s \in Tabs : isLeader[s] <=> leader = s

\* ... and a room with somebody in it has a leader.
SomebodyLeads == Settled /\ Tabs # {} => leader # NoSession

\* Both hold unless the leader, or who was about to lead, went while a handler ran:
\* whatever else the handlers do beside one another, of the tabs that the server
\* has not forgotten one leads in the end, and knows it.  A forgotten tab that led
\* goes on believing it, beside the new leader, until it joins again.
OneLeader == replaced \/ (LeaderKnows /\ SomebodyLeads)

\* Every request for a save comes in the end to a tab that thinks it leads, with the
\* leader's session expired too, unless the leader is replaced in the same way, or
\* goes with the request on its way to it.
RequestIsHeard == <>[](unheard = {} \/ replaced)
=============================================================================
