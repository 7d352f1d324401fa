---------------------------- MODULE TokenRefresh -----------------------------
(***************************************************************************)
(* Renewal of the console's access token (web/service/refresh-token.ts of  *)
(* dify): the lock in localStorage that all tabs of a browser share, the   *)
(* flag isRefreshing of each tab, the timer of each call, and the server,  *)
(* which replaces the refresh token it is shown.                           *)
(*                                                                         *)
(* A tab runs one piece of synchronous code at a time, but tabs run beside *)
(* one another: a step is what a tab does up to and including its next     *)
(* access to localStorage.  There is no clock: a timer may run out at any  *)
(* time after its call began, and the lock may turn stale at any time      *)
(* after it was taken, which allows every order the real times allow.      *)
(***************************************************************************)
EXTENDS Naturals, FiniteSets

CONSTANTS
    Tabs,     \* tabs of one browser, with one jar of cookies
    Calls,    \* calls of refreshAccessTokenOrReLogin
    TabOf,    \* the tab that makes a call
    Closing,  \* bound: the tabs that may be closed or crash
    First     \* the refresh token from signing in

ASSUME TokenRefreshAssumption ==
    /\ TabOf \in [Calls -> Tabs]
    /\ Closing \subseteq Tabs
    /\ First \notin Calls

VARIABLES
    tab,         \* open, unloading in two steps, or gone
    isRefreshing,\* tabs whose module variable isRefreshing is set
    listening,   \* tabs that release the lock before they unload
    key,         \* is_other_tab_refreshing is '1'
    fresh,       \* last_refresh_time is set and not older than the timeout
    pc,          \* where getNewAccessToken is, for a call
    timer,       \* the timer of a call
    result,      \* how a call's promise was settled
    req,         \* a call's request to /refresh-token
    token,       \* the cookie that went with it
    jar,         \* the refresh token in the browser
    valid        \* refresh tokens the server accepts

vars == <<tab, isRefreshing, listening, key, fresh, pc, timer, result,
          req, token, jar, valid>>
lockVars == <<isRefreshing, listening, key, fresh>>
serverVars == <<req, token, jar, valid>>

\* A token is named for the call whose request made it.
Tokens == Calls \cup {First}

\* Positions inside synchronous code, which nothing else of the tab interrupts.
Sync == {"read_time", "check", "take", "set_time", "rm_key", "rm_time"}

TypeOK ==
    /\ tab \in [Tabs -> {"open", "unloading", "gone"}]
    /\ isRefreshing \subseteq Tabs /\ listening \subseteq Tabs
    /\ key \in BOOLEAN /\ fresh \in BOOLEAN
    /\ pc \in [Calls -> Sync \cup {"idle", "poll", "await", "done"}]
    /\ timer \in [Calls -> {"off", "armed", "rm_time", "fired"}]
    /\ result \in [Calls -> {"none", "resolved", "rejected"}]
    /\ req \in [Calls -> {"none", "sent", "verified", "renewed", "refused", "stored"}]
    /\ token \in [Calls -> Tokens]
    /\ jar \in Tokens
    /\ valid \subseteq Tokens

Init ==
    /\ tab = [t \in Tabs |-> "open"]
    /\ isRefreshing = {} /\ listening = {}
    /\ key = FALSE /\ fresh = FALSE
    /\ pc = [c \in Calls |-> "idle"]
    /\ timer = [c \in Calls |-> "off"]
    /\ result = [c \in Calls |-> "none"]
    /\ req = [c \in Calls |-> "none"]
    /\ token = [c \in Calls |-> First]
    /\ jar = First
    /\ valid = {First}

Open(c) == tab[TabOf[c]] = "open"
Busy(t) == \E c \in Calls : TabOf[c] = t /\ (pc[c] \in Sync \/ timer[c] = "rm_time")
\* The event loop of the call's tab is free for another piece of code.
Free(c) == Open(c) /\ ~Busy(TabOf[c])

At(c, p) == Open(c) /\ pc[c] = p
Goto(c, p) == pc' = [pc EXCEPT ![c] = p]

-----------------------------------------------------------------------------
(* A call, from its 401 to the request or to waiting.                      *)

\* Mutation: only what other tabs left in localStorage counts.
WaitOrTake_KeyOnly(c, held) == Goto(c, IF held THEN "check" ELSE "take")

\* held: the lock in localStorage counts.
WaitOrTake(c, held) ==
    Goto(c, IF held \/ TabOf[c] \in isRefreshing THEN "check" ELSE "take")

\* Mutation: no timer races with the new token.
Begin_NoTimer(c) ==
    /\ Free(c) /\ pc[c] = "idle"
    /\ IF key THEN Goto(c, "read_time") ELSE WaitOrTake(c, FALSE)
    /\ UNCHANGED <<tab, lockVars, timer, result, serverVars>>

\* A request was answered 401: the timer is set, and getNewAccessToken called,
\* which reads the key.
Begin(c) ==
    /\ Free(c) /\ pc[c] = "idle"
    /\ timer' = [timer EXCEPT ![c] = "armed"]
    /\ IF key THEN Goto(c, "read_time") ELSE WaitOrTake(c, FALSE)
    /\ UNCHANGED <<tab, lockVars, result, serverVars>>

\* isRefreshingSignAvailable
ReadTime(c) ==
    /\ At(c, "read_time")
    /\ WaitOrTake(c, fresh)
    /\ UNCHANGED <<tab, lockVars, timer, result, serverVars>>

SetKey(c) ==
    /\ At(c, "take")
    /\ isRefreshing' = isRefreshing \cup {TabOf[c]}
    /\ key' = TRUE
    /\ Goto(c, "set_time")
    /\ UNCHANGED <<tab, listening, fresh, timer, result, serverVars>>

\* last_refresh_time is set, the listener added and the request sent.
SetTime(c) ==
    /\ At(c, "set_time")
    /\ fresh' = TRUE
    /\ listening' = listening \cup {TabOf[c]}
    /\ req' = [req EXCEPT ![c] = "sent"]
    /\ token' = [token EXCEPT ![c] = jar]
    /\ Goto(c, "await")
    /\ UNCHANGED <<tab, isRefreshing, key, timer, result, jar, valid>>

\* _check, at once ("check") and then every second ("poll"): the time is not
\* looked at any more.
Poll(c) ==
    /\ At(c, "check") \/ (Free(c) /\ pc[c] = "poll")
    /\ Goto(c, IF key \/ TabOf[c] \in isRefreshing THEN "poll" ELSE "rm_key")
    /\ UNCHANGED <<tab, lockVars, timer, result, serverVars>>

-----------------------------------------------------------------------------
(* The answer and the release of the lock.                                 *)

\* releaseRefreshLock: the flag and the key, then the time and the listener.
ClearKey(t) ==
    /\ isRefreshing' = isRefreshing \ {t}
    /\ key' = FALSE
    /\ UNCHANGED <<listening, fresh>>

ClearTime(t) ==
    /\ fresh' = FALSE
    /\ listening' = listening \ {t}
    /\ UNCHANGED <<isRefreshing, key>>

Settle(c, how) == result' = [result EXCEPT ![c] = IF @ = "none" THEN how ELSE @]

\* Mutation: the cookie of the answer is not kept.
Deliver_KeepCookie(c) ==
    /\ Free(c) /\ pc[c] = "await" /\ req[c] \in {"renewed", "refused"}
    /\ req' = [req EXCEPT ![c] = IF @ = "renewed" THEN "stored" ELSE @]
    /\ ClearKey(TabOf[c])
    /\ Goto(c, "rm_time")
    /\ UNCHANGED <<tab, timer, result, jar, token, valid>>

\* The browser stores the cookies of a good answer; the call goes to finally.
Deliver(c) ==
    /\ Free(c) /\ pc[c] = "await" /\ req[c] \in {"renewed", "refused"}
    /\ req' = [req EXCEPT ![c] = IF @ = "renewed" THEN "stored" ELSE @]
    /\ jar' = IF req[c] = "renewed" THEN c ELSE jar
    /\ ClearKey(TabOf[c])
    /\ Goto(c, "rm_time")
    /\ UNCHANGED <<tab, timer, result, token, valid>>

\* fetch rejects; fetchWithRetry awaits the same promise again and again.
LoseAnswer(c) ==
    /\ Free(c) /\ pc[c] = "await"
    /\ ClearKey(TabOf[c])
    /\ Goto(c, "rm_time")
    /\ UNCHANGED <<tab, timer, result, serverVars>>

\* A call that has waited goes to finally.
ReleaseKey(c) ==
    /\ At(c, "rm_key")
    /\ ClearKey(TabOf[c])
    /\ Goto(c, "rm_time")
    /\ UNCHANGED <<tab, timer, result, serverVars>>

\* The end of finally: a call that only waited resolves, whatever came of the
\* request it waited for.
ReleaseTime(c) ==
    /\ At(c, "rm_time")
    /\ ClearTime(TabOf[c])
    /\ Settle(c, IF req[c] \in {"none", "stored"} THEN "resolved" ELSE "rejected")
    /\ Goto(c, "done")
    /\ UNCHANGED <<tab, timer, serverVars>>

-----------------------------------------------------------------------------
(* Time.  Nothing ever clears a timer: it fires when its call is long over. *)

\* The lock has been taken for longer than the timeout.
TurnStale ==
    /\ fresh
    /\ fresh' = FALSE
    /\ UNCHANGED <<tab, isRefreshing, listening, key, pc, timer, result, serverVars>>

\* The lock is released, whoever holds it ...
Fire(c) ==
    /\ Free(c) /\ timer[c] = "armed"
    /\ ClearKey(TabOf[c])
    /\ timer' = [timer EXCEPT ![c] = "rm_time"]
    /\ UNCHANGED <<tab, pc, result, serverVars>>

\* ... and the promise is rejected, unless it is settled.
FireTime(c) ==
    /\ Open(c) /\ timer[c] = "rm_time"
    /\ ClearTime(TabOf[c])
    /\ Settle(c, "rejected")
    /\ timer' = [timer EXCEPT ![c] = "fired"]
    /\ UNCHANGED <<tab, pc, serverVars>>

-----------------------------------------------------------------------------
(* A tab is closed, or goes to the page for signing in; or it crashes.     *)

\* The code and the timers of a tab end with its page.
EndPage(t) ==
    /\ pc' = [c \in Calls |-> IF TabOf[c] = t THEN "done" ELSE pc[c]]
    /\ timer' = [c \in Calls |-> IF TabOf[c] = t THEN "off" ELSE timer[c]]

Leave(t) ==
    /\ tab[t] = "open" /\ ~Busy(t)
    /\ IF t \in listening
       THEN ClearKey(t) /\ tab' = [tab EXCEPT ![t] = "unloading"]
       ELSE UNCHANGED lockVars /\ tab' = [tab EXCEPT ![t] = "gone"]
    /\ EndPage(t)
    /\ UNCHANGED <<result, serverVars>>

Unload(t) ==
    /\ tab[t] = "unloading"
    /\ ClearTime(t)
    /\ tab' = [tab EXCEPT ![t] = "gone"]
    /\ UNCHANGED <<pc, timer, result, serverVars>>

\* What the tab kept in localStorage stays behind.
Crash(t) ==
    /\ tab[t] # "gone"
    /\ tab' = [tab EXCEPT ![t] = "gone"]
    /\ isRefreshing' = isRefreshing \ {t} /\ listening' = listening \ {t}
    /\ EndPage(t)
    /\ UNCHANGED <<key, fresh, result, serverVars>>

-----------------------------------------------------------------------------
(* The server.                                                             *)

\* The token is looked up; another request may come before it is replaced.
Verify(c) ==
    /\ req[c] = "sent"
    /\ req' = [req EXCEPT ![c] = IF token[c] \in valid THEN "verified" ELSE "refused"]
    /\ UNCHANGED <<tab, lockVars, pc, timer, result, token, jar, valid>>

\* Mutation: an account keeps only its newest token.
Rotate_OnePerAccount(c) ==
    /\ req[c] = "verified"
    /\ req' = [req EXCEPT ![c] = "renewed"]
    /\ valid' = {c}
    /\ UNCHANGED <<tab, lockVars, pc, timer, result, token, jar>>

\* The token shown is deleted, a new one stored and sent in cookies.
Rotate(c) ==
    /\ req[c] = "verified"
    /\ req' = [req EXCEPT ![c] = "renewed"]
    /\ valid' = (valid \ {token[c]}) \cup {c}
    /\ UNCHANGED <<tab, lockVars, pc, timer, result, token, jar>>

-----------------------------------------------------------------------------
Call(c) ==
    \/ Begin(c) \/ ReadTime(c) \/ SetKey(c) \/ SetTime(c) \/ Poll(c)
    \/ Deliver(c) \/ LoseAnswer(c) \/ ReleaseKey(c) \/ ReleaseTime(c)
Timer(c) == Fire(c) \/ FireTime(c)
Server(c) == Verify(c) \/ Rotate(c)

Next ==
    \/ \E c \in Calls : Call(c) \/ Timer(c) \/ Server(c)
    \/ \E t \in Closing : Leave(t) \/ Crash(t)
    \/ \E t \in Tabs : Unload(t)
    \/ TurnStale

Spec == Init /\ [][Next]_vars

\* What the event loop of a tab runs without waiting for the network.
EventLoop(t) ==
    \/ \E c \in Calls :
        /\ TabOf[c] = t
        /\ ReadTime(c) \/ SetKey(c) \/ SetTime(c) \/ Poll(c) \/ ReleaseKey(c)
           \/ ReleaseTime(c) \/ Timer(c)
    \/ Unload(t)

\* An event loop runs what is due; neither the server nor the network owes an
\* answer.  Every behaviour makes finitely many steps, so that fairness of the
\* loop is fairness of every piece of code in it.
Fairness == \A t \in Tabs : WF_vars(EventLoop(t))

FairSpec == Spec /\ Fairness

-----------------------------------------------------------------------------
(* What a comment says, and what holds.                                    *)

\* "only one request can send" (refresh-token.ts:31): never two renewals
\* under way.
OnlyOneSends ==
    \A c, d \in Calls : pc[c] = "await" /\ pc[d] = "await" => c = d

\* In one tab it is so, whatever other tabs do to the lock, until a timer of
\* that tab has run: isRefreshing is cleared by nobody else.
TabSendsOnce ==
    \A c, d \in Calls :
        /\ c # d /\ TabOf[c] = TabOf[d]
        /\ pc[c] = "await" /\ pc[d] = "await"
        => \E e \in Calls : TabOf[e] = TabOf[c] /\ timer[e] \in {"rm_time", "fired"}

\* The browser will never hear of a token the server made for a call.
Unheard(c) ==
    req[c] = "renewed" /\ pc[c] # "await"

\* However renewals race, the browser keeps or is being sent a token that the
\* server accepts, as long as no good answer got lost.
SessionSurvives ==
    (\A c \in Calls : ~Unheard(c)) =>
        \/ jar \in valid
        \/ \E c \in Calls : pc[c] = "await" /\ req[c] = "renewed" /\ c \in valid

\* A call that waits is refused only when another one has used the same
\* cookie: one of another tab, or one whose answer was lost, or one of a tab
\* whose lock a timer has released.
RefusedByRace ==
    \A c \in Calls : pc[c] = "await" /\ req[c] = "refused" =>
        \E d \in Calls \ {c} :
            /\ token[d] = token[c] /\ req[d] \in {"renewed", "stored"}
            /\ \/ TabOf[d] # TabOf[c]
               \/ Unheard(d)
               \/ \E e \in Calls : TabOf[e] = TabOf[c] /\ timer[e] \in {"rm_time", "fired"}

\* A call that was made ends, resolved or rejected, although another tab
\* crashes, answers get lost and another tab's lock stays behind.
EveryCallSettles ==
    []<>(\A c \in Calls : pc[c] # "idle" /\ Open(c) => result[c] # "none")

=============================================================================
