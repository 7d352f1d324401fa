------------------------- MODULE TokenRefresh_proofs -------------------------
(***************************************************************************)
(* The invariants of TokenRefresh for every number of tabs and calls, and  *)
(* whichever tabs are closed or crash: its types, one request at a time in *)
(* a tab, the survival of the session, and the causes of a refusal.        *)
(***************************************************************************)
EXTENDS TokenRefresh, TLAPS

-----------------------------------------------------------------------------
(* The inductive invariant: what holds of the tabs, ...                    *)

\* A tab is inside one piece of synchronous code at a time.
OneAtATime ==
    \A c, d \in Calls : TabOf[c] = TabOf[d] =>
        /\ pc[c] \in Sync /\ pc[d] \in Sync => c = d
        /\ timer[c] = "rm_time" /\ timer[d] = "rm_time" => c = d
        /\ ~(pc[c] \in Sync /\ timer[d] = "rm_time")

\* A timer of the tab has run.
TimedOut(t) == \E e \in Calls : TabOf[e] = t /\ timer[e] \in {"rm_time",
"fired"}

\* A call has taken the lock and not released it.
Held == {"set_time", "await"}

\* A call is about to take or to release only a flag that is not set; a holder
\* of the lock is alone in its tab and has the flag set, unless a timer has run.
LockInv ==
    /\ \A c \in Calls :
        /\ pc[c] = "idle" => timer[c] = "off"
        /\ pc[c] \in {"take", "rm_key"} => TabOf[c] \notin isRefreshing
        /\ pc[c] \in Held => TabOf[c] \in isRefreshing \/ TimedOut(TabOf[c])
    /\ \A c, d \in Calls :
        c # d /\ TabOf[c] = TabOf[d] /\ pc[c] \in Held /\ pc[d] \in Held
            => TimedOut(TabOf[c])

(* ... of the tokens, ...                                                  *)

Answered(c) == req[c] \in {"renewed", "stored"}

\* A cookie the browser has or sent came with an answer that it stored; a
\* token under way is one the server accepts.
TokenInv ==
    /\ \A c \in Calls :
        /\ pc[c] \notin {"await", "rm_time", "done"} => req[c] = "none"
        /\ token[c] \in Calls => req[token[c]] = "stored"
        /\ req[c] = "renewed" => c \in valid
    /\ jar \in Calls => req[jar] = "stored"
    /\ jar \in valid \/ \E c \in Calls : req[c] = "renewed"

(* ... and of their uses.                                                  *)

\* A token the server has given out and accepts no more was used.
UsedInv ==
    \A x \in Tokens \ valid :
        x = First \/ (x \in Calls /\ Answered(x))
            => \E d \in Calls : token[d] = x /\ Answered(d)

\* A token was refused because another call had used it; one that the browser
\* has replaced it shows again only from a tab whose timer has run.
RefusalInv ==
    \A c, d \in Calls :
        /\ req[c] = "refused" =>
               \E e \in Calls \ {c} : token[e] = token[c] /\ Answered(e)
        /\ req[d] = "stored" => token[d] # jar
        /\ /\ c # d /\ TabOf[c] = TabOf[d] /\ token[c] = token[d]
           /\ pc[c] = "await" /\ req[d] = "stored"
           => TimedOut(TabOf[c])

IInv ==
    /\ TypeOK
    /\ OneAtATime
    /\ LockInv
    /\ TokenInv
    /\ UsedInv
    /\ RefusalInv
-----------------------------------------------------------------------------
\* The initial states satisfy the invariant.
LEMMA InitIInv == Init => IInv
  <1> SUFFICES ASSUME Init PROVE IInv
    OBVIOUS
  <1> USE TokenRefreshAssumption DEF Init
  <1>1. TypeOK
    BY DEF TypeOK, Sync, Tokens
  <1>2. OneAtATime /\ LockInv
    BY DEF OneAtATime, LockInv, Sync, Held
  <1>3. TokenInv /\ UsedInv /\ RefusalInv
    BY DEF TokenInv, UsedInv, RefusalInv, Answered, Tokens
  <1> QED
    BY <1>1, <1>2, <1>3 DEF IInv

\* Every step keeps the types.
LEMMA TypeStep ==
  ASSUME IInv, [Next]_vars
  PROVE  TypeOK'
  <1> USE TokenRefreshAssumption DEF IInv, TypeOK, Sync, Tokens, At, Goto,
                                     Open, Free
  <1>1. ASSUME NEW c \in Calls, Begin(c)
        PROVE  TypeOK'
    BY <1>1 DEF Begin, WaitOrTake, lockVars, serverVars
  <1>2. ASSUME NEW c \in Calls, ReadTime(c)
        PROVE  TypeOK'
    BY <1>2 DEF ReadTime, WaitOrTake, lockVars, serverVars
  <1>3. ASSUME NEW c \in Calls, SetKey(c)
        PROVE  TypeOK'
    BY <1>3 DEF SetKey, serverVars
  <1>4. ASSUME NEW c \in Calls, SetTime(c)
        PROVE  TypeOK'
    BY <1>4 DEF SetTime
  <1>5. ASSUME NEW c \in Calls, Poll(c)
        PROVE  TypeOK'
    BY <1>5 DEF Poll, lockVars, serverVars
  <1>6. ASSUME NEW c \in Calls, Deliver(c)
        PROVE  TypeOK'
    BY <1>6 DEF Deliver, ClearKey
  <1>7. ASSUME NEW c \in Calls, LoseAnswer(c)
        PROVE  TypeOK'
    BY <1>7 DEF LoseAnswer, ClearKey, serverVars
  <1>8. ASSUME NEW c \in Calls, ReleaseKey(c)
        PROVE  TypeOK'
    BY <1>8 DEF ReleaseKey, ClearKey, serverVars
  <1>9. ASSUME NEW c \in Calls, ReleaseTime(c)
        PROVE  TypeOK'
    BY <1>9 DEF ReleaseTime, ClearTime, Settle, serverVars
  <1>10. ASSUME NEW c \in Calls, Fire(c)
        PROVE  TypeOK'
    BY <1>10 DEF Fire, ClearKey, serverVars
  <1>11. ASSUME NEW c \in Calls, FireTime(c)
        PROVE  TypeOK'
    BY <1>11 DEF FireTime, ClearTime, Settle, serverVars
  <1>12. ASSUME NEW c \in Calls, Verify(c)
        PROVE  TypeOK'
    BY <1>12 DEF Verify, lockVars
  <1>13. ASSUME NEW c \in Calls, Rotate(c)
        PROVE  TypeOK'
    BY <1>13 DEF Rotate, lockVars
  <1>14. ASSUME NEW t \in Tabs, Leave(t)
        PROVE  TypeOK'
    BY <1>14 DEF Leave, ClearKey, EndPage, lockVars, serverVars
  <1>15. ASSUME NEW t \in Tabs, Crash(t)
        PROVE  TypeOK'
    BY <1>15 DEF Crash, EndPage, serverVars
  <1>16. ASSUME NEW t \in Tabs, Unload(t)
        PROVE  TypeOK'
    BY <1>16 DEF Unload, ClearTime, serverVars
  <1>17. CASE TurnStale
    BY <1>17 DEF TurnStale, serverVars
  <1>18. CASE UNCHANGED vars
    BY <1>18 DEF vars
  <1> QED
    BY <1>1, <1>2, <1>3, <1>4, <1>5, <1>6, <1>7, <1>8, <1>9, <1>10, <1>11,
       <1>12, <1>13, <1>14, <1>15, <1>16, <1>17, <1>18
       DEF Next, Call, Timer, Server

\* A piece of code begins only in a tab that is in no other.
LEMMA OneAtATimeStep ==
  ASSUME IInv, [Next]_vars
  PROVE  OneAtATime'
  <1> USE TokenRefreshAssumption DEF IInv, TypeOK, OneAtATime, Sync, At, Goto,
                                     Open, Free, Busy
  <1>1. ASSUME NEW c \in Calls, Begin(c)
        PROVE  OneAtATime'
    BY <1>1 DEF Begin, WaitOrTake, lockVars, serverVars
  <1>2. ASSUME NEW c \in Calls, ReadTime(c)
        PROVE  OneAtATime'
    BY <1>2 DEF ReadTime, WaitOrTake, lockVars, serverVars
  <1>3. ASSUME NEW c \in Calls, SetKey(c)
        PROVE  OneAtATime'
    BY <1>3 DEF SetKey, serverVars
  <1>4. ASSUME NEW c \in Calls, SetTime(c)
        PROVE  OneAtATime'
    BY <1>4 DEF SetTime
  <1>5. ASSUME NEW c \in Calls, Poll(c)
        PROVE  OneAtATime'
    BY <1>5 DEF Poll, lockVars, serverVars
  <1>6. ASSUME NEW c \in Calls, Deliver(c)
        PROVE  OneAtATime'
    BY <1>6 DEF Deliver, ClearKey
  <1>7. ASSUME NEW c \in Calls, LoseAnswer(c)
        PROVE  OneAtATime'
    BY <1>7 DEF LoseAnswer, ClearKey, serverVars
  <1>8. ASSUME NEW c \in Calls, ReleaseKey(c)
        PROVE  OneAtATime'
    BY <1>8 DEF ReleaseKey, ClearKey, serverVars
  <1>9. ASSUME NEW c \in Calls, ReleaseTime(c)
        PROVE  OneAtATime'
    BY <1>9 DEF ReleaseTime, ClearTime, Settle, serverVars
  <1>10. ASSUME NEW c \in Calls, Fire(c)
        PROVE  OneAtATime'
    BY <1>10 DEF Fire, ClearKey, serverVars
  <1>11. ASSUME NEW c \in Calls, FireTime(c)
        PROVE  OneAtATime'
    BY <1>11 DEF FireTime, ClearTime, Settle, serverVars
  <1>12. ASSUME NEW c \in Calls, Verify(c)
        PROVE  OneAtATime'
    BY <1>12 DEF Verify, lockVars
  <1>13. ASSUME NEW c \in Calls, Rotate(c)
        PROVE  OneAtATime'
    BY <1>13 DEF Rotate, lockVars
  <1>14. ASSUME NEW t \in Tabs, Leave(t)
        PROVE  OneAtATime'
    BY <1>14 DEF Leave, ClearKey, EndPage, lockVars, serverVars
  <1>15. ASSUME NEW t \in Tabs, Crash(t)
        PROVE  OneAtATime'
    BY <1>15 DEF Crash, EndPage, serverVars
  <1>16. ASSUME NEW t \in Tabs, Unload(t)
        PROVE  OneAtATime'
    BY <1>16 DEF Unload, ClearTime, serverVars
  <1>17. CASE TurnStale
    BY <1>17 DEF TurnStale, serverVars
  <1>18. CASE UNCHANGED vars
    BY <1>18 DEF vars
  <1> QED
    BY <1>1, <1>2, <1>3, <1>4, <1>5, <1>6, <1>7, <1>8, <1>9, <1>10, <1>11,
       <1>12, <1>13, <1>14, <1>15, <1>16, <1>17, <1>18
       DEF Next, Call, Timer, Server

\* What a timer has done stays, as long as the page does.
LEMMA TimedOutStep ==
  ASSUME IInv, [Next]_vars
  PROVE  \A t \in Tabs : TimedOut(t) =>
             TimedOut(t)' \/ (\A e \in Calls : TabOf[e] = t => pc'[e] = "done")
  <1> USE TokenRefreshAssumption DEF IInv, TypeOK, LockInv, TimedOut, At,
                                     Goto, Open, Free
  <1>1. ASSUME NEW c \in Calls, Begin(c)
        PROVE  \A t \in Tabs : TimedOut(t) =>
             TimedOut(t)' \/ (\A e \in Calls : TabOf[e] = t => pc'[e] = "done")
    BY <1>1 DEF Begin, WaitOrTake, lockVars, serverVars
  <1>2. ASSUME NEW c \in Calls, ReadTime(c)
        PROVE  \A t \in Tabs : TimedOut(t) =>
             TimedOut(t)' \/ (\A e \in Calls : TabOf[e] = t => pc'[e] = "done")
    BY <1>2 DEF ReadTime, WaitOrTake, lockVars, serverVars
  <1>3. ASSUME NEW c \in Calls, SetKey(c)
        PROVE  \A t \in Tabs : TimedOut(t) =>
             TimedOut(t)' \/ (\A e \in Calls : TabOf[e] = t => pc'[e] = "done")
    BY <1>3 DEF SetKey, serverVars
  <1>4. ASSUME NEW c \in Calls, SetTime(c)
        PROVE  \A t \in Tabs : TimedOut(t) =>
             TimedOut(t)' \/ (\A e \in Calls : TabOf[e] = t => pc'[e] = "done")
    BY <1>4 DEF SetTime
  <1>5. ASSUME NEW c \in Calls, Poll(c)
        PROVE  \A t \in Tabs : TimedOut(t) =>
             TimedOut(t)' \/ (\A e \in Calls : TabOf[e] = t => pc'[e] = "done")
    BY <1>5 DEF Poll, lockVars, serverVars
  <1>6. ASSUME NEW c \in Calls, Deliver(c)
        PROVE  \A t \in Tabs : TimedOut(t) =>
             TimedOut(t)' \/ (\A e \in Calls : TabOf[e] = t => pc'[e] = "done")
    BY <1>6 DEF Deliver, ClearKey
  <1>7. ASSUME NEW c \in Calls, LoseAnswer(c)
        PROVE  \A t \in Tabs : TimedOut(t) =>
             TimedOut(t)' \/ (\A e \in Calls : TabOf[e] = t => pc'[e] = "done")
    BY <1>7 DEF LoseAnswer, ClearKey, serverVars
  <1>8. ASSUME NEW c \in Calls, ReleaseKey(c)
        PROVE  \A t \in Tabs : TimedOut(t) =>
             TimedOut(t)' \/ (\A e \in Calls : TabOf[e] = t => pc'[e] = "done")
    BY <1>8 DEF ReleaseKey, ClearKey, serverVars
  <1>9. ASSUME NEW c \in Calls, ReleaseTime(c)
        PROVE  \A t \in Tabs : TimedOut(t) =>
             TimedOut(t)' \/ (\A e \in Calls : TabOf[e] = t => pc'[e] = "done")
    BY <1>9 DEF ReleaseTime, ClearTime, Settle, serverVars
  <1>10. ASSUME NEW c \in Calls, Fire(c)
        PROVE  \A t \in Tabs : TimedOut(t) =>
             TimedOut(t)' \/ (\A e \in Calls : TabOf[e] = t => pc'[e] = "done")
    BY <1>10 DEF Fire, ClearKey, serverVars
  <1>11. ASSUME NEW c \in Calls, FireTime(c)
        PROVE  \A t \in Tabs : TimedOut(t) =>
             TimedOut(t)' \/ (\A e \in Calls : TabOf[e] = t => pc'[e] = "done")
    BY <1>11 DEF FireTime, ClearTime, Settle, serverVars
  <1>12. ASSUME NEW c \in Calls, Verify(c)
        PROVE  \A t \in Tabs : TimedOut(t) =>
             TimedOut(t)' \/ (\A e \in Calls : TabOf[e] = t => pc'[e] = "done")
    BY <1>12 DEF Verify, lockVars
  <1>13. ASSUME NEW c \in Calls, Rotate(c)
        PROVE  \A t \in Tabs : TimedOut(t) =>
             TimedOut(t)' \/ (\A e \in Calls : TabOf[e] = t => pc'[e] = "done")
    BY <1>13 DEF Rotate, lockVars
  <1>14. ASSUME NEW tt \in Tabs, Leave(tt)
        PROVE  \A t \in Tabs : TimedOut(t) =>
             TimedOut(t)' \/ (\A e \in Calls : TabOf[e] = t => pc'[e] = "done")
    BY <1>14 DEF Leave, ClearKey, EndPage, lockVars, serverVars
  <1>15. ASSUME NEW tt \in Tabs, Crash(tt)
        PROVE  \A t \in Tabs : TimedOut(t) =>
             TimedOut(t)' \/ (\A e \in Calls : TabOf[e] = t => pc'[e] = "done")
    BY <1>15 DEF Crash, EndPage, serverVars
  <1>16. ASSUME NEW tt \in Tabs, Unload(tt)
        PROVE  \A t \in Tabs : TimedOut(t) =>
             TimedOut(t)' \/ (\A e \in Calls : TabOf[e] = t => pc'[e] = "done")
    BY <1>16 DEF Unload, ClearTime, serverVars
  <1>17. CASE TurnStale
    BY <1>17 DEF TurnStale, serverVars
  <1>18. CASE UNCHANGED vars
    BY <1>18 DEF vars
  <1> QED
    BY <1>1, <1>2, <1>3, <1>4, <1>5, <1>6, <1>7, <1>8, <1>9, <1>10, <1>11,
       <1>12, <1>13, <1>14, <1>15, <1>16, <1>17, <1>18
       DEF Next, Call, Timer, Server

\* The flag of a tab is cleared under a holder only by another holder or a timer.
LEMMA LockStep ==
  ASSUME IInv, [Next]_vars
  PROVE  LockInv'
  <1> USE TokenRefreshAssumption DEF IInv, TypeOK, OneAtATime, LockInv, Sync,
                                     Held, At, Goto, Open, Free
  <1>1. ASSUME NEW c \in Calls, Begin(c)
        PROVE  LockInv'
    BY TimedOutStep, <1>1 DEF Begin, WaitOrTake, lockVars, serverVars
  <1>2. ASSUME NEW c \in Calls, ReadTime(c)
        PROVE  LockInv'
    BY TimedOutStep, <1>2 DEF ReadTime, WaitOrTake, lockVars, serverVars
  <1>3. ASSUME NEW c \in Calls, SetKey(c)
        PROVE  LockInv'
    BY TimedOutStep, <1>3 DEF SetKey, serverVars
  <1>4. ASSUME NEW c \in Calls, SetTime(c)
        PROVE  LockInv'
    BY TimedOutStep, <1>4 DEF SetTime
  <1>5. ASSUME NEW c \in Calls, Poll(c)
        PROVE  LockInv'
    BY TimedOutStep, <1>5 DEF Poll, lockVars, serverVars
  <1>6. ASSUME NEW c \in Calls, Deliver(c)
        PROVE  LockInv'
    BY TimedOutStep, <1>6 DEF Deliver, ClearKey
  <1>7. ASSUME NEW c \in Calls, LoseAnswer(c)
        PROVE  LockInv'
    BY TimedOutStep, <1>7 DEF LoseAnswer, ClearKey, serverVars
  <1>8. ASSUME NEW c \in Calls, ReleaseKey(c)
        PROVE  LockInv'
    BY TimedOutStep, <1>8 DEF ReleaseKey, ClearKey, serverVars
  <1>9. ASSUME NEW c \in Calls, ReleaseTime(c)
        PROVE  LockInv'
    BY TimedOutStep, <1>9 DEF ReleaseTime, ClearTime, Settle, serverVars
  <1>10. ASSUME NEW c \in Calls, Fire(c)
        PROVE  LockInv'
    <2>1. TimedOut(TabOf[c])'
      BY <1>10 DEF Fire, TimedOut
    <2>2. \A t \in Tabs : TimedOut(t) => TimedOut(t)'
      BY <1>10 DEF Fire, TimedOut
    <2> QED
      BY <1>10, <2>1, <2>2 DEF Fire, ClearKey, serverVars
  <1>11. ASSUME NEW c \in Calls, FireTime(c)
        PROVE  LockInv'
    BY TimedOutStep, <1>11 DEF FireTime, ClearTime, Settle, serverVars
  <1>12. ASSUME NEW c \in Calls, Verify(c)
        PROVE  LockInv'
    BY TimedOutStep, <1>12 DEF Verify, lockVars
  <1>13. ASSUME NEW c \in Calls, Rotate(c)
        PROVE  LockInv'
    BY TimedOutStep, <1>13 DEF Rotate, lockVars
  <1>14. ASSUME NEW t \in Tabs, Leave(t)
        PROVE  LockInv'
    BY TimedOutStep, <1>14 DEF Leave, ClearKey, EndPage, lockVars, serverVars
  <1>15. ASSUME NEW t \in Tabs, Crash(t)
        PROVE  LockInv'
    BY TimedOutStep, <1>15 DEF Crash, EndPage, serverVars
  <1>16. ASSUME NEW t \in Tabs, Unload(t)
        PROVE  LockInv'
    BY TimedOutStep, <1>16 DEF Unload, ClearTime, serverVars
  <1>17. CASE TurnStale
    BY TimedOutStep, <1>17 DEF TurnStale, serverVars
  <1>18. CASE UNCHANGED vars
    BY TimedOutStep, <1>18 DEF vars
  <1> QED
    BY <1>1, <1>2, <1>3, <1>4, <1>5, <1>6, <1>7, <1>8, <1>9, <1>10, <1>11,
       <1>12, <1>13, <1>14, <1>15, <1>16, <1>17, <1>18
       DEF Next, Call, Timer, Server

\* A token is accepted until it is used, and used after it was stored.
LEMMA TokenStep ==
  ASSUME IInv, [Next]_vars
  PROVE  TokenInv'
  <1> USE TokenRefreshAssumption DEF IInv, TypeOK, LockInv, TokenInv, Sync,
                                     Tokens, At, Goto, Open, Free
  <1>1. ASSUME NEW c \in Calls, Begin(c)
        PROVE  TokenInv'
    BY <1>1 DEF Begin, WaitOrTake, lockVars, serverVars
  <1>2. ASSUME NEW c \in Calls, ReadTime(c)
        PROVE  TokenInv'
    BY <1>2 DEF ReadTime, WaitOrTake, lockVars, serverVars
  <1>3. ASSUME NEW c \in Calls, SetKey(c)
        PROVE  TokenInv'
    BY <1>3 DEF SetKey, serverVars
  <1>4. ASSUME NEW c \in Calls, SetTime(c)
        PROVE  TokenInv'
    BY <1>4 DEF SetTime
  <1>5. ASSUME NEW c \in Calls, Poll(c)
        PROVE  TokenInv'
    BY <1>5 DEF Poll, lockVars, serverVars
  <1>6. ASSUME NEW c \in Calls, Deliver(c)
        PROVE  TokenInv'
    BY <1>6 DEF Deliver, ClearKey
  <1>7. ASSUME NEW c \in Calls, LoseAnswer(c)
        PROVE  TokenInv'
    BY <1>7 DEF LoseAnswer, ClearKey, serverVars
  <1>8. ASSUME NEW c \in Calls, ReleaseKey(c)
        PROVE  TokenInv'
    BY <1>8 DEF ReleaseKey, ClearKey, serverVars
  <1>9. ASSUME NEW c \in Calls, ReleaseTime(c)
        PROVE  TokenInv'
    BY <1>9 DEF ReleaseTime, ClearTime, Settle, serverVars
  <1>10. ASSUME NEW c \in Calls, Fire(c)
        PROVE  TokenInv'
    BY <1>10 DEF Fire, ClearKey, serverVars
  <1>11. ASSUME NEW c \in Calls, FireTime(c)
        PROVE  TokenInv'
    BY <1>11 DEF FireTime, ClearTime, Settle, serverVars
  <1>12. ASSUME NEW c \in Calls, Verify(c)
        PROVE  TokenInv'
    BY <1>12 DEF Verify, lockVars
  <1>13. ASSUME NEW c \in Calls, Rotate(c)
        PROVE  TokenInv'
    BY <1>13 DEF Rotate, lockVars
  <1>14. ASSUME NEW t \in Tabs, Leave(t)
        PROVE  TokenInv'
    BY <1>14 DEF Leave, ClearKey, EndPage, lockVars, serverVars
  <1>15. ASSUME NEW t \in Tabs, Crash(t)
        PROVE  TokenInv'
    BY <1>15 DEF Crash, EndPage, serverVars
  <1>16. ASSUME NEW t \in Tabs, Unload(t)
        PROVE  TokenInv'
    BY <1>16 DEF Unload, ClearTime, serverVars
  <1>17. CASE TurnStale
    BY <1>17 DEF TurnStale, serverVars
  <1>18. CASE UNCHANGED vars
    BY <1>18 DEF vars
  <1> QED
    BY <1>1, <1>2, <1>3, <1>4, <1>5, <1>6, <1>7, <1>8, <1>9, <1>10, <1>11,
       <1>12, <1>13, <1>14, <1>15, <1>16, <1>17, <1>18
       DEF Next, Call, Timer, Server

\* The server drops a token only for a new one.
LEMMA UsedStep ==
  ASSUME IInv, [Next]_vars
  PROVE  UsedInv'
  <1> USE TokenRefreshAssumption DEF IInv, TypeOK, TokenInv, UsedInv,
                                     Answered, Tokens, At, Goto, Open, Free
  <1>1. ASSUME NEW c \in Calls, Begin(c)
        PROVE  UsedInv'
    BY <1>1 DEF Begin, WaitOrTake, lockVars, serverVars
  <1>2. ASSUME NEW c \in Calls, ReadTime(c)
        PROVE  UsedInv'
    BY <1>2 DEF ReadTime, WaitOrTake, lockVars, serverVars
  <1>3. ASSUME NEW c \in Calls, SetKey(c)
        PROVE  UsedInv'
    BY <1>3 DEF SetKey, serverVars
  <1>4. ASSUME NEW c \in Calls, SetTime(c)
        PROVE  UsedInv'
    BY <1>4 DEF SetTime
  <1>5. ASSUME NEW c \in Calls, Poll(c)
        PROVE  UsedInv'
    BY <1>5 DEF Poll, lockVars, serverVars
  <1>6. ASSUME NEW c \in Calls, Deliver(c)
        PROVE  UsedInv'
    BY <1>6 DEF Deliver, ClearKey
  <1>7. ASSUME NEW c \in Calls, LoseAnswer(c)
        PROVE  UsedInv'
    BY <1>7 DEF LoseAnswer, ClearKey, serverVars
  <1>8. ASSUME NEW c \in Calls, ReleaseKey(c)
        PROVE  UsedInv'
    BY <1>8 DEF ReleaseKey, ClearKey, serverVars
  <1>9. ASSUME NEW c \in Calls, ReleaseTime(c)
        PROVE  UsedInv'
    BY <1>9 DEF ReleaseTime, ClearTime, Settle, serverVars
  <1>10. ASSUME NEW c \in Calls, Fire(c)
        PROVE  UsedInv'
    BY <1>10 DEF Fire, ClearKey, serverVars
  <1>11. ASSUME NEW c \in Calls, FireTime(c)
        PROVE  UsedInv'
    BY <1>11 DEF FireTime, ClearTime, Settle, serverVars
  <1>12. ASSUME NEW c \in Calls, Verify(c)
        PROVE  UsedInv'
    BY <1>12 DEF Verify, lockVars
  <1>13. ASSUME NEW c \in Calls, Rotate(c)
        PROVE  UsedInv'
    BY <1>13 DEF Rotate, lockVars
  <1>14. ASSUME NEW t \in Tabs, Leave(t)
        PROVE  UsedInv'
    BY <1>14 DEF Leave, ClearKey, EndPage, lockVars, serverVars
  <1>15. ASSUME NEW t \in Tabs, Crash(t)
        PROVE  UsedInv'
    BY <1>15 DEF Crash, EndPage, serverVars
  <1>16. ASSUME NEW t \in Tabs, Unload(t)
        PROVE  UsedInv'
    BY <1>16 DEF Unload, ClearTime, serverVars
  <1>17. CASE TurnStale
    BY <1>17 DEF TurnStale, serverVars
  <1>18. CASE UNCHANGED vars
    BY <1>18 DEF vars
  <1> QED
    BY <1>1, <1>2, <1>3, <1>4, <1>5, <1>6, <1>7, <1>8, <1>9, <1>10, <1>11,
       <1>12, <1>13, <1>14, <1>15, <1>16, <1>17, <1>18
       DEF Next, Call, Timer, Server

\* A stored answer replaces the cookie that went with its request.
LEMMA RefusalStep ==
  ASSUME IInv, [Next]_vars
  PROVE  RefusalInv'
  <1> USE TokenRefreshAssumption DEF IInv, TypeOK, LockInv, TokenInv, UsedInv,
                                     RefusalInv, Answered, Held, Tokens, At,
                                     Goto, Open, Free
  <1>1. ASSUME NEW c \in Calls, Begin(c)
        PROVE  RefusalInv'
    BY TimedOutStep, <1>1 DEF Begin, WaitOrTake, lockVars, serverVars
  <1>2. ASSUME NEW c \in Calls, ReadTime(c)
        PROVE  RefusalInv'
    BY TimedOutStep, <1>2 DEF ReadTime, WaitOrTake, lockVars, serverVars
  <1>3. ASSUME NEW c \in Calls, SetKey(c)
        PROVE  RefusalInv'
    BY TimedOutStep, <1>3 DEF SetKey, serverVars
  <1>4. ASSUME NEW c \in Calls, SetTime(c)
        PROVE  RefusalInv'
    BY TimedOutStep, <1>4 DEF SetTime
  <1>5. ASSUME NEW c \in Calls, Poll(c)
        PROVE  RefusalInv'
    BY TimedOutStep, <1>5 DEF Poll, lockVars, serverVars
  <1>6. ASSUME NEW c \in Calls, Deliver(c)
        PROVE  RefusalInv'
    BY TimedOutStep, <1>6 DEF Deliver, ClearKey
  <1>7. ASSUME NEW c \in Calls, LoseAnswer(c)
        PROVE  RefusalInv'
    BY TimedOutStep, <1>7 DEF LoseAnswer, ClearKey, serverVars
  <1>8. ASSUME NEW c \in Calls, ReleaseKey(c)
        PROVE  RefusalInv'
    BY TimedOutStep, <1>8 DEF ReleaseKey, ClearKey, serverVars
  <1>9. ASSUME NEW c \in Calls, ReleaseTime(c)
        PROVE  RefusalInv'
    BY TimedOutStep, <1>9 DEF ReleaseTime, ClearTime, Settle, serverVars
  <1>10. ASSUME NEW c \in Calls, Fire(c)
        PROVE  RefusalInv'
    BY TimedOutStep, <1>10 DEF Fire, ClearKey, serverVars
  <1>11. ASSUME NEW c \in Calls, FireTime(c)
        PROVE  RefusalInv'
    BY TimedOutStep, <1>11 DEF FireTime, ClearTime, Settle, serverVars
  <1>12. ASSUME NEW c \in Calls, Verify(c)
        PROVE  RefusalInv'
    BY TimedOutStep, <1>12 DEF Verify, lockVars
  <1>13. ASSUME NEW c \in Calls, Rotate(c)
        PROVE  RefusalInv'
    BY TimedOutStep, <1>13 DEF Rotate, lockVars
  <1>14. ASSUME NEW t \in Tabs, Leave(t)
        PROVE  RefusalInv'
    BY TimedOutStep, <1>14 DEF Leave, ClearKey, EndPage, lockVars, serverVars
  <1>15. ASSUME NEW t \in Tabs, Crash(t)
        PROVE  RefusalInv'
    BY TimedOutStep, <1>15 DEF Crash, EndPage, serverVars
  <1>16. ASSUME NEW t \in Tabs, Unload(t)
        PROVE  RefusalInv'
    BY TimedOutStep, <1>16 DEF Unload, ClearTime, serverVars
  <1>17. CASE TurnStale
    BY TimedOutStep, <1>17 DEF TurnStale, serverVars
  <1>18. CASE UNCHANGED vars
    BY TimedOutStep, <1>18 DEF vars
  <1> QED
    BY <1>1, <1>2, <1>3, <1>4, <1>5, <1>6, <1>7, <1>8, <1>9, <1>10, <1>11,
       <1>12, <1>13, <1>14, <1>15, <1>16, <1>17, <1>18
       DEF Next, Call, Timer, Server

\* The invariant holds in every reachable state.
THEOREM Invariance == Spec => []IInv
  <1>1. Init => IInv
    BY InitIInv
  <1>2. IInv /\ [Next]_vars => IInv'
    BY TypeStep, OneAtATimeStep, LockStep, TokenStep, UsedStep,
       RefusalStep DEF IInv
  <1> QED
    BY <1>1, <1>2, PTL DEF Spec

-----------------------------------------------------------------------------
\* Every variable keeps its type.
THEOREM TypeCorrect == Spec => []TypeOK
  <1>1. IInv => TypeOK
    BY DEF IInv
  <1> QED
    BY <1>1, Invariance, PTL

\* isRefreshing allows a tab one request at a time, until a timer has run,
\* whatever the other tabs do to the lock.
THEOREM TabSends == Spec => []TabSendsOnce
  <1>1. IInv => TabSendsOnce
    BY DEF IInv, LockInv, TimedOut, Held, TabSendsOnce
  <1> QED
    BY <1>1, Invariance, PTL

\* However many tabs renew the token together, the session survives unless a
\* good answer gets lost.
THEOREM SessionKept == Spec => []SessionSurvives
  <1>1. IInv => SessionSurvives
    BY DEF IInv, TokenInv, SessionSurvives, Unheard
  <1> QED
    BY <1>1, Invariance, PTL

\* A renewal is refused only by a race with another tab, with a lost answer or
\* with a timer.
THEOREM RefusalExplained == Spec => []RefusedByRace
  <1>1. IInv => RefusedByRace
    <2> SUFFICES ASSUME IInv, NEW c \in Calls, pc[c] = "await",
    req[c] = "refused",
                        NEW d \in Calls \ {c}, token[d] = token[c],
                        Answered(d),
                        TabOf[d] = TabOf[c], ~Unheard(d)
                 PROVE  TimedOut(TabOf[c])
      BY DEF IInv, RefusalInv, RefusedByRace, TimedOut, Answered
    <2>1. CASE req[d] = "stored"
      BY <2>1 DEF IInv, RefusalInv
    <2>2. CASE req[d] = "renewed"
      BY <2>2 DEF IInv, LockInv, Held, Unheard
    <2> QED
      BY <2>1, <2>2 DEF Answered
  <1> QED
    BY <1>1, Invariance, PTL
=============================================================================
