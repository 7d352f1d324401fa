----------------------- MODULE DifyConversation_proofs -----------------------
(***************************************************************************)
(* Type correctness of DifyConversation, and that a reset is final but for *)
(* the entry that is being written back, for every number of sessions,     *)
(* messages and handlers at once; that a session is found, a conversation  *)
(* bounded and an answer remembered, when a session has one handler at a   *)
(* time.                                                                   *)
(***************************************************************************)
EXTENDS DifyConversation, FiniteSetTheorems, TLAPS

\* A handler that is past the lookup works on an object.
Working == {"count", "send", "sent", "record"}
Holding == Working \cup {"renew", "hold"}
ObjInv == \A m \in Msgs : pc[m] \in Holding => obj[m] \in Msgs

\* The conversation c is known to somebody only when its first query was
\* answered, and then only to those who work on the object of that query.
Belongs(c, o) == c # Nil => pc[c] \in {"record", "over"} /\ obj[c] = o

RememberedInv == \A o \in Msgs : Belongs(conv[o], o)
SentInv == \A m \in Msgs : Belongs(sent[m], obj[m])
UsedInv == \A m \in Msgs : Belongs(used[m], obj[m])

\* What a handler has not reached yet is empty; what it is about to remember
\* is not.
ProgressInv ==
    \A m \in Msgs :
        /\ pc[m] \notin {"sent", "record", "over"} => sent[m] = Nil
        /\ pc[m] \notin {"record", "over"} => used[m] = Nil
        /\ pc[m] = "clear" => KindOf[m] = "resetall"

IInv ==
    /\ TypeOK
    /\ ObjInv
    /\ RememberedInv
    /\ SentInv
    /\ UsedInv
    /\ ProgressInv

-----------------------------------------------------------------------------
\* The initial states satisfy the invariant.
LEMMA InitIInv == Init => IInv
  <1> SUFFICES ASSUME Init PROVE IInv
    OBVIOUS
  <1> USE ConversationAssumption DEF Init
  <1>1. TypeOK
    BY DEF TypeOK, Pcs, Ended
  <1>2. ObjInv /\ ProgressInv
    BY DEF ObjInv, ProgressInv, Working, Holding
  <1>3. RememberedInv /\ SentInv /\ UsedInv
    BY DEF RememberedInv, SentInv, UsedInv, Belongs
  <1> QED
    BY <1>1, <1>2, <1>3 DEF IInv

\* Every step of a handler keeps the invariant.
LEMMA HandlerIInv ==
  ASSUME IInv, NEW m \in Msgs, Handler(m)
  PROVE  IInv'
  <1> USE ConversationAssumption DEF IInv, TypeOK, Pcs, Ended, Working, Holding,
                                     At, Goto, dictVars
  <1>1. CASE Begin(m)
    BY <1>1 DEF Begin, ObjInv, ProgressInv, RememberedInv, SentInv, UsedInv,
                Belongs
  <1>2. CASE Find(m)
    BY <1>2 DEF Find, Found, Missing, ObjInv, ProgressInv, RememberedInv, SentInv, UsedInv,
                Belongs
  <1>3. CASE Create(m)
    BY <1>3 DEF Create, ObjInv, ProgressInv, RememberedInv, SentInv, UsedInv,
                Belongs
  <1>4. CASE Fetch(m)
    BY <1>4 DEF Fetch, ObjInv, ProgressInv, RememberedInv, SentInv, UsedInv,
                Belongs
  <1>5. CASE Count(m)
    BY <1>5 DEF Count, ObjInv, ProgressInv, RememberedInv, SentInv, UsedInv,
                Belongs
  <1>6. CASE Send(m)
    BY <1>6 DEF Send, ObjInv, ProgressInv, RememberedInv, SentInv, UsedInv,
                Belongs
  <1>7. CASE Respond(m)
    BY <1>7 DEF Respond, ObjInv, ProgressInv, RememberedInv, SentInv, UsedInv,
                Belongs
  <1>8. CASE Record(m)
    BY <1>8 DEF Record, ObjInv, ProgressInv, RememberedInv, SentInv, UsedInv,
                Belongs
  <1>9. CASE Delete(m) \/ Clear(m)
    BY <1>9 DEF Delete, Clear, Forget, ObjInv, ProgressInv, RememberedInv,
                SentInv, UsedInv, Belongs
  <1>10. CASE Drop(m)
    BY <1>10 DEF Drop, Missing, ObjInv, ProgressInv, RememberedInv, SentInv,
                 UsedInv, Belongs
  <1>11. CASE WriteBack(m)
    BY <1>11 DEF WriteBack, Found, ObjInv, ProgressInv, RememberedInv, SentInv,
                 UsedInv, Belongs
  <1> QED
    BY <1>1, <1>2, <1>3, <1>4, <1>5, <1>6, <1>7, <1>8, <1>9, <1>10, <1>11
       DEF Handler

\* An expiry touches the dictionary only.
LEMMA ExpireIInv ==
  ASSUME IInv, NEW s \in Sessions, Expire(s)
  PROVE  IInv'
  BY DEF IInv, TypeOK, Expire, ObjInv, ProgressInv, RememberedInv, SentInv,
         UsedInv, Belongs, At

\* Every step keeps the invariant.
LEMMA IInvStep ==
  ASSUME IInv, [Next]_vars
  PROVE  IInv'
  <1>1. CASE Next
    BY <1>1, HandlerIInv, ExpireIInv DEF Next
  <1>2. CASE UNCHANGED vars
    BY <1>2 DEF vars, IInv, TypeOK, ObjInv, ProgressInv, RememberedInv,
                SentInv, UsedInv, Belongs
  <1> QED
    BY <1>1, <1>2

\* The invariant holds in every reachable state.
THEOREM Invariance == Spec => []IInv
  <1>1. Init => IInv
    BY InitIInv
  <1>2. IInv /\ [Next]_vars => IInv'
    BY IInvStep
  <1> QED
    BY <1>1, <1>2, PTL DEF Spec

\* Every variable keeps its type, and the counter its limit.
THEOREM TypeCorrect == Spec => []TypeOK
  <1>1. IInv => TypeOK
    BY DEF IInv
  <1> QED
    BY <1>1, Invariance, PTL

-----------------------------------------------------------------------------
(* What a reset forgets.                                                   *)

\* An object serves the session of the message that created it.
OwnInv ==
    /\ \A s \in Sessions : sessions[s] # Nil => SessionOf[sessions[s]] = s
    /\ \A m \in Msgs : obj[m] # Nil => SessionOf[obj[m]] = SessionOf[m]

\* Handlers fetch what their own session created.
LEMMA OwnStep ==
  ASSUME IInv, OwnInv, [Next]_vars
  PROVE  OwnInv'
  <1> USE ConversationAssumption DEF IInv, TypeOK, OwnInv, dictVars
  <1>1. ASSUME NEW m \in Msgs, Create(m) \/ WriteBack(m)
        PROVE  OwnInv'
    BY <1>1 DEF Create, WriteBack
  <1>2. ASSUME NEW m \in Msgs, Find(m) \/ Fetch(m)
        PROVE  OwnInv'
    BY <1>2 DEF Find, Fetch
  <1>3. ASSUME NEW m \in Msgs, Drop(m) \/ Delete(m) \/ Clear(m)
        PROVE  OwnInv'
    BY <1>3 DEF Drop, Delete, Clear
  <1>4. ASSUME NEW s \in Sessions, Expire(s)
        PROVE  OwnInv'
    BY <1>4 DEF Expire
  <1>5. CASE UNCHANGED <<sessions, obj>>
    BY <1>5
  <1> QED
    BY <1>1, <1>2, <1>3, <1>4, <1>5
       DEF Next, Handler, Begin, Count, Send, Respond, Record, vars

\* Where a message has not made a session object.
Early == {"new", "find", "drop", "renew", "create"}

\* No object that was forgotten can be found again: it is neither in the
\* dictionary nor about to be written there.
ForgottenInv ==
    /\ \A s \in Sessions : sessions[s] \notin forgotten
    /\ \A m \in Writers : obj[m] \notin forgotten
    /\ \A o \in Msgs : pc[o] \in Early =>
        /\ o \notin forgotten
        /\ \A s \in Sessions : sessions[s] # o
        /\ \A m \in Msgs : obj[m] # o

\* Every step keeps it.
LEMMA ForgottenStep ==
  ASSUME IInv, OwnInv, ForgottenInv, [Next]_vars
  PROVE  ForgottenInv'
  <1> USE ConversationAssumption DEF At, Goto, Early, Writers
  <1>0. TypeOK /\ ObjInv
    BY DEF IInv
  <1> USE DEF TypeOK, ForgottenInv, dictVars
  <1>1. ASSUME NEW m \in Msgs, Find(m)
        PROVE  ForgottenInv'
    BY <1>0, <1>1 DEF Find, Found, Missing
  <1>2. ASSUME NEW m \in Msgs, Drop(m)
        PROVE  ForgottenInv'
    BY <1>0, <1>2 DEF Drop, Missing
  <1>3. ASSUME NEW m \in Msgs, WriteBack(m)
        PROVE  ForgottenInv'
    BY <1>0, <1>3 DEF WriteBack, Found
  <1>4. ASSUME NEW m \in Msgs, Create(m)
        PROVE  ForgottenInv'
    BY <1>0, <1>4 DEF Create
  <1>5. ASSUME NEW m \in Msgs, Fetch(m)
        PROVE  ForgottenInv'
    BY <1>0, <1>5 DEF Fetch
  <1>6. ASSUME NEW m \in Msgs, Delete(m) \/ Clear(m)
        PROVE  ForgottenInv'
    <2>1. PICK D \in SUBSET Sessions :
            /\ Forget(D)
            /\ \A s \in Sessions : sessions'[s] = IF s \in D THEN Nil ELSE sessions[s]
      <3>1. CASE Delete(m)
        BY <1>0, <3>1 DEF Delete
      <3>2. CASE Clear(m)
        BY <1>0, <3>2 DEF Clear
      <3> QED
        BY <1>6, <3>1, <3>2
    <2>2. /\ obj' = obj
          /\ \A n \in Msgs : pc'[n] \in Early \cup {"hold"} => pc'[n] = pc[n]
      BY <1>0, <1>6 DEF Delete, Clear
    <2>3. \A o \in forgotten' : \/ o \in forgotten
                              \/ /\ o # Nil
                                 /\ \E s \in D : o = sessions[s]
                                 /\ \A n \in Writers : obj[n] # o
      BY <2>1 DEF Forget
    <2>4. \A s \in Sessions : sessions'[s] \notin forgotten'
      BY <1>0, <2>1, <2>3 DEF OwnInv
    <2>5. \A n \in Msgs : pc'[n] \in {"renew", "hold"} => obj'[n] \notin forgotten'
      BY <1>0, <2>2, <2>3
    <2>6. \A o \in Msgs : pc'[o] \in Early =>
            /\ o \notin forgotten'
            /\ \A s \in Sessions : sessions'[s] # o
            /\ \A n \in Msgs : obj'[n] # o
      BY <1>0, <2>1, <2>2, <2>3
    <2> QED
      BY <2>4, <2>5, <2>6
  <1>7. CASE /\ UNCHANGED <<sessions, obj, forgotten>>
             /\ \A m \in Msgs : pc'[m] \in Early \cup {"hold"} => pc'[m] = pc[m]
    BY <1>0, <1>7
  <1>8. ASSUME NEW m \in Msgs,
               Begin(m) \/ Count(m) \/ Send(m) \/ Respond(m) \/ Record(m)
        PROVE  ForgottenInv'
    BY <1>0, <1>8 DEF Begin, Count, Send, Respond, Record
  <1>9. ASSUME NEW s \in Sessions, Expire(s)
        PROVE  ForgottenInv'
    BY <1>7, <1>9 DEF Expire
  <1>10. CASE UNCHANGED vars
    BY <1>7, <1>10 DEF vars
  <1> QED
    BY <1>1, <1>2, <1>3, <1>4, <1>5, <1>6, <1>8, <1>9, <1>10 DEF Next, Handler

\* What a reset has dropped takes no further query, with any number of handlers
\* of a session at once, unless a handler was about to write it back.
THEOREM ResetIsForgotten == Spec => ResetForgets
  <1>1. Init => ForgottenInv
    BY ConversationAssumption DEF Init, ForgottenInv, Writers, Early
  <1>5. Init => OwnInv
    BY ConversationAssumption DEF Init, OwnInv
  <1>6. IInv /\ OwnInv /\ [Next]_vars => OwnInv'
    BY OwnStep
  <1>2. IInv /\ OwnInv /\ ForgottenInv /\ [Next]_vars => ForgottenInv'
    BY ForgottenStep
  <1>3. ASSUME IInv, ForgottenInv, Next, NEW m \in Msgs,
               pc[m] \in {"fetch", "hold"}, pc'[m] = "count"
        PROVE  obj'[m] \notin forgotten
    <2> USE DEF At, Goto
    <2>1. TypeOK
      BY <1>3 DEF IInv
    <2>2. ~\E s \in Sessions : Expire(s)
      BY <1>3, <2>1 DEF Expire
    <2>3. PICK n \in Msgs : Handler(n)
      BY <1>3, <2>2 DEF Next
    <2>4. Fetch(n) \/ WriteBack(n)
      <3>1. pc'[n] = "count" => Fetch(n) \/ WriteBack(n)
        BY <2>1, <2>3 DEF Handler, Begin, Find, Drop, Create, Count, Send, Respond,
                          Record, Delete, Clear, Found, Missing, TypeOK
      <3>2. n # m => pc'[m] = pc[m]
        BY <2>1, <2>3 DEF Handler, Begin, Find, Drop, Create, Fetch, WriteBack, Count,
                          Send, Respond, Record, Delete, Clear, TypeOK
      <3> QED
        BY <1>3, <3>1, <3>2
    <2> QED
      BY <1>3, <2>1, <2>4, ConversationAssumption
         DEF Fetch, WriteBack, ForgottenInv, Writers, TypeOK
  <1>4. IInv /\ ForgottenInv /\ [Next]_vars =>
          [\A m \in Msgs : pc[m] \in {"fetch", "hold"} /\ pc'[m] = "count"
             => obj'[m] \notin forgotten]_vars
    BY <1>3
  <1> QED
    BY <1>1, <1>2, <1>4, <1>5, <1>6, Invariance, PTL DEF Spec, ResetForgets

-----------------------------------------------------------------------------
(* What depends on the dispatcher: with one message of a session at a time *)
(* a session is found, and a conversation bounded.                         *)

\* One message of a session is in handling.
OneAtATime ==
    \A m, n \in Msgs :
        m \in Handled(SessionOf[m]) /\ n \in Handled(SessionOf[m]) => m = n

\* Only a reset of everybody takes the object from a handler about to fetch or
\* delete it.
FoundInv ==
    \A m \in Msgs : pc[m] \in {"fetch", "delete"} /\ sessions[SessionOf[m]] = Nil =>
        \E n \in Msgs : KindOf[n] = "resetall" /\ pc[n] = "over"

\* The counter of an object counts the queries of its conversation, the one on
\* its way included.
CountInv ==
    /\ \A o \in Msgs : conv[o] # Nil =>
        Cardinality(QueriesOf(conv[o])) <= counter[o]
    /\ \A m \in Msgs : pc[m] \in {"send", "sent"} =>
        /\ counter[obj[m]] >= 1
        /\ conv[obj[m]] # Nil =>
             Cardinality(QueriesOf(conv[obj[m]])) + 1 <= counter[obj[m]]
    /\ \A m \in Msgs : pc[m] = "sent" => sent[m] = conv[obj[m]]
    /\ \A m \in Msgs : pc[m] = "record" =>
        \/ used[m] = m /\ QueriesOf(m) = {m} /\ counter[obj[m]] >= 1
        \/ used[m] = conv[obj[m]]

OneInv ==
    /\ IInv
    /\ OneAtATime
    /\ OwnInv
    /\ FoundInv
    /\ SessionFound
    /\ CountInv
    /\ BoundedConversation

\* The initial states satisfy it.
LEMMA InitOneInv == Init => OneInv
  <1> SUFFICES ASSUME Init PROVE OneInv
    OBVIOUS
  <1> USE ConversationAssumption
  <1>1. IInv
    BY InitIInv
  <1>2. OneAtATime /\ OwnInv /\ FoundInv /\ SessionFound
    BY DEF Init, OneAtATime, Handled, OwnInv, FoundInv, SessionFound
  <1>3. \A c \in Msgs : QueriesOf(c) = {}
    BY DEF Init, QueriesOf
  <1>4. BoundedConversation
    BY <1>3, FS_EmptySet DEF BoundedConversation
  <1>5. CountInv
    BY DEF Init, CountInv
  <1> QED
    BY <1>1, <1>2, <1>4, <1>5 DEF OneInv

\* A handler begins only when no other one of its session is in handling.
LEMMA OneAtATimeStep ==
  ASSUME Concurrency = 1, OneInv, [Next]_vars
  PROVE  OneAtATime'
  <1> USE ConversationAssumption
          DEF OneInv, IInv, TypeOK, OneAtATime, Handled, Ended, At, Goto
  <1>1. ASSUME NEW m \in Msgs, Begin(m)
        PROVE  OneAtATime'
    <2>1. IsFiniteSet(Handled(SessionOf[m]))
      BY FS_Subset
    <2>2. PICK H : H = Handled(SessionOf[m])
      OBVIOUS
    <2>3. IsFiniteSet(H) /\ Cardinality(H) < 1
      BY <1>1, <2>1, <2>2 DEF Begin
    <2>4. H = {}
      BY <2>3, FS_EmptySet, FS_CardinalityType
    <2> QED
      BY <1>1, <2>2, <2>4 DEF Begin
  <1>2. ASSUME NEW m \in Msgs, Handler(m), ~Begin(m)
        PROVE  OneAtATime'
    <2>1. /\ pc[m] \notin {"new"} \cup Ended
          /\ \A n \in Msgs : n # m => pc'[n] = pc[n]
      BY <1>2 DEF Handler, Find, Drop, WriteBack, Create, Fetch, Count, Send,
                  Respond, Record, Delete, Clear, Found, Missing
    <2> QED
      BY <2>1
  <1>3. ASSUME NEW s \in Sessions, Expire(s)
        PROVE  OneAtATime'
    BY <1>3 DEF Expire
  <1>4. CASE UNCHANGED vars
    BY <1>4 DEF vars
  <1> QED
    BY <1>1, <1>2, <1>3, <1>4 DEF Next

\* Nobody of its own session clears the dictionary under a handler, and looking
\* for an entry keeps it from expiring.
LEMMA FoundStep ==
  ASSUME OneInv, [Next]_vars
  PROVE  FoundInv' /\ SessionFound'
  <1> USE ConversationAssumption
          DEF OneInv, IInv, TypeOK, FoundInv, SessionFound, At, Goto, dictVars
  <1> DEFINE Kept == /\ \A m \in Msgs : pc'[m] = "raised" => pc[m] = "raised"
                     /\ \A m \in Msgs : pc[m] = "over" => pc'[m] = "over"
  <1>1. ASSUME NEW m \in Msgs, Find(m)
        PROVE  FoundInv' /\ SessionFound'
    BY <1>1 DEF Find, Found, Missing
  <1>2. ASSUME NEW m \in Msgs, Create(m)
        PROVE  FoundInv' /\ SessionFound'
    BY <1>2 DEF Create
  <1>3. ASSUME NEW m \in Msgs, Fetch(m)
        PROVE  FoundInv' /\ SessionFound'
    BY <1>3 DEF Fetch
  <1>4. ASSUME NEW m \in Msgs, Clear(m)
        PROVE  FoundInv' /\ SessionFound'
    <2>1. KindOf[m] = "resetall"
      BY <1>4 DEF Clear, ProgressInv
    <2> QED
      BY <1>4, <2>1 DEF Clear
  <1>8. ASSUME NEW m \in Msgs, WriteBack(m)
        PROVE  FoundInv' /\ SessionFound'
    <2>1. obj[m] # Nil
      BY <1>8 DEF WriteBack, ObjInv, Holding
    <2> QED
      BY <1>8, <2>1 DEF WriteBack, Found
  <1>9. ASSUME NEW m \in Msgs, Drop(m) \/ Delete(m)
        PROVE  FoundInv' /\ SessionFound'
    <2>1. \A n \in Msgs : n # m /\ pc[n] \in {"fetch", "delete"} =>
              SessionOf[n] # SessionOf[m]
      BY <1>9 DEF Drop, Delete, OneAtATime, Handled, Ended
    <2> QED
      BY <1>9, <2>1 DEF Drop, Delete, Missing
  <1>5. ASSUME NEW s \in Sessions, Expire(s)
        PROVE  FoundInv' /\ SessionFound'
    BY <1>5 DEF Expire
  <1>6. ASSUME NEW m \in Msgs,
               Begin(m) \/ Count(m) \/ Send(m) \/ Respond(m) \/ Record(m)
        PROVE  FoundInv' /\ SessionFound'
    <2>1. /\ sessions' = sessions
          /\ pc[m] \notin {"fetch", "delete", "raised", "over"}
          /\ pc'[m] \notin {"fetch", "delete", "raised"}
          /\ \A n \in Msgs : n # m => pc'[n] = pc[n]
      BY <1>6 DEF Begin, Count, Send, Respond, Record
    <2> QED
      BY <2>1
  <1>7. CASE UNCHANGED vars
    BY <1>7 DEF vars
  <1> QED
    BY <1>1, <1>2, <1>3, <1>4, <1>5, <1>6, <1>7, <1>8, <1>9 DEF Next, Handler

\* The handlers that work on one object are one handler.
LEMMA Alone ==
  ASSUME OneInv, NEW m \in Msgs, NEW n \in Msgs,
         pc[m] \in Working, pc[n] \in Working, obj[m] = obj[n]
  PROVE  m = n
  <1>1. obj[m] \in Msgs /\ obj[m] # Nil
    BY ConversationAssumption DEF OneInv, IInv, ObjInv, Holding
  <1>2. SessionOf[m] = SessionOf[n]
    BY <1>1 DEF OneInv, OwnInv
  <1>3. m \in Handled(SessionOf[m]) /\ n \in Handled(SessionOf[m])
    BY <1>2 DEF Handled, Ended, Working
  <1> QED
    BY <1>3 DEF OneInv, OneAtATime

\* The queries of a conversation are finitely many.
LEMMA QueriesFinite ==
  ASSUME NEW c
  PROVE  IsFiniteSet(QueriesOf(c)) /\ Cardinality(QueriesOf(c)) \in Nat
  BY ConversationAssumption, FS_Subset, FS_CardinalityType DEF QueriesOf

\* The counter is raised before a query is sent, and the conversation dropped
\* when it is full.
LEMMA CountStep ==
  ASSUME OneInv, [Next]_vars
  PROVE  CountInv' /\ BoundedConversation'
  <1> USE ConversationAssumption DEF At, Goto
  <1>0. TypeOK /\ ObjInv /\ CountInv /\ BoundedConversation /\ RememberedInv
    BY DEF OneInv, IInv
  <1>1. ASSUME UNCHANGED used
        PROVE  /\ BoundedConversation'
               /\ \A c : Cardinality(QueriesOf(c))' = Cardinality(QueriesOf(c))
    BY <1>0, <1>1 DEF QueriesOf, BoundedConversation
  <1>2. CASE /\ UNCHANGED <<counter, conv, sent, used>>
             /\ \A m \in Msgs : pc'[m] \in {"send", "sent", "record"} =>
                                  pc'[m] = pc[m] /\ obj'[m] = obj[m]
    <2>1. UNCHANGED <<counter, conv, sent, used>>
      BY <1>2
    <2>2. \A c : QueriesOf(c)' = QueriesOf(c)
      BY <2>1 DEF QueriesOf
    <2>3. BoundedConversation'
      BY <1>0, <2>2 DEF BoundedConversation
    <2>4. CountInv'
      BY <1>0, <1>2, <2>1, <2>2 DEF CountInv
    <2> QED
      BY <2>3, <2>4
  <1>3. ASSUME NEW m \in Msgs, Count(m)
        PROVE  CountInv'
    <2>1. /\ pc[m] = "count" /\ obj[m] \in Msgs
          /\ UNCHANGED <<obj, sent, used>>
          /\ pc' = [pc EXCEPT ![m] = "send"]
          /\ \A o \in Msgs : o # obj[m] => counter'[o] = counter[o] /\ conv'[o] = conv[o]
          /\ \/ counter'[obj[m]] = 1 /\ conv'[obj[m]] = Nil
             \/ counter'[obj[m]] = counter[obj[m]] + 1 /\ conv'[obj[m]] = conv[obj[m]]
          /\ counter[obj[m]] \in Nat
      BY <1>0, <1>3 DEF Count, TypeOK, ObjInv, Working, Holding
    <2>2. \A n \in Msgs : n # m /\ pc[n] \in Working => obj[n] # obj[m]
      BY <2>1, Alone DEF Working
    <2>3. \A c : Cardinality(QueriesOf(c))' = Cardinality(QueriesOf(c))
      BY <1>1, <2>1
    <2>4. \A c : Cardinality(QueriesOf(c)) \in Nat
      BY QueriesFinite
    <2>5. \A n \in Msgs : n # m => pc'[n] = pc[n]
      BY <1>0, <2>1 DEF TypeOK
    <2>6. pc'[m] = "send"
      BY <1>0, <2>1 DEF TypeOK
    <2>7. ASSUME NEW o \in Msgs, conv'[o] # Nil
          PROVE  Cardinality(QueriesOf(conv[o]))' <= counter'[o]
      BY <1>0, <2>1, <2>3, <2>4, <2>7 DEF CountInv
    <2>8. ASSUME NEW n \in Msgs, pc'[n] \in {"send", "sent"}
          PROVE  /\ counter'[obj'[n]] >= 1
                 /\ conv'[obj'[n]] # Nil =>
                      Cardinality(QueriesOf(conv[obj[n]]))' + 1 <= counter'[obj'[n]]
      <3>1. CASE n = m
        BY <1>0, <2>1, <2>3, <2>4, <3>1 DEF CountInv
      <3>2. CASE n # m
        BY <1>0, <2>1, <2>2, <2>3, <2>4, <2>5, <2>8, <3>2
           DEF CountInv, ObjInv, Working, Holding
      <3> QED
        BY <3>1, <3>2
    <2>9. ASSUME NEW n \in Msgs, pc'[n] \in {"sent", "record"}
          PROVE  /\ n # m /\ pc'[n] = pc[n] /\ obj'[n] = obj[n]
                 /\ conv'[obj[n]] = conv[obj[n]] /\ counter'[obj[n]] = counter[obj[n]]
      BY <1>0, <2>1, <2>2, <2>5, <2>6, <2>9 DEF ObjInv, Working, Holding
    <2> QED
      <3>1. \A n \in Msgs : QueriesOf(n)' = QueriesOf(n)
        BY <2>1 DEF QueriesOf
      <3>2. \A n \in Msgs : pc'[n] = "sent" => sent'[n] = conv'[obj'[n]]
        BY <1>0, <2>1, <2>9 DEF CountInv
      <3>3. ASSUME NEW n \in Msgs, pc'[n] = "record"
            PROVE  \/ /\ used'[n] = n /\ QueriesOf(n)' = {n}
                      /\ counter'[obj'[n]] >= 1
                   \/ used'[n] = conv'[obj'[n]]
        BY <1>0, <2>1, <2>9, <3>1, <3>3 DEF CountInv
      <3> QED
        BY <2>7, <2>8, <3>2, <3>3 DEF CountInv
  <1>4. ASSUME NEW m \in Msgs, Send(m)
        PROVE  CountInv'
    <2>1. /\ pc[m] = "send" /\ UNCHANGED <<counter, conv, obj, used>>
          /\ pc'[m] = "sent" /\ sent'[m] = conv[obj[m]]
          /\ \A n \in Msgs : n # m => pc'[n] = pc[n] /\ sent'[n] = sent[n]
      BY <1>0, <1>4 DEF Send, TypeOK
    <2> QED
      BY <1>0, <2>1 DEF CountInv, QueriesOf
  <1>5. ASSUME NEW m \in Msgs, Record(m)
        PROVE  CountInv'
    <2>1. /\ pc[m] = "record" /\ obj[m] \in Msgs
          /\ UNCHANGED <<counter, obj, sent, used>>
          /\ pc'[m] = "over" /\ \A n \in Msgs : n # m => pc'[n] = pc[n]
          /\ \A o \in Msgs : o # obj[m] => conv'[o] = conv[o]
          /\ conv'[obj[m]] = IF conv[obj[m]] = Nil THEN used[m] ELSE conv[obj[m]]
      BY <1>0, <1>5 DEF Record, TypeOK, ObjInv, Working, Holding
    <2>2. ASSUME NEW n \in Msgs, pc'[n] \in {"send", "sent", "record"}
          PROVE  /\ n # m /\ pc'[n] = pc[n] /\ obj'[n] = obj[n]
                 /\ conv'[obj[n]] = conv[obj[n]]
      BY <1>0, <2>1, <2>2, Alone DEF ObjInv, Working, Holding
    <2>3. \A c : QueriesOf(c)' = QueriesOf(c)
      BY <2>1 DEF QueriesOf
    <2>4. conv'[obj[m]] # Nil =>
            Cardinality(QueriesOf(conv'[obj[m]])) <= counter[obj[m]]
      <3>1. CASE conv[obj[m]] # Nil
        BY <1>0, <2>1, <3>1 DEF CountInv
      <3>2. CASE conv[obj[m]] = Nil /\ used[m] # Nil
        <4>1. QueriesOf(used[m]) = {m} /\ counter[obj[m]] >= 1
          BY <1>0, <2>1, <3>2 DEF CountInv
        <4>2. Cardinality(QueriesOf(used[m])) = 1
          BY <4>1, FS_Singleton
        <4>3. counter[obj[m]] \in Nat /\ conv'[obj[m]] = used[m]
          BY <1>0, <2>1, <3>2 DEF TypeOK
        <4> QED
          BY <4>1, <4>2, <4>3
      <3> QED
        BY <2>1, <3>1, <3>2
    <2>5. ASSUME NEW o \in Msgs, conv'[o] # Nil
          PROVE  Cardinality(QueriesOf(conv[o])') <= counter'[o]
      BY <1>0, <2>1, <2>3, <2>4, <2>5 DEF CountInv
    <2> QED
      BY <1>0, <2>1, <2>2, <2>3, <2>5 DEF CountInv
  <1>6. ASSUME NEW m \in Msgs, Respond(m)
        PROVE  CountInv' /\ BoundedConversation'
    <2>1. /\ pc[m] = "sent" /\ UNCHANGED <<counter, conv, obj, sent>>
          /\ used[m] = Nil /\ obj[m] \in Msgs /\ sent[m] = conv[obj[m]]
          /\ \A n \in Msgs : n # m => pc'[n] = pc[n] /\ used'[n] = used[n]
          /\ \/ used'[m] = Nil /\ pc'[m] = "over"
             \/ /\ used'[m] = IF sent[m] = Nil THEN m ELSE sent[m]
                /\ pc'[m] \in {"over", "record"}
      BY <1>0, <1>6
         DEF Respond, TypeOK, ObjInv, Working, Holding, CountInv, OneInv, IInv,
             ProgressInv
    <2>2. \A c : c # Nil /\ c # used'[m] => QueriesOf(c)' = QueriesOf(c)
      BY <2>1 DEF QueriesOf
    <2>3. ASSUME NEW n \in Msgs, n # m, pc'[n] \in {"send", "sent", "record"}
          PROVE  pc'[n] = pc[n] /\ obj[n] # obj[m] /\ obj[n] \in Msgs
      BY <1>0, <2>1, <2>3, Alone DEF ObjInv, Working, Holding
    <2>4. CASE used'[m] = Nil
      <3>1. \A c : c # Nil => QueriesOf(c)' = QueriesOf(c)
        BY <2>2, <2>4
      <3>2. \A c \in Msgs : c # Nil
        OBVIOUS
      <3>3. BoundedConversation'
        BY <1>0, <3>1, <3>2 DEF BoundedConversation
      <3> QED
        BY <1>0, <2>1, <2>3, <2>4, <3>1, <3>2, <3>3 DEF CountInv
    <2>5. CASE sent[m] = Nil /\ used'[m] = m
      <3>1. QueriesOf(m) = {} /\ \A o \in Msgs : conv[o] # m
        BY <1>0, <2>1
           DEF OneInv, IInv, UsedInv, RememberedInv, Belongs, QueriesOf
      <3>2. QueriesOf(m)' = {m}
        BY <2>1, <2>5, <3>1 DEF QueriesOf
      <3>3. Cardinality(QueriesOf(m)') = 1
        BY <3>2, FS_Singleton
      <3>4. BoundedConversation'
        BY <1>0, <2>2, <2>5, <3>3 DEF BoundedConversation
      <3>5. counter[obj[m]] >= 1
        BY <1>0, <2>1 DEF CountInv
      <3>6. \A o \in Msgs : conv[o] # Nil =>
              QueriesOf(conv[o])' = QueriesOf(conv[o])
        BY <2>1, <2>2, <2>5, <3>1
      <3> QED
        BY <1>0, <2>1, <2>2, <2>3, <2>5, <3>1, <3>2, <3>4, <3>5, <3>6
           DEF CountInv
    <2>6. CASE sent[m] # Nil /\ used'[m] = sent[m]
      <3> DEFINE c == conv[obj[m]]
      <3>1. c # Nil /\ c = sent[m] /\ c \in Msgs /\ c = used'[m]
        BY <1>0, <2>1, <2>6 DEF TypeOK
      <3>2. QueriesOf(c)' = QueriesOf(c) \cup {m} /\ m \notin QueriesOf(c)
        BY <2>1, <3>1 DEF QueriesOf
      <3>3. Cardinality(QueriesOf(c)') = Cardinality(QueriesOf(c)) + 1
        BY <3>2, QueriesFinite, FS_AddElement
      <3>4. Cardinality(QueriesOf(c)') <= counter[obj[m]]
        BY <1>0, <2>1, <3>1, <3>3 DEF CountInv
      <3>5. BoundedConversation'
        BY <1>0, <2>1, <2>2, <3>1, <3>3, <3>4, QueriesFinite
           DEF BoundedConversation, TypeOK
      <3>6. \A o \in Msgs : o # obj[m] /\ conv[o] # Nil => conv[o] # c
        BY <1>0, <3>1, <2>1 DEF RememberedInv, Belongs
      <3>7. \A o \in Msgs : o # obj[m] /\ conv[o] # Nil =>
              QueriesOf(conv[o])' = QueriesOf(conv[o])
        BY <2>1, <2>2, <3>1, <3>6
      <3> QED
        <4>1. ASSUME NEW o \in Msgs, conv'[o] # Nil
              PROVE  Cardinality(QueriesOf(conv[o])') <= counter'[o]
          BY <1>0, <2>1, <3>4, <3>7, <4>1 DEF CountInv
        <4>2. ASSUME NEW n \in Msgs, pc'[n] \in {"send", "sent"}
              PROVE  /\ n # m /\ pc'[n] = pc[n] /\ obj[n] # obj[m]
                     /\ obj[n] \in Msgs
          BY <2>1, <2>3, <4>2
        <4>3. ASSUME NEW n \in Msgs, pc'[n] \in {"send", "sent"}
              PROVE  /\ counter'[obj'[n]] >= 1
                     /\ conv'[obj'[n]] # Nil =>
                          Cardinality(QueriesOf(conv[obj[n]])') + 1
                            <= counter'[obj'[n]]
          BY <1>0, <2>1, <3>7, <4>2, <4>3 DEF CountInv
        <4>4. ASSUME NEW n \in Msgs, pc'[n] = "sent"
              PROVE  sent'[n] = conv'[obj'[n]]
          BY <1>0, <2>1, <4>2, <4>4 DEF CountInv
        <4>5. ASSUME NEW n \in Msgs, pc'[n] = "record"
              PROVE  \/ /\ used'[n] = n /\ QueriesOf(n)' = {n}
                        /\ counter'[obj'[n]] >= 1
                     \/ used'[n] = conv'[obj'[n]]
          <5>1. CASE n = m
            BY <2>1, <3>1, <5>1
          <5>2. CASE n # m /\ used[n] = conv[obj[n]]
            BY <2>1, <5>2
          <5>3. CASE n # m /\ used[n] # conv[obj[n]]
            <6>1. used[n] = n /\ QueriesOf(n) = {n} /\ counter[obj[n]] >= 1
              BY <1>0, <2>1, <4>5, <5>3 DEF CountInv
            <6>2. n # c
              BY <2>1, <2>3, <3>1, <4>5, <5>3
                 DEF OneInv, IInv, RememberedInv, Belongs
            <6> QED
              BY <2>1, <2>2, <3>1, <5>3, <6>1, <6>2
          <5> QED
            BY <5>1, <5>2, <5>3
        <4> QED
          BY <3>5, <4>1, <4>3, <4>4, <4>5 DEF CountInv
    <2> QED
      BY <2>1, <2>4, <2>5, <2>6
  <1>7. ASSUME NEW m \in Msgs,
               \/ Begin(m) \/ Find(m) \/ Drop(m) \/ WriteBack(m) \/ Create(m)
               \/ Fetch(m) \/ Delete(m) \/ Clear(m)
        PROVE  CountInv' /\ BoundedConversation'
    BY <1>0, <1>2, <1>7 DEF Begin, Find, Drop, WriteBack, Create, Fetch, Delete,
                            Clear, Found, Missing, TypeOK
  <1>8. ASSUME NEW s \in Sessions, Expire(s)
        PROVE  CountInv' /\ BoundedConversation'
    BY <1>2, <1>8 DEF Expire
  <1>9. CASE UNCHANGED vars
    BY <1>2, <1>9 DEF vars
  <1>10. ASSUME NEW m \in Msgs, Count(m) \/ Send(m) \/ Record(m)
         PROVE  UNCHANGED used
    BY <1>10 DEF Count, Send, Record
  <1> QED
    BY <1>1, <1>3, <1>4, <1>5, <1>6, <1>7, <1>8, <1>9, <1>10 DEF Next, Handler

\* With one message of a session at a time, the invariant holds in every
\* reachable state.
THEOREM OneInvariance ==
  ASSUME Concurrency = 1
  PROVE  Spec => []OneInv
  <1>1. Init => OneInv
    BY InitOneInv
  <1>2. OneInv /\ [Next]_vars => OneInv'
    <2> SUFFICES ASSUME OneInv, [Next]_vars PROVE OneInv'
      OBVIOUS
    <2>1. IInv'
      BY IInvStep DEF OneInv
    <2>2. OneAtATime' /\ OwnInv' /\ FoundInv' /\ SessionFound'
      BY OneAtATimeStep, OwnStep, FoundStep DEF OneInv
    <2>3. CountInv' /\ BoundedConversation'
      BY CountStep
    <2> QED
      BY <2>1, <2>2, <2>3 DEF OneInv
  <1> QED
    BY <1>1, <1>2, PTL DEF Spec

\* A query finds its session, whatever resets and expires, unless everybody is
\* reset.
THEOREM SessionIsFound ==
  ASSUME Concurrency = 1
  PROVE  Spec => []SessionFound
  <1>1. OneInv => SessionFound
    BY DEF OneInv
  <1> QED
    BY <1>1, OneInvariance, PTL

\* No conversation takes more queries than dify_conversation_max_messages.
THEOREM ConversationBounded ==
  ASSUME Concurrency = 1
  PROVE  Spec => []BoundedConversation
  <1>1. OneInv => BoundedConversation
    BY DEF OneInv
  <1> QED
    BY <1>1, OneInvariance, PTL

-----------------------------------------------------------------------------
(* What the next query goes on with.                                       *)

\* While an answer is on its way to line 212, its object has no conversation
\* or the one the answer came from.
AnswerInv ==
    \A m \in Msgs : pc[m] = "record" =>
        used[m] # Nil /\ conv[obj[m]] \in {Nil, used[m]}

\* Every step keeps it: nobody else works on the object of a handler.
LEMMA AnswerStep ==
  ASSUME OneInv, AnswerInv, [Next]_vars
  PROVE  AnswerInv'
  <1> USE ConversationAssumption DEF At, Goto
  <1>0. TypeOK /\ ObjInv /\ CountInv /\ SentInv
    BY DEF OneInv, IInv
  <1>1. CASE /\ UNCHANGED <<conv, used>>
             /\ \A m \in Msgs : pc'[m] = "record" => pc[m] = "record" /\ obj'[m] = obj[m]
    BY <1>1 DEF AnswerInv
  <1>2. ASSUME NEW m \in Msgs, Count(m) \/ Record(m)
        PROVE  AnswerInv'
    <2>1. /\ pc[m] \in Working /\ pc'[m] # "record" /\ obj[m] \in Msgs
          /\ UNCHANGED <<obj, used>>
          /\ \A n \in Msgs : n # m => pc'[n] = pc[n]
          /\ \A o \in Msgs : o # obj[m] => conv'[o] = conv[o]
      BY <1>0, <1>2 DEF Count, Record, TypeOK, ObjInv, Working, Holding
    <2>2. ASSUME NEW n \in Msgs, pc'[n] = "record"
          PROVE  used'[n] # Nil /\ conv'[obj'[n]] \in {Nil, used'[n]}
      <3>1. n # m /\ pc[n] = "record" /\ obj[n] \in Msgs
        BY <1>0, <2>1, <2>2 DEF ObjInv, Working, Holding
      <3>2. obj[n] # obj[m]
        BY <2>1, <3>1, Alone DEF Working
      <3> QED
        BY <2>1, <3>1, <3>2 DEF AnswerInv
    <2> QED
      BY <2>2 DEF AnswerInv
  <1>3. ASSUME NEW m \in Msgs, Respond(m)
        PROVE  AnswerInv'
    <2>1. /\ pc[m] = "sent" /\ UNCHANGED <<conv, obj, sent>>
          /\ \A n \in Msgs : n # m => pc'[n] = pc[n] /\ used'[n] = used[n]
          /\ pc'[m] = "record" => used'[m] = IF sent[m] = Nil THEN m ELSE sent[m]
      BY <1>0, <1>3 DEF Respond, TypeOK
    <2>2. sent[m] = conv[obj[m]]
      BY <1>0, <2>1 DEF CountInv
    <2> QED
      BY <2>1, <2>2 DEF AnswerInv
  <1>4. ASSUME NEW m \in Msgs,
               \/ Begin(m) \/ Find(m) \/ Drop(m) \/ WriteBack(m) \/ Create(m)
               \/ Fetch(m) \/ Send(m) \/ Delete(m) \/ Clear(m)
        PROVE  AnswerInv'
    BY <1>0, <1>1, <1>4 DEF Begin, Find, Drop, WriteBack, Create, Fetch, Send,
                            Delete, Clear, Found, Missing, TypeOK
  <1>5. ASSUME NEW s \in Sessions, Expire(s)
        PROVE  AnswerInv'
    BY <1>1, <1>5 DEF Expire
  <1>6. CASE UNCHANGED vars
    BY <1>1, <1>6 DEF vars
  <1> QED
    BY <1>2, <1>3, <1>4, <1>5, <1>6 DEF Next, Handler

\* The conversation an answer came from is the one the session goes on with,
\* when a session has one handler at a time (212-214).
THEOREM AnswerIsRemembered ==
  ASSUME Concurrency = 1
  PROVE  Spec => AnswerRemembered
  <1>1. Init => AnswerInv
    BY DEF Init, AnswerInv
  <1>2. OneInv /\ AnswerInv /\ [Next]_vars => AnswerInv'
    BY AnswerStep
  <1>3. ASSUME OneInv, AnswerInv, Next, NEW m \in Msgs,
               pc[m] = "record", pc'[m] = "over"
        PROVE  conv'[obj[m]] = used[m]
    <2> USE DEF At, Goto
    <2>1. TypeOK /\ obj[m] \in Msgs
      BY <1>3 DEF OneInv, IInv, ObjInv, Working, Holding
    <2>2. Record(m)
      BY <1>3, <2>1 DEF Next, Handler, Begin, Find, Drop, WriteBack, Create,
                        Fetch, Count, Send, Respond, Record, Delete, Clear,
                        Found, Missing, Expire, TypeOK
    <2> QED
      BY <1>3, <2>1, <2>2 DEF Record, AnswerInv, TypeOK
  <1>4. OneInv /\ AnswerInv /\ [Next]_vars =>
          [\A m \in Msgs : pc[m] = "record" /\ pc'[m] = "over"
             => conv'[obj[m]] = used[m]]_vars
    BY <1>3
  <1> QED
    BY <1>1, <1>2, <1>4, OneInvariance, PTL DEF Spec, AnswerRemembered
=============================================================================
