-------------------------- MODULE DifyConversation --------------------------
(***************************************************************************)
(* The memory of dify-on-wechat's Dify bot (bot/dify/dify_bot.py and       *)
(* dify_session.py, with common/expired_dict.py).                          *)
(*                                                                         *)
(* The bot keeps a DifySession per session id, which remembers the Dify    *)
(* conversation its next query continues.  After                           *)
(* dify_conversation_max_messages queries a new conversation is begun.     *)
(* #reset and expiry drop the session.  Handlers of one session share the  *)
(* object without a lock, and keep it when it has been dropped from the    *)
(* dictionary.                                                             *)
(*                                                                         *)
(* One step is one operation on the dictionary or on the shared object.    *)
(* With an expiry set the dictionary is an ExpiredDict, which renews an    *)
(* entry by writing back what it has read: looking for a key is two steps. *)
(* The dispatcher is taken at its word: at most Concurrency messages of a  *)
(* session are in handling.  A session object bears the name of the        *)
(* message that created it, and so does a Dify conversation.               *)
(***************************************************************************)
EXTENDS Naturals, FiniteSets

CONSTANTS
    Sessions, Msgs, SessionOf,
    KindOf,        \* "chat", "reset" or "resetall"
    Concurrency,   \* concurrency_in_session
    MaxMessages,   \* dify_conversation_max_messages
    Expiry,        \* TRUE: expires_in_seconds is set
    Nil            \* no object, no conversation ('')

Kinds == {"chat", "reset", "resetall"}

ASSUME ConversationAssumption ==
    /\ IsFiniteSet(Msgs)
    /\ SessionOf \in [Msgs -> Sessions]
    /\ KindOf \in [Msgs -> Kinds]
    /\ Concurrency \in Nat \ {0}
    /\ MaxMessages \in Nat \ {0}
    /\ Expiry \in BOOLEAN
    /\ Nil \notin Msgs

VARIABLES
    sessions,   \* sessions[s], the object in the dictionary, or Nil
    expired,    \* the sessions whose entry is there, but too old
    counter,    \* _user_message_counter of an object
    conv,       \* _conversation_id of an object
    pc,         \* where the handler of a message is
    obj,        \* the object that handler has read from the dictionary
    sent,       \* conversation_id in its payload
    used,       \* the conversation Dify put the query in
    forgotten   \* history: objects that a reset has dropped, while nobody was
                \* about to write them back

vars == <<sessions, expired, counter, conv, pc, obj, sent, used, forgotten>>
dictVars == <<sessions, expired, forgotten>>

Init ==
    /\ sessions = [s \in Sessions |-> Nil]
    /\ expired = {} /\ forgotten = {}
    /\ counter = [o \in Msgs |-> 0]
    /\ conv = [o \in Msgs |-> Nil]
    /\ pc = [m \in Msgs |-> "new"]
    /\ obj = [m \in Msgs |-> Nil]
    /\ sent = [m \in Msgs |-> Nil]
    /\ used = [m \in Msgs |-> Nil]

Ended == {"over", "raised"}
Handled(s) == {m \in Msgs : SessionOf[m] = s /\ pc[m] \notin {"new"} \cup Ended}

At(m, l) == pc[m] = l
Goto(m, l) == pc' = [pc EXCEPT ![m] = l]

\* Handlers about to write back what they have read.
Writers == {m \in Msgs : pc[m] \in {"renew", "hold"}}

-----------------------------------------------------------------------------
\* Mutation: the dispatcher does not limit a session.
Begin_Unlimited(m) ==
    /\ At(m, "new")
    /\ Goto(m, IF KindOf[m] = "resetall" THEN "clear" ELSE "find")
    /\ UNCHANGED <<dictVars, counter, conv, obj, sent, used>>

\* A worker starts to handle a message.
Begin(m) ==
    /\ At(m, "new")
    /\ Cardinality(Handled(SessionOf[m])) < Concurrency
    /\ Goto(m, IF KindOf[m] = "resetall" THEN "clear" ELSE "find")
    /\ UNCHANGED <<dictVars, counter, conv, obj, sent, used>>

\* A query makes a session where there is none, a #reset deletes one.
Found(m) == IF KindOf[m] = "chat" THEN "fetch" ELSE "delete"
Missing(m) == IF KindOf[m] = "chat" THEN "create" ELSE "over"

\* session_id in self.sessions: the entry is read ...
Find(m) ==
    LET s == SessionOf[m] IN
    /\ At(m, "find")
    /\ obj' = [obj EXCEPT ![m] = sessions[s]]
    /\ Goto(m, IF sessions[s] = Nil THEN Missing(m)
               ELSE IF s \in expired THEN "drop"
               ELSE IF Expiry THEN "renew" ELSE Found(m))
    /\ UNCHANGED <<dictVars, counter, conv, sent, used>>

\* ... and deleted when it is too old; the KeyError of one that is gone by then
\* counts as missing, too ...
Drop(m) ==
    /\ At(m, "drop")
    /\ sessions' = [sessions EXCEPT ![SessionOf[m]] = Nil]
    /\ expired' = expired \ {SessionOf[m]}
    /\ Goto(m, Missing(m))
    /\ UNCHANGED <<counter, conv, obj, sent, used, forgotten>>

\* ... or written back with a new time, whatever is in its place by then.
WriteBack(m) ==
    /\ pc[m] \in {"renew", "hold"}
    /\ sessions' = [sessions EXCEPT ![SessionOf[m]] = obj[m]]
    /\ expired' = expired \ {SessionOf[m]}
    /\ Goto(m, IF At(m, "renew") THEN Found(m) ELSE "count")
    /\ UNCHANGED <<counter, conv, obj, sent, used, forgotten>>

Create(m) ==
    /\ At(m, "create")
    /\ sessions' = [sessions EXCEPT ![SessionOf[m]] = m]
    /\ expired' = expired \ {SessionOf[m]}
    /\ Goto(m, "fetch")
    /\ UNCHANGED <<counter, conv, obj, sent, used, forgotten>>

\* self.sessions[session_id], which is written back as well; a KeyError ends
\* the handler, without a reply.
Fetch(m) ==
    LET o == sessions[SessionOf[m]] IN
    /\ At(m, "fetch")
    /\ obj' = [obj EXCEPT ![m] = o]
    /\ Goto(m, IF o = Nil THEN "raised" ELSE IF Expiry THEN "hold" ELSE "count")
    /\ UNCHANGED <<dictVars, counter, conv, sent, used>>

\* Mutation: one query more than the limit.
Count_OneMore(m) ==
    LET o == obj[m]
        full == counter[o] > MaxMessages
    IN
    /\ At(m, "count")
    /\ counter' = [counter EXCEPT ![o] = IF full THEN 1 ELSE @ + 1]
    /\ conv' = [conv EXCEPT ![o] = IF full THEN Nil ELSE @]
    /\ Goto(m, "send")
    /\ UNCHANGED <<dictVars, obj, sent, used>>

\* count_user_message
Count(m) ==
    LET o == obj[m]
        full == counter[o] >= MaxMessages
    IN
    /\ At(m, "count")
    /\ counter' = [counter EXCEPT ![o] = IF full THEN 1 ELSE @ + 1]
    /\ conv' = [conv EXCEPT ![o] = IF full THEN Nil ELSE @]
    /\ Goto(m, "send")
    /\ UNCHANGED <<dictVars, obj, sent, used>>

\* Mutation: the payload has no conversation id.
Send_NoConversation(m) ==
    /\ At(m, "send")
    /\ Goto(m, "sent")
    /\ UNCHANGED <<dictVars, counter, conv, obj, sent, used>>

\* _get_payload reads the object, and the request goes out.
Send(m) ==
    /\ At(m, "send")
    /\ sent' = [sent EXCEPT ![m] = conv[obj[m]]]
    /\ Goto(m, "sent")
    /\ UNCHANGED <<dictVars, counter, conv, obj, used>>

\* Dify fails, answers with nothing, or answers; without a conversation id it
\* makes a conversation.  Only an answer with content leads to line 212.
Respond(m) ==
    /\ At(m, "sent")
    /\ \E outcome \in {"failed", "empty", "answered"} :
          /\ used' = [used EXCEPT ![m] = IF outcome = "failed" THEN Nil
                                         ELSE IF sent[m] = Nil THEN m ELSE sent[m]]
          /\ Goto(m, IF outcome = "answered" THEN "record" ELSE "over")
    /\ UNCHANGED <<dictVars, counter, conv, obj, sent>>

\* Mutation: the session is stored again together with its conversation.
Record_Store(m) ==
    /\ At(m, "record")
    /\ conv' = [conv EXCEPT ![obj[m]] = IF @ = Nil THEN used[m] ELSE @]
    /\ sessions' = [sessions EXCEPT ![SessionOf[m]] = obj[m]]
    /\ Goto(m, "over")
    /\ UNCHANGED <<expired, counter, obj, sent, used, forgotten>>

\* The reply's pictures and files have been fetched and sent; the
\* conversation is remembered unless the object has one.
Record(m) ==
    /\ At(m, "record")
    /\ conv' = [conv EXCEPT ![obj[m]] = IF @ = Nil THEN used[m] ELSE @]
    /\ Goto(m, "over")
    /\ UNCHANGED <<dictVars, counter, obj, sent, used>>

-----------------------------------------------------------------------------
\* The objects a reset drops, but for those that a handler writes back later.
Forget(dropped) ==
    forgotten' = forgotten \cup
        ({sessions[s] : s \in dropped} \ ({Nil} \cup {obj[n] : n \in Writers}))

\* del self.sessions[session_id] in clear_session, for #reset.
Delete(m) ==
    LET s == SessionOf[m] IN
    /\ At(m, "delete")
    /\ Goto(m, IF sessions[s] = Nil THEN "raised" ELSE "over")
    /\ sessions' = [sessions EXCEPT ![s] = Nil]
    /\ expired' = expired \ {s}
    /\ Forget({s})
    /\ UNCHANGED <<counter, conv, obj, sent, used>>

\* clear_all_session, for #resetall.
Clear(m) ==
    /\ At(m, "clear")
    /\ Goto(m, "over")
    /\ sessions' = [s \in Sessions |-> Nil]
    /\ expired' = {}
    /\ Forget(Sessions)
    /\ UNCHANGED <<counter, conv, obj, sent, used>>

\* An entry gets too old, but not between being renewed and being read or
\* deleted by the same handler.
Expire(s) ==
    /\ Expiry
    /\ sessions[s] # Nil
    /\ \A m \in Msgs : SessionOf[m] = s => pc[m] \notin {"renew", "fetch", "hold", "delete"}
    /\ expired' = expired \cup {s}
    /\ UNCHANGED <<sessions, counter, conv, pc, obj, sent, used, forgotten>>

Handler(m) ==
    \/ Begin(m) \/ Find(m) \/ Drop(m) \/ WriteBack(m) \/ Create(m) \/ Fetch(m)
    \/ Count(m) \/ Send(m) \/ Respond(m) \/ Record(m) \/ Delete(m) \/ Clear(m)

Next ==
    \/ \E m \in Msgs : Handler(m)
    \/ \E s \in Sessions : Expire(s)

Spec == Init /\ [][Next]_vars

-----------------------------------------------------------------------------
(* Properties.                                                             *)

Pcs == {"new", "find", "drop", "renew", "create", "fetch", "hold", "count",
        "send", "sent", "record", "delete", "clear"} \cup Ended

\* Every variable has its type; the counter stays within the limit.
TypeOK ==
    /\ sessions \in [Sessions -> Msgs \cup {Nil}]
    /\ expired \subseteq Sessions /\ forgotten \subseteq Msgs
    /\ counter \in [Msgs -> 0..MaxMessages]
    /\ conv \in [Msgs -> Msgs \cup {Nil}]
    /\ pc \in [Msgs -> Pcs]
    /\ obj \in [Msgs -> Msgs \cup {Nil}]
    /\ sent \in [Msgs -> Msgs \cup {Nil}]
    /\ used \in [Msgs -> Msgs \cup {Nil}]

QueriesOf(c) == {m \in Msgs : used[m] = c}

\* A Dify conversation holds at most dify_conversation_max_messages queries
\* ("限制一个conversation中消息数", dify_bot 99).
BoundedConversation == \A c \in Msgs : Cardinality(QueriesOf(c)) <= MaxMessages

\* A session object that a reset has dropped takes no further query, whoever
\* still works on it: the conversation in it is forgotten (87-92).  The exception
\* is a reset that comes between the read of an entry and its being written back
\* (expired_dict 10, 14): it is undone.
ResetForgets ==
    [][\A m \in Msgs : pc[m] \in {"fetch", "hold"} /\ pc'[m] = "count"
          => obj'[m] \notin forgotten]_vars

\* The conversation an answer came from is the one the session goes on with:
\* the context of an answered query is not lost to the next one (212-214).
AnswerRemembered ==
    [][\A m \in Msgs : pc[m] = "record" /\ pc'[m] = "over"
          => conv'[obj[m]] = used[m]]_vars

\* _build_session returns a session and clear_session deletes one, whatever
\* happens to the dictionary between the test and the read or deletion
\* (dify_session 72-89), unless somebody resets everybody.
SessionFound ==
    \A m \in Msgs : pc[m] = "raised" =>
        \E n \in Msgs : KindOf[n] = "resetall" /\ pc[n] = "over"
=============================================================================
