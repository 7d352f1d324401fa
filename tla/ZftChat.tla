------------------------------- MODULE ZftChat -------------------------------
(***************************************************************************)
(* The customer chat of zhongfangtang-ai: the chat page                    *)
(* (app/chat/page.tsx), the routes /api/chat and /api/wecom, and ragChat   *)
(* (lib/rag.ts), which they share.                                         *)
(*                                                                         *)
(* The page keeps the transcript and sends, with a question, the last      *)
(* messages before it.  The server keeps nothing between requests: a run   *)
(* of ragChat embeds the question, looks for knowledge, asks DeepSeek and  *)
(* inserts question and answer in the table conversations.  One step is    *)
(* what happens between two awaits.  WeCom posts a customer's message to   *)
(* its route and posts it again when no answer comes in time.              *)
(***************************************************************************)
EXTENDS Naturals, Sequences, FiniteSets

CONSTANTS
    Pages,         \* open chat pages
    Questions,     \* what is asked, each question by one page or over WeCom
    AskedOn,       \* the page of a question, or WeCom
    WeCom,
    MaxPosts,      \* bound: how often WeCom posts a message at most
    HistoryLength  \* messages of history in a prompt (6 in the code)

ASSUME ZftChatAssumption ==
    /\ IsFiniteSet(Questions)
    /\ WeCom \notin Pages
    /\ AskedOn \in [Questions -> Pages \cup {WeCom}]
    /\ MaxPosts \in Nat \ {0}
    /\ HistoryLength \in Nat \ {0}

\* The k-th run of ragChat for a question.
Runs == Questions \X (1..MaxPosts)

Greeting == [kind |-> "greeting"]
Question(q) == [kind |-> "question", of |-> q]
Answer(q) == [kind |-> "answer", of |-> q]
Apology(q) == [kind |-> "apology", of |-> q]
Messages == {Greeting} \cup [kind : {"question", "answer", "apology"}, of : Questions]
Role(msg) == IF msg.kind = "question" THEN "user" ELSE "assistant"

VARIABLES
    messages,   \* the transcript a page shows
    loading,    \* pages that wait for an answer
    stage,      \* where a run is
    prompt,     \* the messages a run sends to DeepSeek, after the system's
    reply,      \* what DeepSeek answered
    log         \* rows of the table conversations, which have no order: their
                \* ids are random, their times those of the transaction

vars == <<messages, loading, stage, prompt, reply, log>>
serverVars == <<stage, prompt, reply, log>>

Init ==
    /\ messages = [c \in Pages |-> <<Greeting>>]
    /\ loading = {}
    /\ stage = [r \in Runs |-> "new"]
    /\ prompt = [r \in Runs |-> <<>>]
    /\ reply = [r \in Runs |-> "none"]
    /\ log = {}

-----------------------------------------------------------------------------
(* The page.                                                               *)

\* s.slice(-n)
LastOf(s, n) == SubSeq(s, IF Len(s) > n THEN Len(s) - n + 1 ELSE 1, Len(s))

Show(c, msg) == messages' = [messages EXCEPT ![c] = Append(@, msg)]

\* Mutation: a page that is loading may send.
Ask_WhileLoading(c, q) ==
    /\ AskedOn[q] = c /\ stage[<<q, 1>>] = "new"
    /\ Show(c, Question(q))
    /\ loading' = loading \cup {c}
    /\ stage' = [stage EXCEPT ![<<q, 1>>] = "embed"]
    /\ prompt' = [prompt EXCEPT ![<<q, 1>>] =
                     Append(LastOf(messages[c], HistoryLength), Question(q))]
    /\ UNCHANGED <<reply, log>>

\* Mutation: the history is taken after the question was added.
Ask_HistoryAfter(c, q) ==
    /\ c \notin loading
    /\ AskedOn[q] = c /\ stage[<<q, 1>>] = "new"
    /\ Show(c, Question(q))
    /\ loading' = loading \cup {c}
    /\ stage' = [stage EXCEPT ![<<q, 1>>] = "embed"]
    /\ prompt' = [prompt EXCEPT ![<<q, 1>>] =
                     Append(LastOf(messages'[c], HistoryLength), Question(q))]
    /\ UNCHANGED <<reply, log>>

\* sendMessage up to fetch.  The history comes from the transcript this
\* rendering of the page has, without the question just added.
Ask(c, q) ==
    /\ c \notin loading
    /\ AskedOn[q] = c /\ stage[<<q, 1>>] = "new"
    /\ Show(c, Question(q))
    /\ loading' = loading \cup {c}
    /\ stage' = [stage EXCEPT ![<<q, 1>>] = "embed"]
    /\ prompt' = [prompt EXCEPT ![<<q, 1>>] =
                     Append(LastOf(messages[c], HistoryLength), Question(q))]
    /\ UNCHANGED <<reply, log>>

\* The question a loading page waits for.
Outstanding(c) == messages[c][Len(messages[c])].of

\* Mutation: loading is reset only after an answer.
Receive_LoadingStays(c) ==
    LET q == Outstanding(c) IN
    /\ c \in loading
    /\ messages[c][Len(messages[c])] = Question(q)
    /\ stage[<<q, 1>>] \in {"answered", "failed"}
    /\ IF stage[<<q, 1>>] = "answered" /\ reply[<<q, 1>>] = "text"
       THEN Show(c, Answer(q)) /\ loading' = loading \ {c}
       ELSE Show(c, Apology(q)) /\ UNCHANGED loading
    /\ UNCHANGED serverVars

\* The response arrives.  An empty reply counts as a failure.
Receive(c) ==
    LET q == Outstanding(c) IN
    /\ c \in loading
    /\ stage[<<q, 1>>] \in {"answered", "failed"}
    /\ Show(c, IF stage[<<q, 1>>] = "answered" /\ reply[<<q, 1>>] = "text"
               THEN Answer(q) ELSE Apology(q))
    /\ loading' = loading \ {c}
    /\ UNCHANGED serverVars

\* fetch rejects, whatever the server does with the request.
LoseConnection(c) ==
    /\ c \in loading
    /\ Show(c, Apology(Outstanding(c)))
    /\ loading' = loading \ {c}
    /\ UNCHANGED serverVars

-----------------------------------------------------------------------------
(* The server.                                                             *)

\* WeCom posts a message, or posts it again while no post was answered.
Post(q, k) ==
    /\ AskedOn[q] = WeCom
    /\ stage[<<q, k>>] = "new"
    /\ \A j \in 1..(k - 1) : stage[<<q, j>>] \notin {"new", "answered", "failed"}
    /\ stage' = [stage EXCEPT ![<<q, k>>] = "embed"]
    /\ prompt' = [prompt EXCEPT ![<<q, k>>] = <<Question(q)>>]
    /\ UNCHANGED <<messages, loading, reply, log>>

Advance(r, st) == stage' = [stage EXCEPT ![r] = st]

\* generateEmbedding and match_knowledge.  Without an embedding the run ends;
\* without knowledge it goes on.
Retrieve(r) ==
    /\ stage[r] = "embed"
    /\ \E st \in {"complete", "failed"} : Advance(r, st)
    /\ UNCHANGED <<messages, loading, prompt, reply, log>>

\* chatCompletion; a choice without content is the empty reply.
Complete(r) ==
    /\ stage[r] = "complete"
    /\ \/ Advance(r, "failed") /\ UNCHANGED reply
       \/ Advance(r, "save")
          /\ \E a \in {"text", "empty"} : reply' = [reply EXCEPT ![r] = a]
    /\ UNCHANGED <<messages, loading, prompt, log>>

\* One insert of both rows; its error is not looked at.
Save(r) ==
    /\ stage[r] = "save"
    /\ Advance(r, "answered")
    /\ log' \in {log, log \cup [role : {"user", "assistant"}, run : {r}]}
    /\ UNCHANGED <<messages, loading, prompt, reply>>

Run(r) == Retrieve(r) \/ Complete(r) \/ Save(r)

-----------------------------------------------------------------------------
Next ==
    \/ \E c \in Pages, q \in Questions : Ask(c, q)
    \/ \E c \in Pages : Receive(c) \/ LoseConnection(c)
    \/ \E q \in Questions, k \in 1..MaxPosts : Post(q, k)
    \/ \E r \in Runs : Run(r)

Spec == Init /\ [][Next]_vars

\* The services answer or time out, and a browser delivers the response.
Fairness ==
    /\ \A c \in Pages : WF_vars(Receive(c))
    /\ \A r \in Runs : WF_vars(Run(r))

FairSpec == Spec /\ Fairness

-----------------------------------------------------------------------------
(* Properties.                                                             *)

\* Every variable has its type.
TypeOK ==
    /\ messages \in [Pages -> Seq(Messages)]
    /\ loading \subseteq Pages
    /\ stage \in [Runs -> {"new", "embed", "complete", "save", "answered", "failed"}]
    /\ prompt \in [Runs -> Seq(Messages)]
    /\ reply \in [Runs -> {"none", "text", "empty"}]
    /\ log \subseteq [role : {"user", "assistant"}, run : Runs]

Alternates(s) == \A i \in 1..(Len(s) - 1) : Role(s[i]) # Role(s[i + 1])

\* Every question of a transcript is followed by what came of it, the answer
\* to another question never stands below it, and only a loading page ends
\* with a question (26, 29, 47-64).
TranscriptPairs ==
    \A c \in Pages :
        LET s == messages[c] IN
        /\ Alternates(s)
        /\ \A i \in 2..Len(s) : Role(s[i]) = "assistant" => s[i - 1] = Question(s[i].of)
        /\ c \in loading <=> Role(s[Len(s)]) = "user"

\* The roles of a prompt alternate and it ends with the question, which is
\* not in the history as well; nothing of another page is in it (34-37).
PromptWellFormed ==
    \A r \in Runs : stage[r] # "new" =>
        LET p == prompt[r] IN
        /\ Len(p) <= HistoryLength + 1
        /\ Alternates(p)
        /\ p[Len(p)] = Question(r[1])
        /\ \A i \in 1..(Len(p) - 1) : p[i].kind # "greeting" =>
               p[i].of # r[1] /\ AskedOn[p[i].of] = AskedOn[r[1]]

\* A page does not wait for ever: the input is enabled again (63-65).
PageRecovers == \A c \in Pages : c \in loading ~> c \notin loading
=============================================================================
