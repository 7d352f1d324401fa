--------------------------- MODULE ZftChat_proofs ---------------------------
(***************************************************************************)
(* The invariants of ZftChat for every number of pages, questions and      *)
(* posts and every length of the history: its types, and the shape of      *)
(* transcripts and prompts.                                                *)
(***************************************************************************)
EXTENDS ZftChat, SequenceTheorems, TLAPS

-----------------------------------------------------------------------------
(* The inductive invariant.                                                *)

\* A transcript begins with the greeting, and what stands below it is of
\* questions asked on this page.
AskedInv ==
    \A c \in Pages :
        /\ Len(messages[c]) >= 1
        /\ \A i \in 1..Len(messages[c]) : messages[c][i].kind # "greeting" =>
               /\ AskedOn[messages[c][i].of] = c
               /\ stage[<<messages[c][i].of, 1>>] # "new"

IInv ==
    /\ TypeOK
    /\ AskedInv
    /\ TranscriptPairs
    /\ PromptWellFormed

-----------------------------------------------------------------------------
(* Messages and sequences of them.                                         *)

\* A message of the user is a question; every other one than the greeting has
\* a question it belongs to.
LEMMA MessageKinds ==
    ASSUME NEW msg \in Messages
    PROVE  /\ Role(msg) = "user" => msg = Question(msg.of)
           /\ Role(msg) \in {"user", "assistant"}
           /\ msg.kind # "greeting" => msg.of \in Questions
BY DEF Messages, Role, Greeting, Question

LEMMA NewMessages ==
    ASSUME NEW q \in Questions
    PROVE  /\ Question(q) \in Messages /\ Role(Question(q)) = "user"
           /\ Answer(q) \in Messages /\ Role(Answer(q)) = "assistant"
           /\ Apology(q) \in Messages /\ Role(Apology(q)) = "assistant"
           /\ Question(q).of = q /\ Answer(q).of = q /\ Apology(q).of = q
           /\ Question(q).kind # "greeting" /\ Answer(q).kind # "greeting"
           /\ Apology(q).kind # "greeting"
BY DEF Messages, Role, Question, Answer, Apology

\* s.slice(-n): the last messages in their order.
LEMMA LastOfProperties ==
    ASSUME NEW S, NEW s \in Seq(S), NEW n \in Nat \ {0}, Len(s) >= 1
    PROVE  /\ LastOf(s, n) \in Seq(S)
           /\ Len(LastOf(s, n)) \in 1..n
           /\ Len(LastOf(s, n)) <= Len(s)
           /\ \A i \in 1..Len(LastOf(s, n)) :
                  LastOf(s, n)[i] = s[i + (Len(s) - Len(LastOf(s, n)))]
<1> DEFINE m == IF Len(s) > n THEN Len(s) - n + 1 ELSE 1
<1> HIDE DEF m
<1>1. m \in 1..Len(s) /\ Len(s) - m + 1 \in 1..n
  BY DEF m
<1>2. /\ SubSeq(s, m, Len(s)) \in Seq(S)
      /\ Len(SubSeq(s, m, Len(s))) = Len(s) - m + 1
      /\ \A i \in 1..(Len(s) - m + 1) : SubSeq(s, m, Len(s))[i] = s[m + i - 1]
  BY <1>1, SubSeqProperties
<1>3. LastOf(s, n) = SubSeq(s, m, Len(s))
  BY DEF LastOf, m
<1>4. \A i \in 1..(Len(s) - m + 1) :
         LastOf(s, n)[i] = s[i + (Len(s) - (Len(s) - m + 1))]
  BY <1>1, <1>2, <1>3
<1> QED
  BY <1>1, <1>2, <1>3, <1>4

LEMMA AlternatesAppend ==
    ASSUME NEW s \in Seq(Messages), Len(s) >= 1, Alternates(s),
           NEW msg \in Messages, Role(s[Len(s)]) # Role(msg)
    PROVE  Alternates(Append(s, msg))
<1> SUFFICES ASSUME NEW i \in 1..Len(s)
             PROVE  Role(Append(s, msg)[i]) # Role(Append(s, msg)[i + 1])
  BY DEF Alternates
<1>1. CASE i = Len(s)
  BY <1>1
<1>2. CASE i < Len(s)
  BY <1>2 DEF Alternates
<1> QED
  BY <1>1, <1>2

LEMMA AlternatesLast ==
    ASSUME NEW s \in Seq(Messages), Len(s) >= 1, Alternates(s), NEW n \in Nat \ {0}
    PROVE  Alternates(LastOf(s, n))
<1> DEFINE d == Len(s) - Len(LastOf(s, n))
<1>1. /\ Len(LastOf(s, n)) \in Nat /\ d \in Nat
      /\ \A i \in 1..Len(LastOf(s, n)) : LastOf(s, n)[i] = s[i + d]
  BY LastOfProperties
<1> SUFFICES ASSUME NEW i \in 1..(Len(LastOf(s, n)) - 1)
             PROVE  Role(LastOf(s, n)[i]) # Role(LastOf(s, n)[i + 1])
  BY DEF Alternates
<1>2. i + d \in 1..(Len(s) - 1) /\ (i + 1) + d = (i + d) + 1
  BY <1>1
<1>3. Role(s[i + d]) # Role(s[(i + d) + 1])
  BY <1>2 DEF Alternates
<1> HIDE DEF d
<1>4. LastOf(s, n)[i] = s[i + d] /\ LastOf(s, n)[i + 1] = s[(i + d) + 1]
  <2>1. i \in 1..Len(LastOf(s, n)) /\ i + 1 \in 1..Len(LastOf(s, n))
    BY <1>1
  <2> QED
    BY <1>1, <1>2, <2>1
<1> QED
  BY <1>3, <1>4

-----------------------------------------------------------------------------
(* The page.                                                               *)

\* A loading page ends with the question it waits for.
LEMMA LoadingEnds ==
    ASSUME TypeOK, AskedInv, TranscriptPairs, NEW c \in loading
    PROVE  /\ c \in Pages
           /\ Outstanding(c) \in Questions
           /\ messages[c][Len(messages[c])] = Question(Outstanding(c))
           /\ AskedOn[Outstanding(c)] = c
           /\ stage[<<Outstanding(c), 1>>] # "new"
<1>1. c \in Pages /\ Len(messages[c]) \in Nat \ {0} /\ messages[c] \in Seq(Messages)
  BY DEF TypeOK, AskedInv
<1>2. messages[c][Len(messages[c])] \in Messages
  BY <1>1
<1>3. Role(messages[c][Len(messages[c])]) = "user"
  BY <1>1 DEF TranscriptPairs
<1>4. /\ messages[c][Len(messages[c])] = Question(Outstanding(c))
      /\ messages[c][Len(messages[c])].kind # "greeting"
  BY <1>2, <1>3, MessageKinds DEF Outstanding, Role
<1> QED
  BY <1>1, <1>2, <1>4, MessageKinds DEF Outstanding, AskedInv

\* What a step does to the transcripts that shows one message more.
LEMMA ShowKeeps ==
    ASSUME TypeOK, AskedInv, NEW c \in Pages, NEW msg \in Messages, Show(c, msg),
           \A r \in Runs : stage[r] # "new" => stage'[r] # "new",
           msg.kind # "greeting",
           AskedOn[msg.of] = c, stage'[<<msg.of, 1>>] # "new"
    PROVE  /\ messages' \in [Pages -> Seq(Messages)]
           /\ messages'[c] = Append(messages[c], msg)
           /\ \A d \in Pages \ {c} : messages'[d] = messages[d]
           /\ AskedInv'
<1>1. /\ messages' \in [Pages -> Seq(Messages)]
      /\ messages'[c] = Append(messages[c], msg)
      /\ \A d \in Pages \ {c} : messages'[d] = messages[d]
  BY DEF Show, TypeOK
<1>2. ASSUME NEW d \in Pages, NEW i \in 1..Len(messages[d]),
             messages[d][i].kind # "greeting"
      PROVE  /\ AskedOn[messages[d][i].of] = d
             /\ stage'[<<messages[d][i].of, 1>>] # "new"
  <2>1. messages[d][i] \in Messages
    BY DEF TypeOK
  <2>2. <<messages[d][i].of, 1>> \in Runs
    BY <1>2, <2>1, MessageKinds, ZftChatAssumption DEF Runs
  <2> QED
    BY <1>2, <2>2 DEF AskedInv
<1>3. ASSUME NEW d \in Pages
      PROVE  /\ Len(messages'[d]) >= 1
             /\ \A i \in 1..Len(messages'[d]) : messages'[d][i].kind # "greeting" =>
                    /\ AskedOn[messages'[d][i].of] = d
                    /\ stage'[<<messages'[d][i].of, 1>>] # "new"
  <2>1. messages[d] \in Seq(Messages) /\ Len(messages[d]) >= 1
    BY DEF TypeOK, AskedInv
  <2>2. CASE d = c
    <3>1. messages'[d] = Append(messages[d], msg)
      BY <1>1, <2>2
    <3>2. ASSUME NEW i \in 1..Len(messages'[d]), messages'[d][i].kind # "greeting"
          PROVE  /\ AskedOn[messages'[d][i].of] = d
                 /\ stage'[<<messages'[d][i].of, 1>>] # "new"
      <4>1. CASE i = Len(messages[d]) + 1
        BY <2>1, <2>2, <3>1, <4>1
      <4>2. CASE i \in 1..Len(messages[d])
        <5>1. messages'[d][i] = messages[d][i]
          BY <2>1, <3>1, <4>2
        <5> QED
          BY <1>2, <3>2, <4>2, <5>1
      <4> QED
        BY <2>1, <3>1, <4>1, <4>2
    <3> QED
      BY <2>1, <3>1, <3>2
  <2>3. CASE d # c
    BY <1>1, <1>2, <2>1, <2>3
  <2> QED
    BY <2>2, <2>3
<1> QED
  BY <1>1, <1>3 DEF AskedInv

\* The three ways in which a transcript grows keep it in pairs.
LEMMA PairsKept ==
    ASSUME TypeOK, AskedInv, TranscriptPairs, NEW c \in Pages, NEW msg \in Messages,
           messages' \in [Pages -> Seq(Messages)],
           messages'[c] = Append(messages[c], msg),
           \A d \in Pages \ {c} : messages'[d] = messages[d],
           \/ /\ c \notin loading /\ loading' = loading \cup {c}
              /\ Role(msg) = "user"
           \/ /\ c \in loading /\ loading' = loading \ {c}
              /\ Role(msg) = "assistant"
              /\ messages[c][Len(messages[c])] = Question(msg.of)
    PROVE  TranscriptPairs'
<1> SUFFICES ASSUME NEW d \in Pages
             PROVE  /\ Alternates(messages'[d])
                    /\ \A i \in 2..Len(messages'[d]) :
                           Role(messages'[d][i]) = "assistant"
                               => messages'[d][i - 1] = Question(messages'[d][i].of)
                    /\ d \in loading' <=> Role(messages'[d][Len(messages'[d])]) = "user"
  BY DEF TranscriptPairs, Alternates
<1> DEFINE s == messages[d]
<1>1. s \in Seq(Messages) /\ Len(s) \in Nat \ {0} /\ Alternates(s)
  BY DEF TypeOK, AskedInv, TranscriptPairs
<1>2. /\ \A i \in 2..Len(s) : Role(s[i]) = "assistant" => s[i - 1] = Question(s[i].of)
      /\ d \in loading <=> Role(s[Len(s)]) = "user"
  BY DEF TranscriptPairs
<1>3. CASE d # c
  <2>1. messages'[d] = s /\ (d \in loading' <=> d \in loading)
    BY <1>3
  <2> QED
    BY <1>1, <1>2, <2>1
<1>4. CASE d = c
  <2>1. messages'[d] = Append(s, msg)
    BY <1>4
  <2>2. Role(s[Len(s)]) \in {"user", "assistant"}
    BY <1>1, MessageKinds
  <2> HIDE DEF s
  <2>3. Alternates(Append(s, msg))
    <3>1. Role(s[Len(s)]) # Role(msg)
      BY <1>2, <1>4, <2>2
    <3> QED
      BY <1>1, <3>1, AlternatesAppend
  <2>4. ASSUME NEW i \in 2..Len(messages'[d]), Role(messages'[d][i]) = "assistant"
        PROVE  messages'[d][i - 1] = Question(messages'[d][i].of)
    <3>1. CASE i = Len(s) + 1
      <4>1. messages'[d][i] = msg /\ messages'[d][i - 1] = s[Len(s)]
        BY <1>1, <2>1, <3>1
      <4> QED
        BY <1>4, <2>4, <4>1 DEF s
    <3>2. CASE i \in 2..Len(s)
      <4>1. messages'[d][i] = s[i] /\ messages'[d][i - 1] = s[i - 1]
        BY <1>1, <2>1, <3>2
      <4> QED
        BY <1>2, <2>4, <3>2, <4>1
    <3> QED
      BY <1>1, <2>1, <3>1, <3>2
  <2>5. d \in loading' <=> Role(messages'[d][Len(messages'[d])]) = "user"
    <3>1. messages'[d][Len(messages'[d])] = msg
      BY <1>1, <2>1
    <3> QED
      BY <1>4, <3>1
  <2> QED
    BY <2>1, <2>3, <2>4, <2>5
<1> QED
  BY <1>3, <1>4

LEMMA AskKeeps ==
    ASSUME IInv, NEW c \in Pages, NEW q \in Questions, Ask(c, q)
    PROVE  IInv'
<1> USE ZftChatAssumption
<1> DEFINE r == <<q, 1>>
           h == LastOf(messages[c], HistoryLength)
<1> SUFFICES ASSUME TypeOK, AskedInv, TranscriptPairs, PromptWellFormed
             PROVE  IInv'
  BY DEF IInv
<1>1. r \in Runs /\ stage[r] = "new" /\ AskedOn[q] = c
  BY DEF Runs, Ask
<1>2. /\ Question(q) \in Messages /\ Role(Question(q)) = "user"
      /\ Question(q).of = q /\ Question(q).kind # "greeting"
  BY NewMessages
<1>3. /\ messages[c] \in Seq(Messages) /\ Len(messages[c]) \in Nat \ {0}
      /\ Alternates(messages[c]) /\ Role(messages[c][Len(messages[c])]) # "user"
  BY DEF TypeOK, AskedInv, TranscriptPairs, Ask
<1>4. /\ h \in Seq(Messages) /\ Len(h) \in 1..HistoryLength /\ Len(h) <= Len(messages[c])
      /\ \A i \in 1..Len(h) : h[i] = messages[c][i + (Len(messages[c]) - Len(h))]
  <2>1. Len(messages[c]) >= 1 /\ HistoryLength \in Nat \ {0}
    BY <1>3
  <2> QED
    BY <1>3, <2>1, LastOfProperties
<1>5. Alternates(h)
  BY <1>3, AlternatesLast
<1>6. /\ Show(c, Question(q)) /\ c \notin loading /\ loading' = loading \cup {c}
      /\ stage' = [stage EXCEPT ![r] = "embed"]
      /\ prompt' = [prompt EXCEPT ![r] = Append(h, Question(q))]
      /\ UNCHANGED <<reply, log>>
  BY DEF Ask
<1> HIDE DEF h
<1>7. /\ stage'[r] = "embed" /\ \A x \in Runs : x # r => stage'[x] = stage[x]
      /\ stage' \in [Runs -> {"new", "embed", "complete", "save", "answered", "failed"}]
  BY <1>1, <1>6 DEF TypeOK
<1>8. /\ messages' \in [Pages -> Seq(Messages)]
      /\ messages'[c] = Append(messages[c], Question(q))
      /\ \A d \in Pages \ {c} : messages'[d] = messages[d]
      /\ AskedInv'
  <2>1. /\ \A x \in Runs : stage[x] # "new" => stage'[x] # "new"
        /\ stage'[<<Question(q).of, 1>>] # "new"
    BY <1>2, <1>7
  <2> QED
    BY <1>1, <1>2, <1>6, <2>1, ShowKeeps
<1>9. TranscriptPairs'
  BY <1>2, <1>6, <1>8, PairsKept
<1>14. h \in Seq(Messages) /\ Len(h) \in Nat \ {0} /\ Len(h) <= HistoryLength
  BY <1>4
<1>10. /\ prompt' \in [Runs -> Seq(Messages)]
       /\ prompt'[r] = Append(h, Question(q))
       /\ \A x \in Runs : x # r => prompt'[x] = prompt[x]
  BY <1>1, <1>2, <1>4, <1>6 DEF TypeOK
<1>11. TypeOK'
  BY <1>6, <1>7, <1>8, <1>10 DEF TypeOK
<1>12. PromptWellFormed'
  <2> SUFFICES ASSUME NEW x \in Runs, stage'[x] # "new"
               PROVE  /\ Len(prompt'[x]) <= HistoryLength + 1
                      /\ Alternates(prompt'[x])
                      /\ prompt'[x][Len(prompt'[x])] = Question(x[1])
                      /\ \A i \in 1..(Len(prompt'[x]) - 1) :
                             prompt'[x][i].kind # "greeting" =>
                                 /\ prompt'[x][i].of # x[1]
                                 /\ AskedOn[prompt'[x][i].of] = AskedOn[x[1]]
    BY DEF PromptWellFormed, Alternates
  <2>1. CASE x # r
    <3>1. stage[x] # "new" /\ prompt'[x] = prompt[x]
      BY <1>7, <1>10, <2>1
    <3> QED
      BY <3>1 DEF PromptWellFormed
  <2>2. CASE x = r
    <3>1. Role(h[Len(h)]) # "user"
      BY <1>3, <1>4
    <3>2. Alternates(Append(h, Question(q)))
      BY <1>2, <1>4, <1>5, <3>1, AlternatesAppend
    <3>3. ASSUME NEW i \in 1..Len(h), h[i].kind # "greeting"
          PROVE  h[i].of # q /\ AskedOn[h[i].of] = c
      <4>1. /\ i + (Len(messages[c]) - Len(h)) \in 1..Len(messages[c])
            /\ h[i] = messages[c][i + (Len(messages[c]) - Len(h))]
        BY <1>3, <1>4
      <4>2. AskedOn[h[i].of] = c /\ stage[<<h[i].of, 1>>] # "new"
        BY <3>3, <4>1 DEF AskedInv
      <4> QED
        BY <1>1, <4>2
    <3>8. prompt'[x] = Append(h, Question(q))
      BY <1>10, <2>2
    <3>4. /\ Len(prompt'[x]) = Len(h) + 1
          /\ prompt'[x][Len(prompt'[x])] = Question(q)
          /\ \A i \in 1..Len(h) : prompt'[x][i] = h[i]
      BY <1>2, <1>14, <3>8
    <3>5. x[1] = q /\ AskedOn[x[1]] = c /\ Len(prompt'[x]) - 1 = Len(h)
      BY <1>1, <1>14, <2>2, <3>4
    <3>6. Len(prompt'[x]) <= HistoryLength + 1
      BY <1>14, <3>4
    <3>7. ASSUME NEW i \in 1..(Len(prompt'[x]) - 1), prompt'[x][i].kind # "greeting"
          PROVE  prompt'[x][i].of # x[1] /\ AskedOn[prompt'[x][i].of] = AskedOn[x[1]]
      <4>1. i \in 1..Len(h) /\ prompt'[x][i] = h[i]
        BY <3>4, <3>5
      <4> QED
        BY <3>3, <3>5, <3>7, <4>1
    <3> QED
      BY <3>2, <3>4, <3>5, <3>6, <3>7, <3>8
  <2> QED
    BY <2>1, <2>2
<1> QED
  BY <1>6, <1>8, <1>9, <1>11, <1>12 DEF IInv

\* A wait of the page that ends, with a message shown for the question.
LEMMA WaitEnds ==
    ASSUME IInv, NEW c \in Pages, c \in loading, NEW msg \in Messages,
           Show(c, msg), loading' = loading \ {c}, UNCHANGED serverVars,
           msg.kind # "greeting", Role(msg) = "assistant", msg.of = Outstanding(c)
    PROVE  IInv'
<1> SUFFICES ASSUME TypeOK, AskedInv, TranscriptPairs, PromptWellFormed
             PROVE  IInv'
  BY DEF IInv
<1>1. UNCHANGED <<stage, prompt, reply, log>>
  BY DEF serverVars
<1>2. /\ messages[c][Len(messages[c])] = Question(msg.of)
      /\ AskedOn[msg.of] = c /\ stage[<<msg.of, 1>>] # "new"
  BY LoadingEnds
<1>3. /\ messages' \in [Pages -> Seq(Messages)]
      /\ messages'[c] = Append(messages[c], msg)
      /\ \A d \in Pages \ {c} : messages'[d] = messages[d]
      /\ AskedInv'
  BY <1>1, <1>2, ShowKeeps
<1>4. TranscriptPairs'
  BY <1>2, <1>3, PairsKept
<1> QED
  BY <1>1, <1>3, <1>4 DEF IInv, TypeOK, PromptWellFormed, Alternates

LEMMA ReceiveKeeps ==
    ASSUME IInv, NEW c \in Pages, Receive(c)
    PROVE  IInv'
<1>1. Outstanding(c) \in Questions
  BY LoadingEnds DEF Receive, IInv
<1>2. PICK msg \in {Answer(Outstanding(c)), Apology(Outstanding(c))} : Show(c, msg)
  BY DEF Receive
<1> QED
  BY <1>1, <1>2, NewMessages, WaitEnds DEF Receive

LEMMA LoseConnectionKeeps ==
    ASSUME IInv, NEW c \in Pages, LoseConnection(c)
    PROVE  IInv'
<1>1. Outstanding(c) \in Questions
  BY LoadingEnds DEF LoseConnection, IInv
<1> QED
  BY <1>1, NewMessages, WaitEnds DEF LoseConnection

-----------------------------------------------------------------------------
(* The server.                                                             *)

\* A run goes on without the page: the transcript keeps its shape.
LEMMA PageUntouched ==
    ASSUME TypeOK, AskedInv, TranscriptPairs, UNCHANGED <<messages, loading>>,
           \A r \in Runs : stage[r] # "new" => stage'[r] # "new"
    PROVE  AskedInv' /\ TranscriptPairs'
<1>1. ASSUME NEW c \in Pages, NEW i \in 1..Len(messages[c]),
             messages[c][i].kind # "greeting"
      PROVE  stage'[<<messages[c][i].of, 1>>] # "new"
  <2>1. messages[c][i] \in Messages
    BY DEF TypeOK
  <2>2. <<messages[c][i].of, 1>> \in Runs
    BY <1>1, <2>1, MessageKinds, ZftChatAssumption DEF Runs
  <2> QED
    BY <1>1, <2>2 DEF AskedInv
<1> QED
  BY <1>1 DEF AskedInv, TranscriptPairs, Alternates

LEMMA PostKeeps ==
    ASSUME IInv, NEW q \in Questions, NEW k \in 1..MaxPosts, Post(q, k)
    PROVE  IInv'
<1> DEFINE r == <<q, k>>
<1> SUFFICES ASSUME TypeOK, AskedInv, TranscriptPairs, PromptWellFormed
             PROVE  IInv'
  BY DEF IInv
<1>1. /\ r \in Runs /\ r[1] = q
      /\ stage[r] = "new" /\ stage' = [stage EXCEPT ![r] = "embed"]
      /\ prompt' = [prompt EXCEPT ![r] = <<Question(q)>>]
      /\ UNCHANGED <<messages, loading, reply, log>>
  BY DEF Runs, Post
<1> HIDE DEF r
<1>2. /\ \A x \in Runs : x # r => stage'[x] = stage[x] /\ prompt'[x] = prompt[x]
      /\ stage'[r] = "embed" /\ prompt'[r] = <<Question(q)>>
  BY <1>1 DEF TypeOK
<1>3. Question(q) \in Messages
  BY NewMessages
<1>4. TypeOK'
  BY <1>1, <1>3 DEF TypeOK
<1>5. PromptWellFormed'
  <2> SUFFICES ASSUME NEW x \in Runs, stage'[x] # "new"
               PROVE  /\ Len(prompt'[x]) <= HistoryLength + 1
                      /\ Alternates(prompt'[x])
                      /\ prompt'[x][Len(prompt'[x])] = Question(x[1])
                      /\ \A i \in 1..(Len(prompt'[x]) - 1) :
                             prompt'[x][i].kind # "greeting" =>
                                 /\ prompt'[x][i].of # x[1]
                                 /\ AskedOn[prompt'[x][i].of] = AskedOn[x[1]]
    BY DEF PromptWellFormed, Alternates
  <2>1. CASE x # r
    BY <1>2, <2>1 DEF PromptWellFormed
  <2>2. CASE x = r
    <3>1. /\ prompt'[x] = <<Question(q)>> /\ x[1] = q
          /\ Len(prompt'[x]) = 1 /\ prompt'[x][1] = Question(q)
      BY <1>1, <1>2, <2>2
    <3>2. 1..(Len(prompt'[x]) - 1) = {}
      BY <3>1
    <3>3. Len(prompt'[x]) <= HistoryLength + 1
      BY <3>1, ZftChatAssumption
    <3> QED
      BY <3>1, <3>2, <3>3 DEF Alternates
  <2> QED
    BY <2>1, <2>2
<1>6. AskedInv' /\ TranscriptPairs'
  BY <1>1, <1>2, PageUntouched
<1> QED
  BY <1>1, <1>4, <1>5, <1>6 DEF IInv

\* A run that was begun takes a step: it was, and stays, no new one, and its
\* prompt is what it was.
LEMMA RunKeeps ==
    ASSUME IInv, NEW r \in Runs, Run(r)
    PROVE  IInv'
<1> SUFFICES ASSUME TypeOK, AskedInv, TranscriptPairs, PromptWellFormed
             PROVE  IInv'
  BY DEF IInv
<1>1. PICK st \in {"complete", "save", "answered", "failed"} :
          stage' = [stage EXCEPT ![r] = st]
  BY DEF Run, Retrieve, Complete, Save, Advance
<1>2. stage[r] # "new" /\ UNCHANGED <<messages, loading, prompt>>
  BY DEF Run, Retrieve, Complete, Save
<1>3. \A x \in Runs : stage'[x] = "new" <=> stage[x] = "new"
  BY <1>1, <1>2 DEF TypeOK
<1>4. AskedInv' /\ TranscriptPairs'
  BY <1>2, <1>3, PageUntouched
<1>5. PromptWellFormed'
  BY <1>2, <1>3 DEF PromptWellFormed, Alternates
<1>6. reply' \in [Runs -> {"none", "text", "empty"}]
  BY DEF Run, Retrieve, Complete, Save, TypeOK
<1>7. log' \subseteq [role : {"user", "assistant"}, run : Runs]
  <2>1. log' \in {log, log \cup [role : {"user", "assistant"}, run : {r}]}
    BY DEF Run, Retrieve, Complete, Save
  <2> QED
    BY <2>1 DEF TypeOK
<1>8. TypeOK'
  BY <1>1, <1>2, <1>6, <1>7 DEF TypeOK
<1> QED
  BY <1>4, <1>5, <1>8 DEF IInv

-----------------------------------------------------------------------------
(* The theorems.                                                           *)

LEMMA InitIInv == Init => IInv
<1> SUFFICES ASSUME Init
             PROVE  IInv
  OBVIOUS
<1>1. /\ Greeting \in Messages /\ Greeting.kind = "greeting"
      /\ Role(Greeting) = "assistant"
  BY DEF Messages, Greeting, Role
<1>2. \A c \in Pages : messages[c] = <<Greeting>>
  BY DEF Init
<1>3. TypeOK
  <2>1. messages \in [Pages -> Seq(Messages)]
    BY <1>1 DEF Init
  <2>2. /\ prompt \in [Runs -> Seq(Messages)]
        /\ log \subseteq [role : {"user", "assistant"}, run : Runs]
    BY DEF Init
  <2> QED
    BY <2>1, <2>2 DEF Init, TypeOK
<1>4. AskedInv
  <2>1. \A c \in Pages : Len(messages[c]) = 1 /\ messages[c][1] = Greeting
    BY <1>2
  <2> QED
    BY <1>1, <2>1 DEF AskedInv
<1>5. TranscriptPairs
  <2>1. ASSUME NEW c \in Pages
        PROVE  Len(messages[c]) = 1 /\ messages[c][1] = Greeting /\ c \notin loading
    BY <1>2 DEF Init
  <2> QED
    BY <1>1, <2>1 DEF TranscriptPairs, Alternates
<1>6. PromptWellFormed
  BY DEF Init, PromptWellFormed
<1> QED
  BY <1>3, <1>4, <1>5, <1>6 DEF IInv

LEMMA StepIInv == IInv /\ [Next]_vars => IInv'
<1> SUFFICES ASSUME IInv, [Next]_vars
             PROVE  IInv'
  OBVIOUS
<1>1. CASE UNCHANGED vars
  <2>1. UNCHANGED <<messages, loading, stage, prompt, reply, log>>
    BY <1>1 DEF vars
  <2>2. TypeOK' /\ AskedInv'
    BY <2>1 DEF IInv, TypeOK, AskedInv
  <2>3. TranscriptPairs'
    BY <2>1 DEF IInv, TranscriptPairs, Alternates
  <2>4. PromptWellFormed'
    BY <2>1 DEF IInv, PromptWellFormed, Alternates
  <2> QED
    BY <2>2, <2>3, <2>4 DEF IInv
<1>2. CASE Next
  BY <1>2, AskKeeps, ReceiveKeeps, LoseConnectionKeeps, PostKeeps, RunKeeps DEF Next
<1> QED
  BY <1>1, <1>2

\* The inductive invariant holds of every behaviour.
THEOREM Invariance == Spec => []IInv
BY InitIInv, StepIInv, PTL DEF Spec

\* Every variable keeps its type, whatever fails and however often WeCom posts.
THEOREM TypeCorrect == Spec => []TypeOK
<1>1. IInv => TypeOK
  BY DEF IInv
<1> QED
  BY <1>1, Invariance, PTL

\* Every question of a transcript is followed by its answer or an apology, and
\* a page is disabled exactly while its last question has neither (page.tsx
\* 25-66), for every number of pages and questions.
THEOREM TranscriptsPaired == Spec => []TranscriptPairs
<1>1. IInv => TranscriptPairs
  BY DEF IInv
<1> QED
  BY <1>1, Invariance, PTL

\* A prompt alternates, is of its own page and has its question once, at the
\* end (page.tsx 34-37, rag.ts 66-73), for every length of the history.
THEOREM PromptsWellFormed == Spec => []PromptWellFormed
<1>1. IInv => PromptWellFormed
  BY DEF IInv
<1> QED
  BY <1>1, Invariance, PTL
=============================================================================
