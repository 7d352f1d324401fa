------------------------ MODULE PassiveReply_proofs -------------------------
(***************************************************************************)
(* The invariants of PassiveReply for every number of users, messages,     *)
(* requests, sendings and permits, whether users are patient or not, tasks *)
(* are dropped or not and uploads fail or not: its types, and that no part *)
(* of what a sending cached is in two places or reaches its user twice;    *)
(* and who may be left in running.  For patient users: no part that was    *)
(* cached is lost, parts come in order, no empty list stays.  For reliable *)
(* handlers: who is in running has a task.                                 *)
(***************************************************************************)
EXTENDS PassiveReply, TLAPS

-----------------------------------------------------------------------------
(* The inductive invariant.                                                *)

\* An entry that stands for part p of what the sending s cached, alone or with
\* the other part.  A video stands for none.
Has(e, s, p) ==
    e # NoEntry /\ e.of = s /\ e.form # "video" /\ (e.part = p \/ e.form = "long")

HasIn(q, s, p) == \E i \in DOMAIN q : Has(q[i], s, p)

Once(q, s, p) == \A i, j \in DOMAIN q : Has(q[i], s, p) /\ Has(q[j], s, p) => i = j

AtOut(s, p) == HasIn(out[s[1]], s, p)
AtCache(s, p) == HasIn(cache[TaskUser[s[1]]], s, p)
AtHand(s, p) == \E m \in Msgs : Has(hand[m], s, p)
AtUser(s, p) == \E i \in DOMAIN delivered : delivered[i] = <<s, p>>

\* The position of a thread, and what it counts.
ScalarTypes ==
    /\ cached \subseteq Users /\ running \subseteq Users
    /\ cnt \in [Msgs -> 0..MaxAttempts] /\ attempt \in [Msgs -> 0..MaxAttempts]
    /\ pc \in [Msgs -> Pcs]
    /\ answer \in [Msgs -> {"none", "hint", "thinking", "success", "error", "reply"}]
    /\ phase \in [Tasks -> {"new", "waiting", "active", "over"}]
    /\ reply \in [Tasks -> ReplyKinds]
    /\ tries \in [Tasks -> 0..MaxSends]

\* A message is counted once in each of its requests, and a request has not
\* produced its task before it comes to that.
CountInv ==
    \A m \in Msgs :
        /\ cnt[m] <= attempt[m]
        /\ pc[m] = "unsent" => attempt[m] = 0
        /\ pc[m] # "unsent" => attempt[m] >= 1
        /\ pc[m] \in {"check", "checkRunning", "begin", "count"} => cnt[m] < attempt[m]

FreshInv ==
    \A m \in Msgs, a \in Attempts : phase[<<m, a>>] # "new" =>
        /\ a <= attempt[m]
        /\ a = attempt[m] => pc[m] \notin {"check", "checkRunning", "begin"}

\* Nothing is sent before a task begins.
TriesInv == \A t \in Tasks : phase[t] \in {"new", "waiting"} => tries[t] = 0

\* A long text and a video are first parts.
Sound == {e \in Entries : e.form # "whole" => e.part = 1}

\* Entries are where their task and its user belong.
DataInv ==
    /\ cache \in [Users -> Seq(Sound)]
    /\ out \in [Tasks -> Seq(Sound)]
    /\ hand \in [Msgs -> Sound \cup {NoEntry}]
    /\ stored \subseteq Sendings \X {1, 2}
    /\ delivered \in Seq(Sendings \X {1, 2})
    /\ \A u \in Users : \A i \in DOMAIN cache[u] : TaskUser[cache[u][i].of[1]] = u
    /\ \A t \in Tasks : \A i \in DOMAIN out[t] : out[t][i].of = <<t, tries[t]>>
    /\ \A m \in Msgs :
        /\ hand[m] # NoEntry => TaskUser[hand[m].of[1]] = UserOf[m]
        /\ pc[m] \in {"test", "delete", "reply"} => hand[m] # NoEntry

\* A part is in one place at most, and in none before it is sent.
OnePlace(s, p) ==
    /\ Once(out[s[1]], s, p) /\ Once(cache[TaskUser[s[1]]], s, p)
    /\ \A m, n \in Msgs : Has(hand[m], s, p) /\ Has(hand[n], s, p) => m = n
    /\ \A i, j \in DOMAIN delivered :
           delivered[i] = <<s, p>> /\ delivered[j] = <<s, p>> => i = j
    /\ AtOut(s, p) => ~AtCache(s, p) /\ ~AtHand(s, p) /\ ~AtUser(s, p)
    /\ AtCache(s, p) => ~AtHand(s, p) /\ ~AtUser(s, p)
    /\ AtHand(s, p) => ~AtUser(s, p)
    /\ s[2] > tries[s[1]] =>
           ~AtOut(s, p) /\ ~AtCache(s, p) /\ ~AtHand(s, p) /\ ~AtUser(s, p)

PlacesInv == \A s \in Sendings, p \in {1, 2} : OnePlace(s, p)

IInv == ScalarTypes /\ CountInv /\ FreshInv /\ TriesInv /\ DataInv /\ PlacesInv

-----------------------------------------------------------------------------
(* Tasks, entries and sequences of them.                                   *)

\* A task belongs to the user of its message.
LEMMA TaskFacts ==
    /\ \A m \in Msgs, a \in Attempts : <<m, a>> \in Tasks /\ TaskUser[<<m, a>>] = UserOf[m]
    /\ \A t \in Tasks : TaskUser[t] \in Users /\ t[1] \in Msgs /\ t[2] \in Attempts
                        /\ t = <<t[1], t[2]>>
    /\ \A m \in Msgs : UserOf[m] \in Users
<1>1. \A m \in Msgs : UserOf[m] \in Users
  BY PassiveAssumption
<1>2. \A t \in Tasks : t[1] \in Msgs /\ t[2] \in Attempts /\ t = <<t[1], t[2]>>
  BY DEF Tasks
<1>3. \A m \in Msgs, a \in Attempts : <<m, a>> \in Tasks
  BY DEF Tasks
<1>4. \A t \in Tasks : TaskUser[t] = UserOf[t[1]]
  BY DEF TaskUser
<1> QED
  BY <1>1, <1>2, <1>3, <1>4

\* A sending is one of a task.
LEMMA SendingFacts ==
    /\ \A t \in Tasks, n \in 1..MaxSends :
          <<t, n>> \in Sendings /\ <<t, n>>[1] = t /\ <<t, n>>[2] = n
    /\ \A s \in Sendings : /\ s[1] \in Tasks /\ s[2] \in 1..MaxSends /\ s = <<s[1], s[2]>>
                            /\ TaskUser[s[1]] \in Users
<1>1. \A s \in Sendings : s[1] \in Tasks /\ s[2] \in 1..MaxSends /\ s = <<s[1], s[2]>>
  BY DEF Sendings
<1>2. \A t \in Tasks, n \in 1..MaxSends :
        <<t, n>> \in Sendings /\ <<t, n>>[1] = t /\ <<t, n>>[2] = n
  BY DEF Sendings
<1> QED
  BY <1>1, <1>2, TaskFacts

\* The entries a sending or the split of a text makes.
LEMMA EntryFacts ==
    /\ NoEntry \notin Sound /\ NoEntry \notin Entries
    /\ \A e \in Sound : /\ e \in Entries /\ e.of \in Sendings /\ e.part \in {1, 2}
                         /\ e.form \in {"whole", "long", "video"}
                         /\ (e.form # "whole" => e.part = 1)
    /\ \A s \in Sendings : /\ Entry(s, 1, "whole") \in Sound /\ Entry(s, 1, "long") \in Sound
                           /\ Entry(s, 2, "whole") \in Sound /\ Entry(s, 1, "video") \in Sound
    /\ \A s, p, f : Entry(s, p, f).of = s /\ Entry(s, p, f).part = p /\ Entry(s, p, f).form = f
BY DEF NoEntry, Sound, Entries, Entry

\* The second half of a long text.
LEMMA RestFacts ==
    ASSUME NEW s \in Sendings
    PROVE  /\ Entry(s, 2, "whole") \in Sound /\ Entry(s, 2, "whole") # NoEntry
           /\ Entry(s, 2, "whole").of = s /\ Entry(s, 2, "whole").part = 2
           /\ Entry(s, 2, "whole").form = "whole"
BY EntryFacts

\* What PartsIn says of an entry, and what is stored when it is cached.
LEMMA PartsFacts ==
    /\ \A e \in Sound : PartsIn(e) \subseteq Sendings \X {1, 2}
    /\ \A e \in Sound \cup {NoEntry} : \A s \in Sendings : \A p \in {1, 2} :
          <<s, p>> \in PartsIn(e) <=> Has(e, s, p)
<1>1. ASSUME NEW e \in Sound
      PROVE  PartsIn(e) \subseteq Sendings \X {1, 2}
  <2>1. /\ e.of \in Sendings /\ e.part \in {1, 2}
        /\ e.form \in {"whole", "long", "video"}
    BY EntryFacts
  <2> QED
    BY <2>1 DEF PartsIn
<1>2. ASSUME NEW e \in Sound, NEW s \in Sendings, NEW p \in {1, 2}
      PROVE  <<s, p>> \in PartsIn(e) <=> Has(e, s, p)
  <2>1. /\ e.of \in Sendings /\ e.part \in {1, 2} /\ e # NoEntry
        /\ e.form \in {"whole", "long", "video"} /\ (e.form # "whole" => e.part = 1)
    BY EntryFacts
  <2>2. CASE e.form = "whole"
    <3>1. PartsIn(e) = {<<e.of, e.part>>}
      BY <2>2 DEF PartsIn
    <3> QED
      BY <2>1, <2>2, <3>1 DEF Has
  <2>3. CASE e.form = "long"
    <3>1. PartsIn(e) = {<<e.of, 1>>, <<e.of, 2>>}
      BY <2>3 DEF PartsIn
    <3> QED
      BY <2>1, <2>3, <3>1 DEF Has
  <2>4. CASE e.form = "video"
    <3>1. PartsIn(e) = {}
      BY <2>4 DEF PartsIn
    <3> QED
      BY <2>1, <2>4, <3>1 DEF Has
  <2> QED
    BY <2>1, <2>2, <2>3, <2>4
<1>3. ASSUME NEW s, NEW p
      PROVE  <<s, p>> \notin PartsIn(NoEntry) /\ ~Has(NoEntry, s, p)
  <2>1. NoEntry.form = "none"
    BY DEF NoEntry
  <2>2. PartsIn(NoEntry) = {}
    BY <2>1 DEF PartsIn
  <2> QED
    BY <2>2 DEF Has
<1> QED
  BY <1>1, <1>2, <1>3

\* HasIn and Once of a list to which an entry was appended.
LEMMA AppendHas ==
    ASSUME NEW s \in Seq(Sound), NEW e \in Sound, NEW t, NEW p
    PROVE  /\ Append(s, e) \in Seq(Sound)
           /\ HasIn(Append(s, e), t, p) <=> HasIn(s, t, p) \/ Has(e, t, p)
           /\ Once(s, t, p) /\ ~(HasIn(s, t, p) /\ Has(e, t, p)) => Once(Append(s, e), t, p)
           /\ \A i \in DOMAIN Append(s, e) :
                  Append(s, e)[i] = e \/ (i \in DOMAIN s /\ Append(s, e)[i] = s[i])
<1> DEFINE r == Append(s, e)
<1>1. /\ r \in Seq(Sound) /\ DOMAIN r = 1..(Len(s) + 1) /\ DOMAIN s = 1..Len(s)
      /\ Len(s) \in Nat
      /\ \A i \in 1..Len(s) : r[i] = s[i]
      /\ r[Len(s) + 1] = e
  OBVIOUS
<1> HIDE DEF r
<1>2. \A i \in DOMAIN r : i \in DOMAIN s \/ i = Len(s) + 1
  BY <1>1
<1>3. HasIn(r, t, p) <=> HasIn(s, t, p) \/ Has(e, t, p)
  <2>1. ASSUME HasIn(r, t, p)
        PROVE  HasIn(s, t, p) \/ Has(e, t, p)
    BY <1>1, <1>2, <2>1 DEF HasIn
  <2>2. ASSUME HasIn(s, t, p)
        PROVE  HasIn(r, t, p)
    BY <1>1, <2>2 DEF HasIn
  <2>3. ASSUME Has(e, t, p)
        PROVE  HasIn(r, t, p)
    BY <1>1, <2>3 DEF HasIn
  <2> QED
    BY <2>1, <2>2, <2>3
<1>4. ASSUME Once(s, t, p), ~(HasIn(s, t, p) /\ Has(e, t, p))
      PROVE  Once(r, t, p)
  BY <1>1, <1>2, <1>4 DEF Once, HasIn
<1>5. \A i \in DOMAIN r : r[i] = e \/ (i \in DOMAIN s /\ r[i] = s[i])
  BY <1>1, <1>2
<1> QED
  BY <1>1, <1>3, <1>4, <1>5 DEF r

\* HasIn and Once of a list whose head was taken.
LEMMA HeadHas ==
    ASSUME NEW s \in Seq(Sound), s # <<>>, NEW t, NEW p
    PROVE  /\ Head(s) \in Sound /\ Tail(s) \in Seq(Sound)
           /\ HasIn(s, t, p) <=> Has(Head(s), t, p) \/ HasIn(Tail(s), t, p)
           /\ Once(s, t, p) =>
                  Once(Tail(s), t, p) /\ ~(Has(Head(s), t, p) /\ HasIn(Tail(s), t, p))
           /\ 1 \in DOMAIN s /\ Head(s) = s[1]
           /\ \A i \in DOMAIN Tail(s) : i + 1 \in DOMAIN s /\ Tail(s)[i] = s[i + 1]
<1> DEFINE r == Tail(s)
<1>1. /\ Len(s) \in Nat /\ Len(s) >= 1 /\ DOMAIN s = 1..Len(s) /\ Head(s) = s[1]
      /\ s[1] \in Sound
      /\ r \in Seq(Sound) /\ DOMAIN r = 1..(Len(s) - 1)
      /\ \A i \in 1..(Len(s) - 1) : r[i] = s[i + 1]
  OBVIOUS
<1> HIDE DEF r
<1>2. \A i \in DOMAIN s : i = 1 \/ (i - 1 \in DOMAIN r /\ r[i - 1] = s[i])
  BY <1>1
<1>3. \A i \in DOMAIN r : i + 1 \in DOMAIN s /\ r[i] = s[i + 1]
  BY <1>1
<1>4. HasIn(s, t, p) <=> Has(s[1], t, p) \/ HasIn(r, t, p)
  <2>1. ASSUME HasIn(s, t, p)
        PROVE  Has(s[1], t, p) \/ HasIn(r, t, p)
    BY <1>2, <2>1 DEF HasIn
  <2>2. ASSUME Has(s[1], t, p)
        PROVE  HasIn(s, t, p)
    BY <1>1, <2>2 DEF HasIn
  <2>3. ASSUME HasIn(r, t, p)
        PROVE  HasIn(s, t, p)
    <3>1. PICK i \in DOMAIN r : Has(r[i], t, p)
      BY <2>3 DEF HasIn
    <3>2. i + 1 \in DOMAIN s /\ Has(s[i + 1], t, p)
      BY <1>3, <3>1
    <3> QED
      BY <3>2 DEF HasIn
  <2> QED
    BY <2>1, <2>2, <2>3
<1>5. ASSUME Once(s, t, p)
      PROVE  Once(r, t, p) /\ ~(Has(s[1], t, p) /\ HasIn(r, t, p))
  <2>1. ASSUME NEW i \in DOMAIN r, NEW j \in DOMAIN r, Has(r[i], t, p), Has(r[j], t, p)
        PROVE  i = j
    <3>1. /\ i + 1 \in DOMAIN s /\ Has(s[i + 1], t, p)
          /\ j + 1 \in DOMAIN s /\ Has(s[j + 1], t, p)
      BY <1>3, <2>1
    <3>2. i + 1 = j + 1
      BY <1>5, <3>1 DEF Once
    <3>3. i \in Nat /\ j \in Nat
      BY <1>1
    <3> QED
      BY <3>2, <3>3
  <2>2. ASSUME Has(s[1], t, p), NEW i \in DOMAIN r, Has(r[i], t, p)
        PROVE  FALSE
    <3>1. 1 \in DOMAIN s /\ i + 1 \in DOMAIN s /\ Has(s[i + 1], t, p)
      BY <1>1, <1>3, <2>2
    <3>2. 1 = i + 1
      BY <1>5, <2>2, <3>1 DEF Once
    <3>3. i \in Nat \ {0}
      BY <1>1
    <3> QED
      BY <3>2, <3>3
  <2> QED
    BY <2>1, <2>2 DEF Once, HasIn
<1> QED
  BY <1>1, <1>3, <1>4, <1>5 DEF r

\* What a sending is about to cache, whatever the reply.
LEMMA EntriesFacts ==
    ASSUME NEW s \in Sendings, NEW k
    PROVE  /\ EntriesOf(s, k) \in Seq(Sound)
           /\ \A i \in DOMAIN EntriesOf(s, k) : EntriesOf(s, k)[i].of = s
           /\ \A p \in {1, 2} : Once(EntriesOf(s, k), s, p)
<1>1. ASSUME NEW e \in Sound, e.of = s, EntriesOf(s, k) = <<e>>
      PROVE  /\ EntriesOf(s, k) \in Seq(Sound)
             /\ \A i \in DOMAIN EntriesOf(s, k) : EntriesOf(s, k)[i].of = s
             /\ \A p \in {1, 2} : Once(EntriesOf(s, k), s, p)
  <2>1. <<e>> \in Seq(Sound) /\ DOMAIN <<e>> = {1} /\ <<e>>[1] = e
    OBVIOUS
  <2> QED
    BY <1>1, <2>1 DEF Once
<1>2. CASE k \in {"text", "image"}
  <2>1. EntriesOf(s, k) = <<Entry(s, 1, "whole")>>
    BY <1>2 DEF EntriesOf
  <2> QED
    BY <1>1, <2>1, EntryFacts
<1>3. CASE k = "long"
  <2>1. EntriesOf(s, k) = <<Entry(s, 1, "long")>>
    BY <1>3 DEF EntriesOf
  <2> QED
    BY <1>1, <2>1, EntryFacts
<1>4. CASE k = "voices"
  <2> DEFINE e == Entry(s, 1, "whole")
             f == Entry(s, 2, "whole")
  <2>1. EntriesOf(s, k) = <<e, f>>
    BY <1>4 DEF EntriesOf
  <2>2. /\ e \in Sound /\ e.of = s /\ e.part = 1 /\ e.form = "whole"
        /\ f \in Sound /\ f.of = s /\ f.part = 2 /\ f.form = "whole"
    BY EntryFacts
  <2> HIDE DEF e, f
  <2>3. <<e, f>> \in Seq(Sound) /\ DOMAIN <<e, f>> = {1, 2}
        /\ <<e, f>>[1] = e /\ <<e, f>>[2] = f
    BY <2>2
  <2> QED
    BY <2>1, <2>2, <2>3 DEF Once, Has
<1>5. CASE k = "video"
  <2>1. EntriesOf(s, k) = <<Entry(s, 1, "video")>>
    BY <1>5 DEF EntriesOf
  <2> QED
    BY <1>1, <2>1, EntryFacts
<1>6. CASE k \notin {"text", "image", "long", "voices", "video"}
  <2>1. EntriesOf(s, k) = <<>>
    BY <1>6 DEF EntriesOf
  <2>2. <<>> \in Seq(Sound) /\ DOMAIN <<>> = {}
    OBVIOUS
  <2> QED
    BY <2>1, <2>2 DEF Once
<1> QED
  BY <1>2, <1>3, <1>4, <1>5, <1>6

-----------------------------------------------------------------------------
(* Positions, counters and phases.                                         *)

\* What a step does to positions, counters and phases keeps their types.
LEMMA ScalarKept ==
    ASSUME ScalarTypes, CountInv, [Next]_vars
    PROVE  ScalarTypes'
<1> USE PassiveAssumption, TaskFacts DEF ScalarTypes, Pcs
<1>1. ASSUME NEW m \in Msgs, Write(m)
      PROVE  ScalarTypes'
  BY <1>1 DEF Write, taskVars, Goto
<1>2. ASSUME NEW m \in Msgs, Retry(m)
      PROVE  ScalarTypes'
  <2>1. attempt[m] + 1 \in 0..MaxAttempts
    BY <1>2 DEF Retry
  <2> QED
    BY <1>2, <2>1 DEF Retry, Goto, taskVars
<1>3. ASSUME NEW m \in Msgs, CheckCached(m)
      PROVE  ScalarTypes'
  BY <1>3 DEF CheckCached, taskVars, Goto, NewCommand
<1>4. ASSUME NEW m \in Msgs, CheckRunning(m)
      PROVE  ScalarTypes'
  BY <1>4 DEF CheckRunning, taskVars, Goto, NewCommand
<1>5. ASSUME NEW m \in Msgs, Begin(m)
      PROVE  ScalarTypes'
  <2>1. /\ cached' = cached /\ UNCHANGED <<cnt, attempt, reply, tries>>
        /\ running' \subseteq running \cup {UserOf[m]}
    BY <1>5 DEF Begin
  <2>2. pc' = [pc EXCEPT ![m] = "answered"] \/ pc' = [pc EXCEPT ![m] = "count"]
    BY <1>5 DEF Begin, Goto, Respond
  <2>3. answer' = answer \/ answer' = [answer EXCEPT ![m] = "hint"]
    BY <1>5 DEF Begin, Respond
  <2>4. phase' = phase \/ phase' = [phase EXCEPT ![<<m, attempt[m]>>] = "waiting"]
    BY <1>5 DEF Begin
  <2>5. pc' \in [Msgs -> Pcs]
    BY <2>2
  <2>6. answer' \in [Msgs -> {"none", "hint", "thinking", "success", "error", "reply"}]
    BY <2>3
  <2>7. phase' \in [Tasks -> {"new", "waiting", "active", "over"}]
    BY <2>4
  <2> QED
    BY <2>1, <2>5, <2>6, <2>7
<1>6. ASSUME NEW m \in Msgs, Count(m)
      PROVE  ScalarTypes'
  <2>1. cnt[m] < attempt[m] /\ cnt[m] \in Nat /\ attempt[m] \in 0..MaxAttempts
    BY <1>6 DEF Count, CountInv
  <2>2. cnt[m] + 1 \in 0..MaxAttempts
    BY <2>1
  <2> QED
    BY <1>6, <2>2 DEF Count, Goto, taskVars
<1>7. ASSUME NEW m \in Msgs, TimeOut(m)
      PROVE  ScalarTypes'
  BY <1>7 DEF TimeOut, taskVars, Goto, Respond
<1>8. ASSUME NEW m \in Msgs, Ready(m)
      PROVE  ScalarTypes'
  BY <1>8 DEF Ready, taskVars, Goto
<1>9. ASSUME NEW m \in Msgs, FindCached(m)
      PROVE  ScalarTypes'
  BY <1>9 DEF FindCached, taskVars, Goto
<1>10. ASSUME NEW m \in Msgs, FindRunning(m)
      PROVE  ScalarTypes'
  BY <1>10 DEF FindRunning, taskVars, Goto, Respond
<1>11. ASSUME NEW m \in Msgs, Pop(m)
      PROVE  ScalarTypes'
  <2>1. /\ UNCHANGED <<running, cnt, attempt, phase, reply, tries>>
        /\ cached' = cached \cup {UserOf[m]}
    BY <1>11 DEF Pop, taskVars
  <2>2. pc' = [pc EXCEPT ![m] = "answered"] \/ pc' = [pc EXCEPT ![m] = "test"]
    BY <1>11 DEF Pop, Goto, Respond
  <2>3. answer' = answer \/ answer' = [answer EXCEPT ![m] = "success"]
    BY <1>11 DEF Pop, Respond
  <2>4. pc' \in [Msgs -> Pcs]
    BY <2>2
  <2>5. answer' \in [Msgs -> {"none", "hint", "thinking", "success", "error", "reply"}]
    BY <2>3
  <2> QED
    BY <2>1, <2>4, <2>5
<1>12. ASSUME NEW m \in Msgs, TestEmpty(m)
      PROVE  ScalarTypes'
  BY <1>12 DEF TestEmpty, taskVars, Goto
<1>13. ASSUME NEW m \in Msgs, DeleteEntry(m)
      PROVE  ScalarTypes'
  BY <1>13 DEF DeleteEntry, taskVars, Goto, Respond
<1>14. ASSUME NEW m \in Msgs, Reply(m)
      PROVE  ScalarTypes'
  <2>1. /\ cached' \subseteq cached \cup {UserOf[m]}
        /\ UNCHANGED <<running, cnt, attempt, phase, reply, tries>>
        /\ pc' = [pc EXCEPT ![m] = "answered"]
        /\ \E a \in {"success", "reply"} : answer' = [answer EXCEPT ![m] = a]
    BY <1>14 DEF Reply, Goto, Respond, taskVars
  <2>2. answer' \in [Msgs -> {"none", "hint", "thinking", "success", "error", "reply"}]
    BY <2>1
  <2> QED
    BY <2>1, <2>2
<1>15. ASSUME NEW t \in Tasks, StartTask(t)
      PROVE  ScalarTypes'
  <2>1. PICK k \in Replies[t[1]] : reply' = [reply EXCEPT ![t] = k]
    BY <1>15 DEF StartTask
  <2>2. /\ UNCHANGED <<cached, running, cnt, attempt, pc, answer>>
        /\ phase' = [phase EXCEPT ![t] = "active"] /\ tries' = [tries EXCEPT ![t] = 1]
    BY <1>15 DEF StartTask
  <2>3. k \in ReplyKinds
    BY TaskFacts
  <2>4. 1 \in 0..MaxSends
    OBVIOUS
  <2> QED
    BY <2>1, <2>2, <2>3, <2>4
<1>16. ASSUME NEW t \in Tasks, SendPart(t)
      PROVE  ScalarTypes'
  BY <1>16 DEF SendPart
<1>17. ASSUME NEW t \in Tasks, Succeed(t)
      PROVE  ScalarTypes'
  BY <1>17 DEF Succeed, EndTask
<1>18. ASSUME NEW t \in Tasks, Fail(t)
      PROVE  ScalarTypes'
  BY <1>18 DEF Fail, EndTask
<1>19. ASSUME NEW t \in Tasks, Drop(t)
      PROVE  ScalarTypes'
  BY <1>19 DEF Drop, EndTask
<1>20. CASE UNCHANGED vars
  BY <1>20 DEF vars, taskVars
<1>21. ASSUME NEW t \in Tasks, SendLess(t)
      PROVE  ScalarTypes'
  BY <1>21 DEF SendLess
<1>22. ASSUME NEW t \in Tasks, SendAgain(t)
      PROVE  ScalarTypes'
  <2>1. tries[t] + 1 \in 0..MaxSends
    BY <1>22 DEF SendAgain
  <2> QED
    BY <1>22, <2>1 DEF SendAgain
<1> QED
  BY <1>1, <1>2, <1>3, <1>4, <1>5, <1>6, <1>7, <1>8, <1>9, <1>10, <1>11,
     <1>12, <1>13, <1>14, <1>15, <1>16, <1>17, <1>18, <1>19, <1>20, <1>21, <1>22
     DEF Next, Request, Task

\* A request counts its message once.
LEMMA CountKept ==
    ASSUME ScalarTypes, CountInv, [Next]_vars
    PROVE  CountInv'
<1> USE PassiveAssumption DEF CountInv, ScalarTypes, Pcs
<1>1. ASSUME NEW m \in Msgs, Write(m)
      PROVE  CountInv'
  BY <1>1 DEF Write, taskVars, Goto
<1>2. ASSUME NEW m \in Msgs, Retry(m)
      PROVE  CountInv'
  BY <1>2 DEF Retry, taskVars, Goto
<1>3. ASSUME NEW m \in Msgs, CheckCached(m)
      PROVE  CountInv'
  BY <1>3 DEF CheckCached, taskVars, Goto, NewCommand
<1>4. ASSUME NEW m \in Msgs, CheckRunning(m)
      PROVE  CountInv'
  BY <1>4 DEF CheckRunning, taskVars, Goto, NewCommand
<1>5. ASSUME NEW m \in Msgs, Begin(m)
      PROVE  CountInv'
  BY <1>5 DEF Begin, Goto, Respond
<1>6. ASSUME NEW m \in Msgs, Count(m)
      PROVE  CountInv'
  BY <1>6 DEF Count, taskVars, Goto
<1>7. ASSUME NEW m \in Msgs, TimeOut(m)
      PROVE  CountInv'
  BY <1>7 DEF TimeOut, taskVars, Goto, Respond
<1>8. ASSUME NEW m \in Msgs, Ready(m)
      PROVE  CountInv'
  BY <1>8 DEF Ready, taskVars, Goto
<1>9. ASSUME NEW m \in Msgs, FindCached(m)
      PROVE  CountInv'
  BY <1>9 DEF FindCached, taskVars, Goto
<1>10. ASSUME NEW m \in Msgs, FindRunning(m)
      PROVE  CountInv'
  BY <1>10 DEF FindRunning, taskVars, Goto, Respond
<1>11. ASSUME NEW m \in Msgs, Pop(m)
      PROVE  CountInv'
  BY <1>11 DEF Pop, taskVars, Goto, Respond
<1>12. ASSUME NEW m \in Msgs, TestEmpty(m)
      PROVE  CountInv'
  BY <1>12 DEF TestEmpty, taskVars, Goto
<1>13. ASSUME NEW m \in Msgs, DeleteEntry(m)
      PROVE  CountInv'
  BY <1>13 DEF DeleteEntry, taskVars, Goto, Respond
<1>14. ASSUME NEW m \in Msgs, Reply(m)
      PROVE  CountInv'
  BY <1>14 DEF Reply, taskVars, Respond, Goto
<1>15. ASSUME NEW t \in Tasks, StartTask(t)
      PROVE  CountInv'
  BY <1>15 DEF StartTask
<1>16. ASSUME NEW t \in Tasks, SendPart(t)
      PROVE  CountInv'
  BY <1>16 DEF SendPart
<1>17. ASSUME NEW t \in Tasks, Succeed(t)
      PROVE  CountInv'
  BY <1>17 DEF Succeed, EndTask
<1>18. ASSUME NEW t \in Tasks, Fail(t)
      PROVE  CountInv'
  BY <1>18 DEF Fail, EndTask
<1>19. ASSUME NEW t \in Tasks, Drop(t)
      PROVE  CountInv'
  BY <1>19 DEF Drop, EndTask
<1>20. CASE UNCHANGED vars
  BY <1>20 DEF vars, taskVars
<1>21. ASSUME NEW t \in Tasks, SendLess(t)
      PROVE  CountInv'
  BY <1>21 DEF SendLess
<1>22. ASSUME NEW t \in Tasks, SendAgain(t)
      PROVE  CountInv'
  BY <1>22 DEF SendAgain
<1> QED
  BY <1>1, <1>2, <1>3, <1>4, <1>5, <1>6, <1>7, <1>8, <1>9, <1>10, <1>11,
     <1>12, <1>13, <1>14, <1>15, <1>16, <1>17, <1>18, <1>19, <1>20, <1>21, <1>22
     DEF Next, Request, Task

\* A request produces its own task, and once.
LEMMA FreshKept ==
    ASSUME ScalarTypes, CountInv, FreshInv, [Next]_vars
    PROVE  FreshInv'
<1> USE PassiveAssumption, TaskFacts DEF FreshInv, ScalarTypes, Pcs, Attempts
<1>1. ASSUME NEW m \in Msgs, Write(m)
      PROVE  FreshInv'
  <2>1. attempt[m] = 0 /\ \A a \in Attempts : phase[<<m, a>>] = "new"
    BY <1>1 DEF Write, CountInv
  <2> QED
    BY <1>1, <2>1 DEF Write, taskVars, Goto
<1>2. ASSUME NEW m \in Msgs, Retry(m)
      PROVE  FreshInv'
  BY <1>2 DEF Retry, taskVars, Goto
<1>3. ASSUME NEW m \in Msgs, CheckCached(m)
      PROVE  FreshInv'
  BY <1>3 DEF CheckCached, taskVars, Goto, NewCommand
<1>4. ASSUME NEW m \in Msgs, CheckRunning(m)
      PROVE  FreshInv'
  BY <1>4 DEF CheckRunning, taskVars, Goto, NewCommand
<1>5. ASSUME NEW m \in Msgs, Begin(m)
      PROVE  FreshInv'
  BY <1>5 DEF Begin, Goto, Respond
<1>6. ASSUME NEW m \in Msgs, Count(m)
      PROVE  FreshInv'
  BY <1>6 DEF Count, taskVars, Goto
<1>7. ASSUME NEW m \in Msgs, TimeOut(m)
      PROVE  FreshInv'
  BY <1>7 DEF TimeOut, taskVars, Goto, Respond
<1>8. ASSUME NEW m \in Msgs, Ready(m)
      PROVE  FreshInv'
  BY <1>8 DEF Ready, taskVars, Goto
<1>9. ASSUME NEW m \in Msgs, FindCached(m)
      PROVE  FreshInv'
  BY <1>9 DEF FindCached, taskVars, Goto
<1>10. ASSUME NEW m \in Msgs, FindRunning(m)
      PROVE  FreshInv'
  BY <1>10 DEF FindRunning, taskVars, Goto, Respond
<1>11. ASSUME NEW m \in Msgs, Pop(m)
      PROVE  FreshInv'
  BY <1>11 DEF Pop, taskVars, Goto, Respond
<1>12. ASSUME NEW m \in Msgs, TestEmpty(m)
      PROVE  FreshInv'
  BY <1>12 DEF TestEmpty, taskVars, Goto
<1>13. ASSUME NEW m \in Msgs, DeleteEntry(m)
      PROVE  FreshInv'
  BY <1>13 DEF DeleteEntry, taskVars, Goto, Respond
<1>14. ASSUME NEW m \in Msgs, Reply(m)
      PROVE  FreshInv'
  BY <1>14 DEF Reply, taskVars, Respond, Goto
<1>15. ASSUME NEW t \in Tasks, StartTask(t)
      PROVE  FreshInv'
  BY <1>15 DEF StartTask
<1>16. ASSUME NEW t \in Tasks, SendPart(t)
      PROVE  FreshInv'
  BY <1>16 DEF SendPart
<1>17. ASSUME NEW t \in Tasks, Succeed(t)
      PROVE  FreshInv'
  BY <1>17 DEF Succeed, EndTask
<1>18. ASSUME NEW t \in Tasks, Fail(t)
      PROVE  FreshInv'
  BY <1>18 DEF Fail, EndTask
<1>19. ASSUME NEW t \in Tasks, Drop(t)
      PROVE  FreshInv'
  BY <1>19 DEF Drop, EndTask
<1>20. CASE UNCHANGED vars
  BY <1>20 DEF vars, taskVars
<1>21. ASSUME NEW t \in Tasks, SendLess(t)
      PROVE  FreshInv'
  BY <1>21 DEF SendLess
<1>22. ASSUME NEW t \in Tasks, SendAgain(t)
      PROVE  FreshInv'
  BY <1>22 DEF SendAgain
<1> QED
  BY <1>1, <1>2, <1>3, <1>4, <1>5, <1>6, <1>7, <1>8, <1>9, <1>10, <1>11,
     <1>12, <1>13, <1>14, <1>15, <1>16, <1>17, <1>18, <1>19, <1>20, <1>21, <1>22
     DEF Next, Request, Task

\* Only a task that has begun is sent.
LEMMA TriesKept ==
    ASSUME ScalarTypes, CountInv, FreshInv, TriesInv, [Next]_vars
    PROVE  TriesInv'
<1>1. ASSUME NEW m \in Msgs, Begin(m)
      PROVE  TriesInv'
  <2>1. tries' = tries
    BY <1>1 DEF Begin
  <2>2. phase' = phase \/ phase' = [phase EXCEPT ![<<m, attempt[m]>>] = "waiting"]
    BY <1>1 DEF Begin
  <2>3. pc[m] = "begin" /\ attempt[m] \in Attempts
    BY <1>1 DEF Begin, CountInv, ScalarTypes, Attempts
  <2>4. phase[<<m, attempt[m]>>] = "new" /\ <<m, attempt[m]>> \in Tasks
    BY <2>3, TaskFacts DEF FreshInv
  <2> QED
    BY <2>1, <2>2, <2>4 DEF ScalarTypes, TriesInv
<1>2. ASSUME NEW m \in Msgs, Write(m) \/ Retry(m) \/ Request(m), ~Begin(m)
      PROVE  TriesInv'
  <2>1. UNCHANGED <<phase, tries>>
    BY <1>2 DEF Write, Retry, Request, CheckCached, CheckRunning, Count,
                TimeOut, Ready,
                FindCached, FindRunning, Pop, TestEmpty, DeleteEntry, Reply, taskVars
  <2> QED
    BY <2>1 DEF TriesInv
<1>3. ASSUME NEW t \in Tasks, StartTask(t)
      PROVE  TriesInv'
  BY <1>3 DEF StartTask, ScalarTypes, TriesInv
<1>4. ASSUME NEW t \in Tasks, SendPart(t) \/ SendLess(t)
      PROVE  TriesInv'
  BY <1>4 DEF SendPart, SendLess, TriesInv
<1>5. ASSUME NEW t \in Tasks, SendAgain(t)
      PROVE  TriesInv'
  BY <1>5 DEF SendAgain, Uploading, ScalarTypes, TriesInv
<1>6. ASSUME NEW t \in Tasks, Succeed(t) \/ Fail(t) \/ Drop(t)
      PROVE  TriesInv'
  BY <1>6 DEF Succeed, Fail, Drop, EndTask, ScalarTypes, TriesInv
<1>7. CASE UNCHANGED vars
  BY <1>7 DEF vars, taskVars, TriesInv
<1> QED
  BY <1>1, <1>2, <1>3, <1>4, <1>5, <1>6, <1>7 DEF Next, Task

-----------------------------------------------------------------------------
(* Entries are where their task and its user belong.                       *)

\* A sending begins.
LEMMA OutRenewed ==
    ASSUME ScalarTypes, DataInv, UNCHANGED <<cache, hand, delivered, pc, stored>>,
           NEW t \in Tasks, NEW n, NEW k, <<t, n>> \in Sendings,
           tries' = [tries EXCEPT ![t] = n],
           out' = [out EXCEPT ![t] = EntriesOf(<<t, n>>, k)]
    PROVE  DataInv'
<1>1. /\ EntriesOf(<<t, n>>, k) \in Seq(Sound)
      /\ \A i \in DOMAIN EntriesOf(<<t, n>>, k) : EntriesOf(<<t, n>>, k)[i].of = <<t, n>>
  BY EntriesFacts
<1>2. \A s \in Tasks : /\ out'[s] = IF s = t THEN EntriesOf(<<t, n>>, k) ELSE out[s]
                       /\ tries'[s] = IF s = t THEN n ELSE tries[s]
  BY DEF DataInv, ScalarTypes
<1>3. out' \in [Tasks -> Seq(Sound)]
  BY <1>1 DEF DataInv
<1>4. \A s \in Tasks : \A i \in DOMAIN out'[s] : out'[s][i].of = <<s, tries'[s]>>
  <2>1. \A s \in Tasks : \A i \in DOMAIN out[s] : out[s][i].of = <<s, tries[s]>>
    BY DEF DataInv
  <2> QED
    BY <1>1, <1>2, <2>1
<1> QED
  BY <1>3, <1>4 DEF DataInv

\* Entries stay where their task and its user belong.
LEMMA DataKept ==
    ASSUME ScalarTypes, DataInv, [Next]_vars
    PROVE  DataInv'
<1> USE TaskFacts DEF DataInv, ScalarTypes, Pcs
<1>1. ASSUME NEW m \in Msgs, Write(m)
      PROVE  DataInv'
  <2>1. /\ cache' = cache /\ out' = out /\ hand' = hand /\ delivered' = delivered
        /\ tries' = tries /\ stored' = stored
        /\ \A n \in Msgs : pc'[n] \in {"test", "delete", "reply"} =>
                             pc[n] \in {"test", "delete", "reply"}
    BY <1>1 DEF Write, taskVars, Goto
  <2> QED
    BY <2>1
<1>2. ASSUME NEW m \in Msgs, Retry(m)
      PROVE  DataInv'
  <2>1. /\ cache' = cache /\ out' = out /\ hand' = hand /\ delivered' = delivered
        /\ tries' = tries /\ stored' = stored
        /\ \A n \in Msgs : pc'[n] \in {"test", "delete", "reply"} =>
                             pc[n] \in {"test", "delete", "reply"}
    BY <1>2 DEF Retry, taskVars, Goto
  <2> QED
    BY <2>1
<1>3. ASSUME NEW m \in Msgs, CheckCached(m)
      PROVE  DataInv'
  <2>1. /\ cache' = cache /\ out' = out /\ hand' = hand /\ delivered' = delivered
        /\ tries' = tries /\ stored' = stored
        /\ \A n \in Msgs : pc'[n] \in {"test", "delete", "reply"} =>
                             pc[n] \in {"test", "delete", "reply"}
    BY <1>3 DEF CheckCached, taskVars, Goto, NewCommand
  <2> QED
    BY <2>1
<1>4. ASSUME NEW m \in Msgs, CheckRunning(m)
      PROVE  DataInv'
  <2>1. /\ cache' = cache /\ out' = out /\ hand' = hand /\ delivered' = delivered
        /\ tries' = tries /\ stored' = stored
        /\ \A n \in Msgs : pc'[n] \in {"test", "delete", "reply"} =>
                             pc[n] \in {"test", "delete", "reply"}
    BY <1>4 DEF CheckRunning, taskVars, Goto, NewCommand
  <2> QED
    BY <2>1
<1>5. ASSUME NEW m \in Msgs, Begin(m)
      PROVE  DataInv'
  <2>1. /\ cache' = cache /\ out' = out /\ hand' = hand /\ delivered' = delivered
        /\ tries' = tries /\ stored' = stored
        /\ \A n \in Msgs : pc'[n] \in {"test", "delete", "reply"} =>
                             pc[n] \in {"test", "delete", "reply"}
    BY <1>5 DEF Begin, Goto, Respond
  <2> QED
    BY <2>1
<1>6. ASSUME NEW m \in Msgs, Count(m)
      PROVE  DataInv'
  <2>1. /\ cache' = cache /\ out' = out /\ hand' = hand /\ delivered' = delivered
        /\ tries' = tries /\ stored' = stored
        /\ \A n \in Msgs : pc'[n] \in {"test", "delete", "reply"} =>
                             pc[n] \in {"test", "delete", "reply"}
    BY <1>6 DEF Count, taskVars, Goto
  <2> QED
    BY <2>1
<1>7. ASSUME NEW m \in Msgs, TimeOut(m)
      PROVE  DataInv'
  <2>1. /\ cache' = cache /\ out' = out /\ hand' = hand /\ delivered' = delivered
        /\ tries' = tries /\ stored' = stored
        /\ \A n \in Msgs : pc'[n] \in {"test", "delete", "reply"} =>
                             pc[n] \in {"test", "delete", "reply"}
    BY <1>7 DEF TimeOut, taskVars, Goto, Respond
  <2> QED
    BY <2>1
<1>8. ASSUME NEW m \in Msgs, Ready(m)
      PROVE  DataInv'
  <2>1. /\ cache' = cache /\ out' = out /\ hand' = hand /\ delivered' = delivered
        /\ tries' = tries /\ stored' = stored
        /\ \A n \in Msgs : pc'[n] \in {"test", "delete", "reply"} =>
                             pc[n] \in {"test", "delete", "reply"}
    BY <1>8 DEF Ready, taskVars, Goto
  <2> QED
    BY <2>1
<1>9. ASSUME NEW m \in Msgs, FindCached(m)
      PROVE  DataInv'
  <2>1. /\ cache' = cache /\ out' = out /\ hand' = hand /\ delivered' = delivered
        /\ tries' = tries /\ stored' = stored
        /\ \A n \in Msgs : pc'[n] \in {"test", "delete", "reply"} =>
                             pc[n] \in {"test", "delete", "reply"}
    BY <1>9 DEF FindCached, taskVars, Goto
  <2> QED
    BY <2>1
<1>10. ASSUME NEW m \in Msgs, FindRunning(m)
      PROVE  DataInv'
  <2>1. /\ cache' = cache /\ out' = out /\ hand' = hand /\ delivered' = delivered
        /\ tries' = tries /\ stored' = stored
        /\ \A n \in Msgs : pc'[n] \in {"test", "delete", "reply"} =>
                             pc[n] \in {"test", "delete", "reply"}
    BY <1>10 DEF FindRunning, taskVars, Goto, Respond
  <2> QED
    BY <2>1
<1>11. ASSUME NEW m \in Msgs, Pop(m)
      PROVE  DataInv'
  <2> DEFINE u == UserOf[m]
             e == Head(cache[u])
  <2>1. /\ u \in Users /\ out' = out /\ delivered' = delivered
        /\ tries' = tries /\ stored' = stored
    BY <1>11 DEF Pop, taskVars
  <2>2. CASE cache[u] = <<>>
    <3>1. cache' = cache /\ hand' = hand /\ pc' = [pc EXCEPT ![m] = "answered"]
      BY <1>11, <2>2 DEF Pop, Respond, Goto
    <3> QED
      BY <2>1, <3>1
  <2>3. CASE cache[u] # <<>>
    <3>1. /\ hand' = [hand EXCEPT ![m] = e]
          /\ cache' = [cache EXCEPT ![u] = Tail(cache[u])]
      BY <1>11, <2>3 DEF Pop, Goto
    <3>2. pc' = [pc EXCEPT ![m] = "test"]
      BY <1>11, <2>3 DEF Pop, Goto
    <3>3. /\ e \in Sound /\ TaskUser[e.of[1]] = u
          /\ Tail(cache[u]) \in Seq(Sound)
          /\ \A i \in DOMAIN Tail(cache[u]) : TaskUser[Tail(cache[u])[i].of[1]] = u
      <4>1. cache[u] \in Seq(Sound)
        BY <2>1
      <4>2. /\ e \in Sound /\ Tail(cache[u]) \in Seq(Sound)
            /\ 1 \in DOMAIN cache[u] /\ e = cache[u][1]
            /\ \A i \in DOMAIN Tail(cache[u]) :
                 i + 1 \in DOMAIN cache[u] /\ Tail(cache[u])[i] = cache[u][i + 1]
        BY <2>3, <4>1, HeadHas
      <4> HIDE DEF e
      <4>3. \A i \in DOMAIN cache[u] : TaskUser[cache[u][i].of[1]] = u
        BY <2>1
      <4> QED
        BY <4>2, <4>3
    <3>4. e # NoEntry
      BY <3>3, EntryFacts
    <3> HIDE DEF e
    <3>5. cache' \in [Users -> Seq(Sound)] /\ hand' \in [Msgs -> Sound \cup {NoEntry}]
      BY <3>1, <3>3
    <3>6. \A v \in Users : \A i \in DOMAIN cache'[v] : TaskUser[cache'[v][i].of[1]] = v
      BY <3>1, <3>3, <2>1
    <3>7. \A n \in Msgs : /\ hand'[n] # NoEntry => TaskUser[hand'[n].of[1]] = UserOf[n]
                          /\ pc'[n] \in {"test", "delete", "reply"} => hand'[n] # NoEntry
      BY <3>1, <3>2, <3>3, <3>4
    <3> QED
      BY <2>1, <3>5, <3>6, <3>7
  <2> QED
    BY <2>2, <2>3
<1>12. ASSUME NEW m \in Msgs, TestEmpty(m)
      PROVE  DataInv'
  <2>1. /\ cache' = cache /\ out' = out /\ hand' = hand /\ delivered' = delivered
        /\ tries' = tries /\ stored' = stored
        /\ \A n \in Msgs : pc'[n] \in {"test", "delete", "reply"} =>
                             pc[n] \in {"test", "delete", "reply"}
    BY <1>12 DEF TestEmpty, taskVars, Goto
  <2> QED
    BY <2>1
<1>13. ASSUME NEW m \in Msgs, DeleteEntry(m)
      PROVE  DataInv'
  <2> DEFINE u == UserOf[m]
  <2>1. /\ u \in Users /\ out' = out /\ delivered' = delivered /\ pc[m] = "delete"
        /\ tries' = tries /\ stored' = stored
        /\ cache' = [cache EXCEPT ![u] = <<>>]
    BY <1>13 DEF DeleteEntry, taskVars
  <2>2. \/ hand' = hand /\ pc' = [pc EXCEPT ![m] = "reply"]
        \/ hand' = [hand EXCEPT ![m] = NoEntry] /\ pc' = [pc EXCEPT ![m] = "answered"]
    BY <1>13 DEF DeleteEntry, Goto, Respond
  <2>3. cache' \in [Users -> Seq(Sound)] /\ \A v \in Users : v # u => cache'[v] = cache[v]
    BY <2>1
  <2>4. \A v \in Users : \A i \in DOMAIN cache'[v] : TaskUser[cache'[v][i].of[1]] = v
    BY <2>1
  <2>5. hand' \in [Msgs -> Sound \cup {NoEntry}]
    BY <2>2
  <2>6. \A n \in Msgs : /\ hand'[n] # NoEntry => TaskUser[hand'[n].of[1]] = UserOf[n]
                        /\ pc'[n] \in {"test", "delete", "reply"} => hand'[n] # NoEntry
    BY <2>1, <2>2
  <2> QED
    BY <2>1, <2>3, <2>4, <2>5, <2>6
<1>14. ASSUME NEW m \in Msgs, Reply(m)
      PROVE  DataInv'
  <2> DEFINE u == UserOf[m]
             e == hand[m]
             f == Entry(e.of, 2, "whole")
             r == Append(cache[u], f)
  <2>1. /\ u \in Users /\ out' = out /\ pc[m] = "reply"
        /\ hand' = [hand EXCEPT ![m] = NoEntry]
        /\ pc' = [pc EXCEPT ![m] = "answered"]
        /\ delivered' = delivered \/ delivered' = Append(delivered, <<e.of, e.part>>)
        /\ tries' = tries /\ stored' = stored
        /\ cache' = cache \/ cache' = [cache EXCEPT ![u] = r]
    BY <1>14 DEF Reply, taskVars, Respond, Goto
  <2>2. e \in Sound /\ TaskUser[e.of[1]] = u
    BY <2>1
  <2>3. e.of \in Sendings /\ e.part \in {1, 2}
    BY <2>2, EntryFacts
  <2>4. f \in Sound /\ f.of = e.of
    BY <2>3, EntryFacts
  <2> HIDE DEF e, f
  <2>5. cache[u] \in Seq(Sound)
    BY <2>1
  <2>6. /\ r \in Seq(Sound)
        /\ \A i \in DOMAIN r :
             r[i] = f
             \/ (i \in DOMAIN cache[u] /\ r[i] = cache[u][i])
    <3> HIDE DEF DataInv, ScalarTypes
    <3> QED
      BY <2>4, <2>5, AppendHas
  <2> HIDE DEF r
  <2>7. cache' \in [Users -> Seq(Sound)]
    <3>1. cache \in [Users -> Seq(Sound)]
      OBVIOUS
    <3> HIDE DEF DataInv, ScalarTypes
    <3>2. [cache EXCEPT ![u] = r] \in [Users -> Seq(Sound)]
      BY <2>1, <2>6, <3>1
    <3> QED
      BY <2>1, <3>1, <3>2
  <2>8. \A v \in Users : \A i \in DOMAIN cache'[v] : TaskUser[cache'[v][i].of[1]] = v
    <3>1. \A i \in DOMAIN r : TaskUser[r[i].of[1]] = u
      <4>1. \A i \in DOMAIN cache[u] : TaskUser[cache[u][i].of[1]] = u
        BY <2>1
      <4> HIDE DEF DataInv, ScalarTypes
      <4> QED
        BY <2>2, <2>4, <2>6, <4>1
    <3>2. CASE cache' = cache
      BY <3>2
    <3>3. CASE cache' = [cache EXCEPT ![u] = r]
      <4>1. \A v \in Users : cache'[v] = IF v = u THEN r ELSE cache[v]
        BY <3>3
      <4> QED
        BY <2>1, <3>1, <4>1
    <3> QED
      BY <2>1, <3>2, <3>3
  <2>9. <<e.of, e.part>> \in Sendings \X {1, 2}
    BY <2>3
  <2>10. delivered' \in Seq(Sendings \X {1, 2})
    <3>1. delivered \in Seq(Sendings \X {1, 2})
      OBVIOUS
    <3> HIDE DEF DataInv, ScalarTypes
    <3>2. \A d \in Sendings \X {1, 2} : Append(delivered, d) \in Seq(Sendings \X {1, 2})
      BY <3>1
    <3> QED
      BY <2>1, <2>9, <3>1, <3>2
  <2>11. hand' \in [Msgs -> Sound \cup {NoEntry}]
    BY <2>1
  <2>12. \A n \in Msgs : /\ hand'[n] # NoEntry => TaskUser[hand'[n].of[1]] = UserOf[n]
                         /\ pc'[n] \in {"test", "delete", "reply"} => hand'[n] # NoEntry
    BY <2>1
  <2> QED
    BY <2>1, <2>7, <2>8, <2>10, <2>11, <2>12
<1>15. ASSUME NEW t \in Tasks, StartTask(t)
      PROVE  DataInv'
  <2>1. PICK k \in Replies[t[1]] : out' = [out EXCEPT ![t] = EntriesOf(<<t, 1>>, k)]
    BY <1>15 DEF StartTask
  <2>2. /\ cache' = cache /\ hand' = hand /\ delivered' = delivered /\ pc' = pc
        /\ stored' = stored /\ tries' = [tries EXCEPT ![t] = 1]
    BY <1>15 DEF StartTask
  <2>3. 1 \in 1..MaxSends
    BY PassiveAssumption
  <2>4. <<t, 1>> \in Sendings
    BY <2>3, SendingFacts
  <2> QED
    BY <2>1, <2>2, <2>4, OutRenewed
<1>16. ASSUME NEW t \in Tasks, SendPart(t)
      PROVE  DataInv'
  <2> DEFINE u == TaskUser[t]
             e == Head(out[t])
  <2>1. /\ out[t] # <<>> /\ u \in Users
        /\ cache' = [cache EXCEPT ![u] = Append(cache[u], e)]
        /\ out' = [out EXCEPT ![t] = Tail(out[t])]
        /\ hand' = hand /\ delivered' = delivered /\ pc' = pc /\ tries' = tries
        /\ stored' = stored \cup PartsIn(e)
    BY <1>16 DEF SendPart
  <2>2. /\ e \in Sound /\ e.of = <<t, tries[t]>>
        /\ Tail(out[t]) \in Seq(Sound)
        /\ \A i \in DOMAIN Tail(out[t]) : Tail(out[t])[i].of = <<t, tries[t]>>
    <3>1. out[t] \in Seq(Sound) /\ \A i \in DOMAIN out[t] : out[t][i].of = <<t, tries[t]>>
      OBVIOUS
    <3> HIDE DEF DataInv, ScalarTypes
    <3> QED
      BY <2>1, <3>1, HeadHas
  <2>3. cache[u] \in Seq(Sound)
    BY <2>1
  <2> HIDE DEF e
  <2>4. /\ Append(cache[u], e) \in Seq(Sound)
        /\ \A i \in DOMAIN Append(cache[u], e) :
             Append(cache[u], e)[i] = e
             \/ (i \in DOMAIN cache[u] /\ Append(cache[u], e)[i] = cache[u][i])
    BY <2>2, <2>3, AppendHas
  <2>5. cache' \in [Users -> Seq(Sound)] /\ out' \in [Tasks -> Seq(Sound)]
    BY <2>1, <2>2, <2>4
  <2>6. \A v \in Users : \A i \in DOMAIN cache'[v] : TaskUser[cache'[v][i].of[1]] = v
    <3>1. \A i \in DOMAIN Append(cache[u], e) : TaskUser[Append(cache[u], e)[i].of[1]] = u
      <4>1. \A i \in DOMAIN cache[u] : TaskUser[cache[u][i].of[1]] = u
        BY <2>1
      <4> HIDE DEF DataInv, ScalarTypes
      <4> QED
        BY <2>2, <2>4, <4>1
    <3>2. \A v \in Users : cache'[v] = IF v = u THEN Append(cache[u], e) ELSE cache[v]
      BY <2>1
    <3>3. \A v \in Users : \A i \in DOMAIN cache[v] : TaskUser[cache[v][i].of[1]] = v
      OBVIOUS
    <3> HIDE DEF DataInv, ScalarTypes
    <3> QED
      BY <3>1, <3>2, <3>3
  <2>7. \A s \in Tasks : \A i \in DOMAIN out'[s] : out'[s][i].of = <<s, tries'[s]>>
    BY <2>1, <2>2
  <2>8. stored' \subseteq Sendings \X {1, 2}
    <3>1. stored \subseteq Sendings \X {1, 2}
      OBVIOUS
    <3> HIDE DEF DataInv, ScalarTypes
    <3> QED
      BY <2>1, <2>2, <3>1, PartsFacts
  <2> QED
    BY <2>1, <2>5, <2>6, <2>7, <2>8
<1>17. ASSUME NEW t \in Tasks, Succeed(t)
      PROVE  DataInv'
  <2>1. /\ cache' = cache /\ out' = out /\ hand' = hand /\ delivered' = delivered
        /\ tries' = tries /\ stored' = stored
        /\ \A n \in Msgs : pc'[n] \in {"test", "delete", "reply"} =>
                             pc[n] \in {"test", "delete", "reply"}
    BY <1>17 DEF Succeed, EndTask
  <2> QED
    BY <2>1
<1>18. ASSUME NEW t \in Tasks, Fail(t)
      PROVE  DataInv'
  <2>1. /\ cache' = cache /\ out' = out /\ hand' = hand /\ delivered' = delivered
        /\ tries' = tries /\ stored' = stored
        /\ \A n \in Msgs : pc'[n] \in {"test", "delete", "reply"} =>
                             pc[n] \in {"test", "delete", "reply"}
    BY <1>18 DEF Fail, EndTask
  <2> QED
    BY <2>1
<1>19. ASSUME NEW t \in Tasks, Drop(t)
      PROVE  DataInv'
  <2>1. /\ cache' = cache /\ out' = out /\ hand' = hand /\ delivered' = delivered
        /\ tries' = tries /\ stored' = stored
        /\ \A n \in Msgs : pc'[n] \in {"test", "delete", "reply"} =>
                             pc[n] \in {"test", "delete", "reply"}
    BY <1>19 DEF Drop, EndTask
  <2> QED
    BY <2>1
<1>20. CASE UNCHANGED vars
  BY <1>20 DEF vars, taskVars
<1>21. ASSUME NEW t \in Tasks, SendLess(t)
      PROVE  DataInv'
  <2>1. /\ UNCHANGED <<cache, hand, delivered, pc, stored, tries>>
        /\ out' = [out EXCEPT ![t] = <<>>]
    BY <1>21 DEF SendLess
  <2>2. <<>> \in Seq(Sound) /\ DOMAIN <<>> = {}
    OBVIOUS
  <2>3. \A s \in Tasks : out'[s] = IF s = t THEN <<>> ELSE out[s]
    BY <2>1
  <2>4. out' \in [Tasks -> Seq(Sound)]
    BY <2>1, <2>2
  <2>5. \A s \in Tasks : \A i \in DOMAIN out'[s] : out'[s][i].of = <<s, tries'[s]>>
    BY <2>1, <2>2, <2>3
  <2> QED
    BY <2>1, <2>4, <2>5
<1>22. ASSUME NEW t \in Tasks, SendAgain(t)
      PROVE  DataInv'
  <2>1. /\ UNCHANGED <<cache, hand, delivered, pc, stored>>
        /\ tries' = [tries EXCEPT ![t] = tries[t] + 1]
        /\ out' = [out EXCEPT ![t] = EntriesOf(<<t, tries[t] + 1>>, reply[t])]
    BY <1>22 DEF SendAgain
  <2>2. tries[t] + 1 \in 1..MaxSends
    BY <1>22, PassiveAssumption DEF SendAgain
  <2>3. <<t, tries[t] + 1>> \in Sendings
    BY <2>2, SendingFacts
  <2> QED
    BY <2>1, <2>3, OutRenewed
<1> QED
  BY <1>1, <1>2, <1>3, <1>4, <1>5, <1>6, <1>7, <1>8, <1>9, <1>10, <1>11,
     <1>12, <1>13, <1>14, <1>15, <1>16, <1>17, <1>18, <1>19, <1>20, <1>21, <1>22
     DEF Next, Request, Task

-----------------------------------------------------------------------------
(* No part is in two places.                                              *)

\* A step that moves no entry and turns no task back.
LEMMA PlacesQuiet ==
    ASSUME PlacesInv, cache' = cache, out' = out, hand' = hand, delivered' = delivered,
           tries' = tries
    PROVE  PlacesInv'
<1>1. ASSUME NEW s \in Sendings, NEW p \in {1, 2}
      PROVE  OnePlace(s, p)'
  <2>1. OnePlace(s, p)
    BY DEF PlacesInv
  <2> QED
    BY <2>1 DEF OnePlace, AtOut, AtCache, AtHand, AtUser
<1> QED
  BY <1>1 DEF PlacesInv

\* A sending begins: none of its parts is anywhere, and what the last one has
\* not cached is given up.
LEMMA PlacesRenewed ==
    ASSUME ScalarTypes, DataInv, PlacesInv, UNCHANGED <<cache, hand, delivered>>,
           NEW t \in Tasks, NEW n \in 1..MaxSends, NEW k, n = tries[t] + 1,
           tries' = [tries EXCEPT ![t] = n],
           out' = [out EXCEPT ![t] = EntriesOf(<<t, n>>, k)]
    PROVE  PlacesInv'
<1> SUFFICES ASSUME NEW s \in Sendings, NEW p \in {1, 2}
             PROVE  OnePlace(s, p)'
  BY DEF PlacesInv
<1>1. OnePlace(s, p)
  BY DEF PlacesInv
<1>2. s[1] \in Tasks /\ s[2] \in Nat /\ s = <<s[1], s[2]>>
  BY SendingFacts
<1>3. tries[t] \in Nat /\ tries'[t] = n /\ out'[t] = EntriesOf(<<t, n>>, k)
  BY DEF ScalarTypes, DataInv
<1>4. CASE s[1] # t
  <2>1. out'[s[1]] = out[s[1]] /\ tries'[s[1]] = tries[s[1]]
    BY <1>2, <1>4 DEF DataInv, ScalarTypes
  <2> QED
    BY <1>1, <2>1 DEF OnePlace, AtOut, AtCache, AtHand, AtUser
<1>5. CASE s[1] = t /\ s[2] = n
  <2>1. s = <<t, n>> /\ s[2] > tries[s[1]] /\ ~(s[2] > tries'[s[1]])
    BY <1>2, <1>3, <1>5
  <2>2. ~AtCache(s, p) /\ ~AtHand(s, p) /\ ~AtUser(s, p)
    BY <1>1, <2>1 DEF OnePlace
  <2>3. Once(out'[s[1]], s, p)
    BY <1>3, <1>5, <2>1, EntriesFacts
  <2> QED
    BY <1>1, <2>1, <2>2, <2>3 DEF OnePlace, AtOut, AtCache, AtHand, AtUser
<1>6. CASE s[1] = t /\ s[2] # n
  <2>0. <<t, n>> \in Sendings
    BY SendingFacts
  <2>1. \A i \in DOMAIN out'[t] : out'[t][i].of = <<t, n>>
    <3>1. \A i \in DOMAIN EntriesOf(<<t, n>>, k) : EntriesOf(<<t, n>>, k)[i].of = <<t, n>>
      BY <2>0, EntriesFacts
    <3> QED
      BY <1>3, <3>1
  <2>2. s # <<t, n>>
    BY <1>2, <1>6
  <2>3. ~HasIn(out'[s[1]], s, p) /\ Once(out'[s[1]], s, p)
    BY <1>6, <2>1, <2>2 DEF HasIn, Once, Has
  <2>4. s[2] > tries'[s[1]] => s[2] > tries[s[1]]
    BY <1>2, <1>3, <1>6
  <2> QED
    BY <1>1, <2>3, <2>4 DEF OnePlace, AtOut, AtCache, AtHand, AtUser
<1> QED
  BY <1>4, <1>5, <1>6

\* A step moves a part from one place to the next.
LEMMA PlacesKept ==
    ASSUME ScalarTypes, TriesInv, DataInv, PlacesInv, [Next]_vars
    PROVE  PlacesInv'
<1>1. ASSUME NEW m \in Msgs, Write(m)
      PROVE  PlacesInv'
  BY <1>1, PlacesQuiet DEF Write, taskVars, Goto
<1>2. ASSUME NEW m \in Msgs, Retry(m)
      PROVE  PlacesInv'
  BY <1>2, PlacesQuiet DEF Retry, taskVars, Goto
<1>3. ASSUME NEW m \in Msgs, CheckCached(m)
      PROVE  PlacesInv'
  BY <1>3, PlacesQuiet DEF CheckCached, taskVars, Goto, NewCommand
<1>4. ASSUME NEW m \in Msgs, CheckRunning(m)
      PROVE  PlacesInv'
  BY <1>4, PlacesQuiet DEF CheckRunning, taskVars, Goto, NewCommand
<1>5. ASSUME NEW m \in Msgs, Begin(m)
      PROVE  PlacesInv'
  BY <1>5, PlacesQuiet DEF Begin
<1>6. ASSUME NEW m \in Msgs, Count(m)
      PROVE  PlacesInv'
  BY <1>6, PlacesQuiet DEF Count, taskVars, Goto
<1>7. ASSUME NEW m \in Msgs, TimeOut(m)
      PROVE  PlacesInv'
  BY <1>7, PlacesQuiet DEF TimeOut, taskVars, Goto, Respond
<1>8. ASSUME NEW m \in Msgs, Ready(m)
      PROVE  PlacesInv'
  BY <1>8, PlacesQuiet DEF Ready, taskVars, Goto
<1>9. ASSUME NEW m \in Msgs, FindCached(m)
      PROVE  PlacesInv'
  BY <1>9, PlacesQuiet DEF FindCached, taskVars, Goto
<1>10. ASSUME NEW m \in Msgs, FindRunning(m)
      PROVE  PlacesInv'
  BY <1>10, PlacesQuiet DEF FindRunning, taskVars, Goto, Respond
<1>11. ASSUME NEW m \in Msgs, Pop(m)
      PROVE  PlacesInv'
  <2> SUFFICES ASSUME NEW s \in Sendings, NEW p \in {1, 2}
               PROVE  OnePlace(s, p)'
    BY DEF PlacesInv
  <2>0. OnePlace(s, p)
    BY DEF PlacesInv
  <2> DEFINE u == UserOf[m]
             e == Head(cache[u])
             v == TaskUser[s[1]]
  <2>1. /\ out' = out /\ delivered' = delivered /\ tries' = tries
        /\ u \in Users /\ v \in Users
    BY <1>11, TaskFacts, SendingFacts DEF Pop, taskVars
  <2>2. CASE cache[u] = <<>>
    <3>1. cache' = cache /\ hand' = hand
      BY <1>11, <2>2 DEF Pop
    <3> QED
      BY <2>0, <2>1, <3>1 DEF OnePlace, AtOut, AtCache, AtHand, AtUser
  <2>3. CASE cache[u] # <<>>
    <3>1. /\ hand' = [hand EXCEPT ![m] = e]
          /\ cache' = [cache EXCEPT ![u] = Tail(cache[u])]
      BY <1>11, <2>3 DEF Pop
    <3>2. cache[u] \in Seq(Sound) /\ \A i \in DOMAIN cache[u] : TaskUser[cache[u][i].of[1]] = u
      BY <2>1 DEF DataInv
    <3>3. 1 \in DOMAIN cache[u] /\ e = cache[u][1]
      BY <2>3, <3>2, HeadHas
    <3>4. HasIn(cache[u], s, p) <=> Has(e, s, p) \/ HasIn(Tail(cache[u]), s, p)
      BY <2>3, <3>2, HeadHas
    <3>5. Once(cache[u], s, p) =>
            Once(Tail(cache[u]), s, p) /\ ~(Has(e, s, p) /\ HasIn(Tail(cache[u]), s, p))
      BY <2>3, <3>2, HeadHas
    <3> HIDE DEF e
    <3>6. Has(e, s, p) => v = u /\ AtCache(s, p)
      BY <3>2, <3>3, <3>4 DEF Has, AtCache
    <3>7. \A n \in Msgs : hand'[n] = IF n = m THEN e ELSE hand[n]
      BY <3>1 DEF DataInv
    <3>8. /\ HasIn(cache'[v], s, p) => AtCache(s, p) /\ ~Has(e, s, p)
          /\ Once(cache'[v], s, p)
      <4>1. Once(cache[v], s, p)
        BY <2>0 DEF OnePlace
      <4>2. CASE v = u
        <5>1. cache'[v] = Tail(cache[u])
          BY <2>1, <3>1, <4>2 DEF DataInv
        <5> QED
          BY <3>4, <3>5, <4>1, <4>2, <5>1 DEF AtCache
      <4>3. CASE v # u
        <5>1. cache'[v] = cache[v]
          BY <2>1, <3>1, <4>3 DEF DataInv
        <5> QED
          BY <3>6, <4>1, <4>3, <5>1 DEF AtCache
      <4> QED
        BY <4>2, <4>3
    <3>9. /\ \A n \in Msgs : Has(hand'[n], s, p) => Has(e, s, p) \/ Has(hand[n], s, p)
          /\ \A n, o \in Msgs : Has(hand'[n], s, p) /\ Has(hand'[o], s, p) => n = o
      <4>1. Has(e, s, p) => \A n \in Msgs : ~Has(hand[n], s, p)
        BY <2>0, <3>6 DEF OnePlace, AtHand
      <4>2. \A n, o \in Msgs : Has(hand[n], s, p) /\ Has(hand[o], s, p) => n = o
        BY <2>0 DEF OnePlace
      <4> QED
        BY <3>7, <4>1, <4>2
    <3> QED
      BY <2>0, <2>1, <3>6, <3>8, <3>9 DEF OnePlace, AtOut, AtCache, AtHand,
                                          AtUser
  <2> QED
    BY <2>2, <2>3
<1>12. ASSUME NEW m \in Msgs, TestEmpty(m)
      PROVE  PlacesInv'
  BY <1>12, PlacesQuiet DEF TestEmpty, taskVars, Goto
<1>13. ASSUME NEW m \in Msgs, DeleteEntry(m)
      PROVE  PlacesInv'
  <2> SUFFICES ASSUME NEW s \in Sendings, NEW p \in {1, 2}
               PROVE  OnePlace(s, p)'
    BY DEF PlacesInv
  <2>0. OnePlace(s, p)
    BY DEF PlacesInv
  <2>1. /\ out' = out /\ delivered' = delivered /\ tries' = tries
        /\ cache' = [cache EXCEPT ![UserOf[m]] = <<>>]
        /\ hand' = hand \/ hand' = [hand EXCEPT ![m] = NoEntry]
    BY <1>13 DEF DeleteEntry, taskVars
  <2>2. \A n \in Msgs : Has(hand'[n], s, p) => Has(hand[n], s, p)
    BY <2>1 DEF Has, DataInv
  <2>3. /\ HasIn(cache'[TaskUser[s[1]]], s, p) => AtCache(s, p)
        /\ Once(cache'[TaskUser[s[1]]], s, p)
    <3>1. \/ cache'[TaskUser[s[1]]] = <<>>
          \/ cache'[TaskUser[s[1]]] = cache[TaskUser[s[1]]]
      BY <2>1, SendingFacts DEF DataInv
    <3>2. DOMAIN <<>> = {}
      OBVIOUS
    <3>3. ~HasIn(<<>>, s, p) /\ Once(<<>>, s, p)
      BY <3>2 DEF HasIn, Once
    <3> QED
      BY <2>0, <3>1, <3>3 DEF OnePlace, AtCache
  <2> QED
    BY <2>0, <2>1, <2>2, <2>3 DEF OnePlace, AtOut, AtCache, AtHand, AtUser
<1>14. ASSUME NEW m \in Msgs, Reply(m)
      PROVE  PlacesInv'
  <2> SUFFICES ASSUME NEW s \in Sendings, NEW p \in {1, 2}
               PROVE  OnePlace(s, p)'
    BY DEF PlacesInv
  <2>0. OnePlace(s, p)
    BY DEF PlacesInv
  <2> DEFINE u == UserOf[m]
             e == hand[m]
             f == Entry(e.of, 2, "whole")
             v == TaskUser[s[1]]
             d == <<e.of, e.part>>
  <2>1. /\ out' = out /\ tries' = tries /\ pc[m] = "reply" /\ u \in Users /\ v \in Users
        /\ hand' = [hand EXCEPT ![m] = NoEntry]
        /\ delivered' = IF e.form = "video" THEN delivered ELSE Append(delivered, d)
        /\ cache' = IF e.form = "long" THEN [cache EXCEPT ![u] = Append(cache[u], f)] ELSE cache
    BY <1>14, TaskFacts, SendingFacts DEF Reply, taskVars
  <2>2. e \in Sound /\ e # NoEntry /\ TaskUser[e.of[1]] = u
    BY <2>1 DEF DataInv
  <2>3. /\ e.of \in Sendings /\ e.part \in {1, 2}
        /\ e.form \in {"whole", "long", "video"} /\ (e.form # "whole" => e.part = 1)
    BY <2>2, EntryFacts
  <2>4. f \in Sound /\ f.of = e.of /\ f.part = 2 /\ f.form = "whole" /\ f # NoEntry
    BY <2>3, RestFacts
  <2>5. Has(e, s, p) <=> s = e.of /\ e.form # "video" /\ (p = e.part \/ e.form = "long")
    BY <2>2 DEF Has
  <2>6. Has(f, s, p) <=> s = e.of /\ p = 2
    BY <2>4 DEF Has
  <2>7. d = <<s, p>> <=> s = e.of /\ p = e.part
    OBVIOUS
  <2>8. Has(e, s, p) => AtHand(s, p)
    BY DEF AtHand
  <2>9. cache[u] \in Seq(Sound) /\ delivered \in Seq(Sendings \X {1, 2}) /\ d \in Sendings \X {1, 2}
    BY <2>1, <2>3 DEF DataInv
  <2> HIDE DEF e, f, d
  <2>10. /\ HasIn(Append(cache[u], f), s, p) <=> HasIn(cache[u], s, p) \/ Has(f, s, p)
         /\ Once(cache[u], s, p) /\ ~(HasIn(cache[u], s, p) /\ Has(f, s, p)) =>
                Once(Append(cache[u], f), s, p)
    BY <2>4, <2>9, AppendHas
  <2>11. /\ HasIn(cache'[v], s, p) => AtCache(s, p) \/ (e.form = "long" /\ Has(f, s, p))
         /\ Once(cache'[v], s, p)
    <3>1. Once(cache[v], s, p) /\ (AtCache(s, p) => ~AtHand(s, p))
      BY <2>0 DEF OnePlace
    <3>2. CASE e.form = "long" /\ v = u
      <4>1. cache'[v] = Append(cache[u], f)
        BY <2>1, <3>2 DEF DataInv
      <4>2. Has(f, s, p) => ~HasIn(cache[u], s, p)
        BY <2>5, <2>6, <2>8, <3>1, <3>2 DEF AtCache
      <4> QED
        BY <2>10, <3>1, <3>2, <4>1, <4>2 DEF AtCache
    <3>3. CASE ~(e.form = "long" /\ v = u)
      <4>1. cache'[v] = cache[v]
        BY <2>1, <3>3 DEF DataInv
      <4> QED
        BY <3>1, <4>1 DEF AtCache
    <3> QED
      BY <3>2, <3>3
  <2>12. \A n \in Msgs : Has(hand'[n], s, p) => n # m /\ Has(hand[n], s, p)
    BY <2>1 DEF Has, DataInv
  <2>13. ASSUME NEW n \in Msgs, Has(hand'[n], s, p)
         PROVE  ~Has(e, s, p)
    BY <2>0, <2>12, <2>13 DEF OnePlace, e
  <2>14. /\ \A i \in DOMAIN delivered' :
              (i \in DOMAIN delivered /\ delivered'[i] = delivered[i])
              \/ (e.form # "video" /\ i = Len(delivered) + 1 /\ delivered'[i] = d)
    <3>1. DOMAIN delivered = 1..Len(delivered) /\ Len(delivered) \in Nat
      BY <2>9
    <3>2. CASE e.form = "video"
      BY <2>1, <3>2
    <3>3. CASE e.form # "video"
      <4>1. delivered' = Append(delivered, d)
        BY <2>1, <3>3
      <4> QED
        BY <2>9, <3>1, <3>3, <4>1
    <3> QED
      BY <3>2, <3>3
  <2>15. /\ (\E i \in DOMAIN delivered' : delivered'[i] = <<s, p>>) =>
               AtUser(s, p) \/ (Has(e, s, p) /\ d = <<s, p>>)
         /\ \A i, j \in DOMAIN delivered' :
               delivered'[i] = <<s, p>> /\ delivered'[j] = <<s, p>> => i = j
    <3>1. e.form # "video" /\ d = <<s, p>> => Has(e, s, p)
      BY <2>5, <2>7
    <3>2. Has(e, s, p) => ~AtUser(s, p)
      BY <2>0, <2>8 DEF OnePlace
    <3>3. \A i, j \in DOMAIN delivered :
            delivered[i] = <<s, p>> /\ delivered[j] = <<s, p>> => i = j
      BY <2>0 DEF OnePlace
    <3> QED
      BY <2>14, <3>1, <3>2, <3>3 DEF AtUser
  <2>16. e.form = "long" /\ Has(f, s, p) => Has(e, s, p) /\ d # <<s, p>>
    BY <2>3, <2>5, <2>6, <2>7
  <2>17. (e.form = "long" /\ Has(f, s, p)) \/ Has(e, s, p) =>
            AtHand(s, p) /\ ~(s[2] > tries[s[1]])
    BY <2>0, <2>8, <2>16 DEF OnePlace
  <2>18. /\ HasIn(out'[s[1]], s, p) <=> AtOut(s, p)
         /\ Once(out'[s[1]], s, p)
    BY <2>0, <2>1 DEF OnePlace, AtOut
  <2>19. /\ AtHand(s, p)' => AtHand(s, p) /\ ~Has(e, s, p)
         /\ \A n, o \in Msgs : Has(hand'[n], s, p) /\ Has(hand'[o], s, p) => n = o
    BY <2>0, <2>12, <2>13 DEF AtHand, OnePlace
  <2>20. /\ AtOut(s, p)' <=> AtOut(s, p)
         /\ AtCache(s, p)' => AtCache(s, p) \/ (e.form = "long" /\ Has(f, s, p))
         /\ AtUser(s, p)' => AtUser(s, p) \/ (Has(e, s, p) /\ d = <<s, p>>)
    BY <2>11, <2>15, <2>18 DEF AtOut, AtCache, AtUser
  <2> QED
    BY <2>0, <2>1, <2>11, <2>15, <2>16, <2>17, <2>18, <2>19, <2>20 DEF OnePlace
<1>15. ASSUME NEW t \in Tasks, StartTask(t)
      PROVE  PlacesInv'
  <2>1. PICK k \in Replies[t[1]] : out' = [out EXCEPT ![t] = EntriesOf(<<t, 1>>, k)]
    BY <1>15 DEF StartTask
  <2>2. /\ cache' = cache /\ hand' = hand /\ delivered' = delivered
        /\ phase[t] = "waiting" /\ tries' = [tries EXCEPT ![t] = 1]
    BY <1>15 DEF StartTask
  <2>3. 1 \in 1..MaxSends /\ 1 = tries[t] + 1
    BY <2>2, PassiveAssumption DEF TriesInv
  <2>4. UNCHANGED <<cache, hand, delivered>>
    BY <2>2
  <2> QED
    BY <2>1, <2>2, <2>3, <2>4, PlacesRenewed
<1>16. ASSUME NEW t \in Tasks, SendPart(t)
      PROVE  PlacesInv'
  <2> SUFFICES ASSUME NEW s \in Sendings, NEW p \in {1, 2}
               PROVE  OnePlace(s, p)'
    BY DEF PlacesInv
  <2>0. OnePlace(s, p)
    BY DEF PlacesInv
  <2> DEFINE u == TaskUser[t]
             e == Head(out[t])
             v == TaskUser[s[1]]
  <2>1. /\ out[t] # <<>> /\ u \in Users /\ v \in Users
        /\ cache' = [cache EXCEPT ![u] = Append(cache[u], e)]
        /\ out' = [out EXCEPT ![t] = Tail(out[t])]
        /\ hand' = hand /\ delivered' = delivered /\ tries' = tries
    BY <1>16, TaskFacts, SendingFacts DEF SendPart
  <2>2. /\ e \in Sound /\ e.of = <<t, tries[t]>>
        /\ HasIn(out[t], s, p) <=> Has(e, s, p) \/ HasIn(Tail(out[t]), s, p)
        /\ Once(out[t], s, p) =>
               Once(Tail(out[t]), s, p) /\ ~(Has(e, s, p) /\ HasIn(Tail(out[t]), s, p))
    <3>1. out[t] \in Seq(Sound) /\ \A i \in DOMAIN out[t] : out[t][i].of = <<t, tries[t]>>
      BY DEF DataInv
    <3>2. 1 \in DOMAIN out[t] /\ e = out[t][1]
      BY <2>1, <3>1, HeadHas
    <3>3. e \in Sound
      BY <2>1, <3>1, HeadHas
    <3>4. e.of = <<t, tries[t]>>
      BY <3>1, <3>2
    <3>5. HasIn(out[t], s, p) <=> Has(e, s, p) \/ HasIn(Tail(out[t]), s, p)
      BY <2>1, <3>1, HeadHas
    <3>6. Once(out[t], s, p) =>
            Once(Tail(out[t]), s, p) /\ ~(Has(e, s, p) /\ HasIn(Tail(out[t]), s, p))
      BY <2>1, <3>1, HeadHas
    <3> QED
      BY <3>3, <3>4, <3>5, <3>6
  <2> HIDE DEF e
  <2>3. /\ HasIn(Append(cache[u], e), s, p) <=> HasIn(cache[u], s, p) \/ Has(e, s, p)
        /\ Once(cache[u], s, p) /\ ~(HasIn(cache[u], s, p) /\ Has(e, s, p)) =>
               Once(Append(cache[u], e), s, p)
    <3>1. cache[u] \in Seq(Sound)
      BY <2>1 DEF DataInv
    <3> QED
      BY <2>2, <3>1, AppendHas
  <2>4. Has(e, s, p) => s[1] = t /\ AtOut(s, p)
    <3>1. Has(e, s, p) => s = <<t, tries[t]>>
      BY <2>2 DEF Has
    <3>2. <<t, tries[t]>>[1] = t
      OBVIOUS
    <3> QED
      BY <2>2, <3>1, <3>2 DEF AtOut
  <2>5. /\ HasIn(out'[s[1]], s, p) => AtOut(s, p) /\ ~Has(e, s, p)
        /\ Once(out'[s[1]], s, p)
    <3>0. s[1] \in Tasks
      BY SendingFacts
    <3>1. Once(out[s[1]], s, p)
      BY <2>0 DEF OnePlace
    <3>2. CASE s[1] = t
      <4>1. out'[s[1]] = Tail(out[t])
        BY <2>1, <3>2 DEF DataInv
      <4> QED
        BY <2>2, <3>1, <3>2, <4>1 DEF AtOut
    <3>3. CASE s[1] # t
      <4>1. out'[s[1]] = out[s[1]]
        BY <2>1, <3>0, <3>3 DEF DataInv
      <4> QED
        BY <2>4, <3>1, <3>3, <4>1 DEF AtOut
    <3> QED
      BY <3>2, <3>3
  <2>6. /\ HasIn(cache'[v], s, p) => AtCache(s, p) \/ Has(e, s, p)
        /\ Once(cache'[v], s, p)
    <3>1. Once(cache[v], s, p) /\ (AtOut(s, p) => ~AtCache(s, p))
      BY <2>0 DEF OnePlace
    <3>2. CASE v = u
      <4>1. cache'[v] = Append(cache[u], e)
        BY <2>1, <3>2 DEF DataInv
      <4> QED
        BY <2>3, <2>4, <3>1, <3>2, <4>1 DEF AtCache
    <3>3. CASE v # u
      <4>1. cache'[v] = cache[v]
        BY <2>1, <3>3 DEF DataInv
      <4> QED
        BY <3>1, <4>1 DEF AtCache
    <3> QED
      BY <3>2, <3>3
  <2> QED
    BY <2>0, <2>1, <2>4, <2>5, <2>6 DEF OnePlace, AtOut, AtCache, AtHand,
                                        AtUser
<1>17. ASSUME NEW t \in Tasks, Succeed(t)
      PROVE  PlacesInv'
  BY <1>17, PlacesQuiet DEF Succeed
<1>18. ASSUME NEW t \in Tasks, Fail(t)
      PROVE  PlacesInv'
  BY <1>18, PlacesQuiet DEF Fail
<1>19. ASSUME NEW t \in Tasks, Drop(t)
      PROVE  PlacesInv'
  BY <1>19, PlacesQuiet DEF Drop
<1>20. CASE UNCHANGED vars
  BY <1>20, PlacesQuiet DEF vars, taskVars
<1>21. ASSUME NEW t \in Tasks, SendLess(t)
      PROVE  PlacesInv'
  <2> SUFFICES ASSUME NEW s \in Sendings, NEW p \in {1, 2}
               PROVE  OnePlace(s, p)'
    BY DEF PlacesInv
  <2>0. OnePlace(s, p)
    BY DEF PlacesInv
  <2>1. /\ UNCHANGED <<cache, hand, delivered, tries>>
        /\ out' = [out EXCEPT ![t] = <<>>]
    BY <1>21 DEF SendLess
  <2>2. out'[s[1]] = <<>> \/ out'[s[1]] = out[s[1]]
    BY <2>1, SendingFacts DEF DataInv
  <2>3. DOMAIN <<>> = {}
    OBVIOUS
  <2>4. ~HasIn(<<>>, s, p) /\ Once(<<>>, s, p)
    BY <2>3 DEF HasIn, Once
  <2>5. (HasIn(out'[s[1]], s, p) => AtOut(s, p)) /\ Once(out'[s[1]], s, p)
    BY <2>0, <2>2, <2>4 DEF OnePlace, AtOut
  <2> QED
    BY <2>0, <2>1, <2>5 DEF OnePlace, AtOut, AtCache, AtHand, AtUser
<1>22. ASSUME NEW t \in Tasks, SendAgain(t)
      PROVE  PlacesInv'
  <2>1. /\ UNCHANGED <<cache, hand, delivered>>
        /\ tries' = [tries EXCEPT ![t] = tries[t] + 1]
        /\ out' = [out EXCEPT ![t] = EntriesOf(<<t, tries[t] + 1>>, reply[t])]
    BY <1>22 DEF SendAgain
  <2>2. tries[t] + 1 \in 1..MaxSends /\ tries[t] \in Nat
    BY <1>22, PassiveAssumption DEF SendAgain, ScalarTypes
  <2> QED
    BY <2>1, <2>2, PlacesRenewed
<1> QED
  BY <1>1, <1>2, <1>3, <1>4, <1>5, <1>6, <1>7, <1>8, <1>9, <1>10, <1>11,
     <1>12, <1>13, <1>14, <1>15, <1>16, <1>17, <1>18, <1>19, <1>20, <1>21, <1>22
     DEF Next, Request, Task

-----------------------------------------------------------------------------
(* The theorems.                                                           *)

\* No entry is anywhere at first.
LEMMA Initially ==
    ASSUME Init
    PROVE  IInv
<1>1. ScalarTypes
  BY PassiveAssumption DEF Init, ScalarTypes, Pcs, ReplyKinds
<1>2. CountInv /\ FreshInv /\ TriesInv
  BY TaskFacts DEF Init, CountInv, FreshInv, TriesInv
<1>3. <<>> \in Seq(Sound) /\ <<>> \in Seq(Sendings \X {1, 2}) /\ DOMAIN <<>> = {}
  OBVIOUS
<1>4. DataInv
  BY <1>3 DEF Init, DataInv
<1>5. ASSUME NEW s \in Sendings, NEW p \in {1, 2}
      PROVE  OnePlace(s, p)
  <2>1. out[s[1]] = <<>> /\ cache[TaskUser[s[1]]] = <<>> /\ delivered = <<>>
    BY SendingFacts DEF Init
  <2>2. \A m \in Msgs : ~Has(hand[m], s, p)
    BY DEF Init, Has
  <2> QED
    BY <1>3, <2>1, <2>2 DEF OnePlace, AtOut, AtCache, AtHand, AtUser, HasIn,
                            Once
<1> QED
  BY <1>1, <1>2, <1>4, <1>5 DEF IInv, PlacesInv

\* Every step keeps every part of the invariant.
LEMMA Step ==
    ASSUME IInv, [Next]_vars
    PROVE  IInv'
BY ScalarKept, CountKept, FreshKept, TriesKept, DataKept, PlacesKept DEF IInv

\* The invariant: types, what is counted and fresh, where entries belong, and
\* that no part of a reply is in two places.
THEOREM Invariance == Spec => []IInv
<1>1. Init => IInv
  BY Initially
<1>2. IInv /\ [Next]_vars => IInv'
  BY Step
<1> QED
  BY <1>1, <1>2, PTL DEF Spec

\* Every variable of the passive channel stays in its type: request_cnt and the
\* requests of a message by their bound, cache_dict by the entries of replies.
THEOREM TypeCorrect == Spec => []TypeOK
<1>1. IInv => TypeOK
  <2> SUFFICES ASSUME IInv
               PROVE  TypeOK
    OBVIOUS
  <2>1. \A s \in Seq(Sound) : s \in Seq(Entries)
    <3>1. Sound \subseteq Entries
      BY DEF Sound
    <3> QED
      BY <3>1
  <2>2. cache \in [Users -> Seq(Entries)] /\ out \in [Tasks -> Seq(Entries)]
    BY <2>1 DEF IInv, DataInv
  <2>3. hand \in [Msgs -> Entries \cup {NoEntry}]
    BY DEF IInv, DataInv, Sound
  <2>4. delivered \in Seq(Sendings \X {1, 2})
    BY DEF IInv, DataInv
  <2>5. stored \subseteq Sendings \X {1, 2}
    BY DEF IInv, DataInv
  <2> QED
    BY <2>2, <2>3, <2>4, <2>5 DEF IInv, ScalarTypes, TypeOK
<1> QED
  BY <1>1, Invariance, PTL

\* The request thread's pop(0) and the split of a long text: no entry reaches its
\* user twice, however requests, workers and dropped tasks interleave.  What the
\* tries of _send repeat are entries of their own, one set for each sending.
THEOREM NothingTwice == Spec => []DeliveredOnce
<1>1. IInv => DeliveredOnce
  <2> SUFFICES ASSUME IInv, NEW i \in DOMAIN delivered, NEW j \in DOMAIN delivered,
                      delivered[i] = delivered[j]
               PROVE  i = j
    BY DEF DeliveredOnce
  <2>1. delivered[i] \in Sendings \X {1, 2}
    BY DEF IInv, DataInv
  <2>2. PICK s \in Sendings, p \in {1, 2} : delivered[i] = <<s, p>>
    BY <2>1
  <2>3. OnePlace(s, p)
    BY DEF IInv, PlacesInv
  <2> QED
    BY <2>2, <2>3 DEF OnePlace
<1> QED
  BY <1>1, Invariance, PTL

-----------------------------------------------------------------------------
(* Patient users.  A user who writes the next message when the last one is *)
(* answered, and no commands: then a user has one exchange with the server *)
(* and one task at a time, and the requests of the exchange take turns     *)
(* with the worker of the task.  Tasks may be dropped, handlers raise and  *)
(* uploads fail.                                                           *)

Patient == ~Overlap /\ Commands = {}

Live(t) == phase[t] \in {"waiting", "active"}

\* Where a request is about to begin a task, or collects.
Acting == {"begin", "ready", "missing", "pop", "test", "delete", "reply"}

\* The exchange about a message is over when the next one begins.
ExchangeInv ==
    \A m, n \in Msgs :
        UserOf[n] = UserOf[m] /\ n < m /\ pc[m] # "unsent" => pc[n] = "answered"

\* One task of a user lives at most, and its user is in running; no
\* user is whose request acts.
LiveInv ==
    /\ \A t \in Tasks : Live(t) => TaskUser[t] \in running
    /\ \A t, s \in Tasks : Live(t) /\ Live(s) /\ TaskUser[t] = TaskUser[s] => t = s
    /\ \A m \in Msgs : pc[m] \in Acting => UserOf[m] \notin running

\* What a request has found out about cache_dict stays true until it acts on it.
CacheInv ==
    /\ \A u \in Users : cache[u] # <<>> => u \in cached
    /\ NoOrphanEntry
    /\ \A m \in Msgs :
        /\ hand[m] # NoEntry => pc[m] \in {"test", "delete", "reply"}
        /\ pc[m] = "missing" => UserOf[m] \notin cached
        /\ pc[m] = "pop" => cache[UserOf[m]] # <<>>
        /\ pc[m] = "delete" => cache[UserOf[m]] = <<>> /\ UserOf[m] \in cached

\* Every part that was cached is somewhere.
LostInv ==
    \A s \in Sendings, p \in {1, 2} :
        <<s, p>> \in stored => AtCache(s, p) \/ AtHand(s, p) \/ AtUser(s, p)

FirstBefore(q, s, i) == \E j \in DOMAIN q : j < i /\ Has(q[j], s, 1)

\* The first part of a sending is on its way before the second, wherever they
\* are.
OrderInv ==
    /\ \A s \in Sendings : \A i \in DOMAIN out[s[1]] :
           out[s[1]][i].of = s /\ out[s[1]][i].part = 2 =>
               FirstBefore(out[s[1]], s, i) \/ AtCache(s, 1) \/ AtHand(s, 1) \/ AtUser(s, 1)
    /\ \A u \in Users : \A i \in DOMAIN cache[u] : cache[u][i].part = 2 =>
           \/ FirstBefore(cache[u], cache[u][i].of, i)
           \/ AtHand(cache[u][i].of, 1) \/ AtUser(cache[u][i].of, 1)
    /\ \A m \in Msgs : hand[m] # NoEntry /\ hand[m].part = 2 => AtUser(hand[m].of, 1)
    /\ PartsInOrder

PatientInv == ExchangeInv /\ LiveInv /\ CacheInv /\ LostInv /\ OrderInv

\* Only one request of a user is under way.
LEMMA OneTurn ==
    ASSUME ScalarTypes, ExchangeInv, NEW m \in Msgs, NEW n \in Msgs, UserOf[m] = UserOf[n],
           pc[m] \notin {"unsent", "answered"}, pc[n] \notin {"unsent", "answered"}
    PROVE  m = n
<1>1. m \in Nat /\ n \in Nat
  BY PassiveAssumption
<1>2. ~(m < n) /\ ~(n < m)
  BY DEF ExchangeInv
<1> QED
  BY <1>1, <1>2

\* A user waits for the answer.
LEMMA ExchangeKept ==
    ASSUME Patient, ScalarTypes, ExchangeInv, [Next]_vars
    PROVE  ExchangeInv'
<1> USE PassiveAssumption DEF Patient, ExchangeInv, ScalarTypes, Pcs
<1>1. ASSUME NEW m \in Msgs, Write(m)
      PROVE  ExchangeInv'
  BY <1>1 DEF Write, taskVars, Goto
<1>2. ASSUME NEW m \in Msgs, Retry(m)
      PROVE  ExchangeInv'
  BY <1>2 DEF Retry, taskVars, Goto
<1>3. ASSUME NEW m \in Msgs, CheckCached(m)
      PROVE  ExchangeInv'
  BY <1>3 DEF CheckCached, taskVars, Goto, NewCommand
<1>4. ASSUME NEW m \in Msgs, CheckRunning(m)
      PROVE  ExchangeInv'
  BY <1>4 DEF CheckRunning, taskVars, Goto, NewCommand
<1>5. ASSUME NEW m \in Msgs, Begin(m)
      PROVE  ExchangeInv'
  <2>1. pc[m] = "begin" /\ \E l \in Pcs \ {"unsent"} : pc' = [pc EXCEPT ![m] = l]
    BY <1>5 DEF Begin, Goto, Respond
  <2> QED
    BY <2>1
<1>6. ASSUME NEW m \in Msgs, Count(m)
      PROVE  ExchangeInv'
  BY <1>6 DEF Count, taskVars, Goto
<1>7. ASSUME NEW m \in Msgs, TimeOut(m)
      PROVE  ExchangeInv'
  BY <1>7 DEF TimeOut, taskVars, Goto, Respond
<1>8. ASSUME NEW m \in Msgs, Ready(m)
      PROVE  ExchangeInv'
  BY <1>8 DEF Ready, taskVars, Goto
<1>9. ASSUME NEW m \in Msgs, FindCached(m)
      PROVE  ExchangeInv'
  BY <1>9 DEF FindCached, taskVars, Goto
<1>10. ASSUME NEW m \in Msgs, FindRunning(m)
      PROVE  ExchangeInv'
  BY <1>10 DEF FindRunning, taskVars, Goto, Respond
<1>11. ASSUME NEW m \in Msgs, Pop(m)
      PROVE  ExchangeInv'
  BY <1>11 DEF Pop, taskVars, Goto, Respond
<1>12. ASSUME NEW m \in Msgs, TestEmpty(m)
      PROVE  ExchangeInv'
  BY <1>12 DEF TestEmpty, taskVars, Goto
<1>13. ASSUME NEW m \in Msgs, DeleteEntry(m)
      PROVE  ExchangeInv'
  BY <1>13 DEF DeleteEntry, taskVars, Goto, Respond
<1>14. ASSUME NEW m \in Msgs, Reply(m)
      PROVE  ExchangeInv'
  BY <1>14 DEF Reply, taskVars, Respond, Goto
<1>15. ASSUME NEW t \in Tasks, StartTask(t)
      PROVE  ExchangeInv'
  BY <1>15 DEF StartTask
<1>16. ASSUME NEW t \in Tasks, SendPart(t)
      PROVE  ExchangeInv'
  BY <1>16 DEF SendPart
<1>17. ASSUME NEW t \in Tasks, Succeed(t)
      PROVE  ExchangeInv'
  BY <1>17 DEF Succeed, EndTask
<1>18. ASSUME NEW t \in Tasks, Fail(t)
      PROVE  ExchangeInv'
  BY <1>18 DEF Fail, EndTask
<1>19. ASSUME NEW t \in Tasks, Drop(t)
      PROVE  ExchangeInv'
  BY <1>19 DEF Drop, EndTask
<1>20. CASE UNCHANGED vars
  BY <1>20 DEF vars, taskVars
<1>21. ASSUME NEW t \in Tasks, SendLess(t)
      PROVE  ExchangeInv'
  BY <1>21 DEF SendLess
<1>22. ASSUME NEW t \in Tasks, SendAgain(t)
      PROVE  ExchangeInv'
  BY <1>22 DEF SendAgain
<1> QED
  BY <1>1, <1>2, <1>3, <1>4, <1>5, <1>6, <1>7, <1>8, <1>9, <1>10, <1>11,
     <1>12, <1>13, <1>14, <1>15, <1>16, <1>17, <1>18, <1>19, <1>20, <1>21, <1>22
     DEF Next, Request, Task

\* One task of a user lives, and none while a request begins one or collects.
LEMMA LiveKept ==
    ASSUME Patient, ScalarTypes, CountInv, ExchangeInv, LiveInv, [Next]_vars
    PROVE  LiveInv'
<1> USE DEF LiveInv
<1>1. ASSUME NEW m \in Msgs, Write(m)
      PROVE  LiveInv'
  <2>1. running' = running /\ phase' = phase
    BY <1>1 DEF Write, taskVars, Goto
  <2>2. \A n \in Msgs : pc'[n] \in Acting => pc[n] \in Acting \/ UserOf[n] \notin running
    BY <1>1 DEF Write, taskVars, Goto, ScalarTypes, Pcs, Acting, Patient
  <2> QED
    BY <2>1, <2>2 DEF Live
<1>2. ASSUME NEW m \in Msgs, Retry(m)
      PROVE  LiveInv'
  <2>1. running' = running /\ phase' = phase
    BY <1>2 DEF Retry, taskVars, Goto
  <2>2. \A n \in Msgs : pc'[n] \in Acting => pc[n] \in Acting \/ UserOf[n] \notin running
    BY <1>2 DEF Retry, taskVars, Goto, ScalarTypes, Pcs, Acting, Patient
  <2> QED
    BY <2>1, <2>2 DEF Live
<1>3. ASSUME NEW m \in Msgs, CheckCached(m)
      PROVE  LiveInv'
  <2>1. running' = running /\ phase' = phase
    BY <1>3 DEF CheckCached, taskVars, Goto, NewCommand
  <2>2. \A n \in Msgs : pc'[n] \in Acting => pc[n] \in Acting \/ UserOf[n] \notin running
    BY <1>3 DEF CheckCached, taskVars, Goto, NewCommand, ScalarTypes, Pcs,
                Acting, Patient
  <2> QED
    BY <2>1, <2>2 DEF Live
<1>4. ASSUME NEW m \in Msgs, CheckRunning(m)
      PROVE  LiveInv'
  <2>1. running' = running /\ phase' = phase
    BY <1>4 DEF CheckRunning, taskVars, Goto, NewCommand
  <2>2. \A n \in Msgs : pc'[n] \in Acting => pc[n] \in Acting \/ UserOf[n] \notin running
    BY <1>4 DEF CheckRunning, taskVars, Goto, NewCommand, ScalarTypes, Pcs,
                Acting, Patient
  <2> QED
    BY <2>1, <2>2 DEF Live
<1>5. ASSUME NEW m \in Msgs, Begin(m)
      PROVE  LiveInv'
  <2>1. pc[m] = "begin" /\ UserOf[m] \notin running
    BY <1>5 DEF Begin, Acting
  <2>2. CASE m \in Unsupported
    <3>1. running' = running /\ phase' = phase /\ pc' = [pc EXCEPT ![m] = "answered"]
      BY <1>5, <2>2 DEF Begin, Respond, Goto
    <3>2. \A n \in Msgs : pc'[n] \in Acting => pc[n] \in Acting
      BY <3>1 DEF ScalarTypes, Acting
    <3> QED
      BY <3>1, <3>2 DEF Live
  <2>3. CASE m \notin Unsupported
    <3> DEFINE t == <<m, attempt[m]>>
    <3>1. /\ running' = running \cup {UserOf[m]} /\ pc' = [pc EXCEPT ![m] = "count"]
          /\ phase' = [phase EXCEPT ![t] = "waiting"]
      BY <1>5, <2>3 DEF Begin, Goto
    <3>2. t \in Tasks /\ TaskUser[t] = UserOf[m]
      BY <2>1, TaskFacts DEF CountInv, ScalarTypes, Attempts
    <3> HIDE DEF t
    <3>3. \A s \in Tasks : Live(s)' <=> Live(s) \/ s = t
      BY <3>1, <3>2 DEF Live, ScalarTypes
    <3>4. \A s \in Tasks : Live(s) => TaskUser[s] # UserOf[m]
      BY <2>1
    <3>5. \A n \in Msgs : pc'[n] \in Acting => n # m /\ pc[n] \in Acting
      BY <3>1 DEF ScalarTypes, Acting
    <3>6. \A n \in Msgs : pc'[n] \in Acting => UserOf[n] # UserOf[m]
      BY <2>1, <3>5, OneTurn DEF Acting
    <3> QED
      BY <3>1, <3>2, <3>3, <3>4, <3>5, <3>6
  <2> QED
    BY <2>2, <2>3
<1>6. ASSUME NEW m \in Msgs, Count(m)
      PROVE  LiveInv'
  <2>1. running' = running /\ phase' = phase
    BY <1>6 DEF Count, taskVars, Goto
  <2>2. \A n \in Msgs : pc'[n] \in Acting => pc[n] \in Acting \/ UserOf[n] \notin running
    BY <1>6 DEF Count, taskVars, Goto, ScalarTypes, Pcs, Acting, Patient
  <2> QED
    BY <2>1, <2>2 DEF Live
<1>7. ASSUME NEW m \in Msgs, TimeOut(m)
      PROVE  LiveInv'
  <2>1. running' = running /\ phase' = phase
    BY <1>7 DEF TimeOut, taskVars, Goto, Respond
  <2>2. \A n \in Msgs : pc'[n] \in Acting => pc[n] \in Acting \/ UserOf[n] \notin running
    BY <1>7 DEF TimeOut, taskVars, Goto, Respond, ScalarTypes, Pcs, Acting,
                Patient
  <2> QED
    BY <2>1, <2>2 DEF Live
<1>8. ASSUME NEW m \in Msgs, Ready(m)
      PROVE  LiveInv'
  <2>1. running' = running /\ phase' = phase
    BY <1>8 DEF Ready, taskVars, Goto
  <2>2. \A n \in Msgs : pc'[n] \in Acting => pc[n] \in Acting \/ UserOf[n] \notin running
    BY <1>8 DEF Ready, taskVars, Goto, ScalarTypes, Pcs, Acting, Patient
  <2> QED
    BY <2>1, <2>2 DEF Live
<1>9. ASSUME NEW m \in Msgs, FindCached(m)
      PROVE  LiveInv'
  <2>1. running' = running /\ phase' = phase
    BY <1>9 DEF FindCached, taskVars, Goto
  <2>2. \A n \in Msgs : pc'[n] \in Acting => pc[n] \in Acting \/ UserOf[n] \notin running
    BY <1>9 DEF FindCached, taskVars, Goto, ScalarTypes, Pcs, Acting, Patient
  <2> QED
    BY <2>1, <2>2 DEF Live
<1>10. ASSUME NEW m \in Msgs, FindRunning(m)
      PROVE  LiveInv'
  <2>1. running' = running /\ phase' = phase
    BY <1>10 DEF FindRunning, taskVars, Goto, Respond
  <2>2. \A n \in Msgs : pc'[n] \in Acting => pc[n] \in Acting \/ UserOf[n] \notin running
    BY <1>10 DEF FindRunning, taskVars, Goto, Respond, ScalarTypes, Pcs,
                 Acting, Patient
  <2> QED
    BY <2>1, <2>2 DEF Live
<1>11. ASSUME NEW m \in Msgs, Pop(m)
      PROVE  LiveInv'
  <2>1. running' = running /\ phase' = phase
    BY <1>11 DEF Pop, taskVars, Goto, Respond
  <2>2. \A n \in Msgs : pc'[n] \in Acting => pc[n] \in Acting \/ UserOf[n] \notin running
    BY <1>11 DEF Pop, taskVars, Goto, Respond, ScalarTypes, Pcs, Acting,
                 Patient
  <2> QED
    BY <2>1, <2>2 DEF Live
<1>12. ASSUME NEW m \in Msgs, TestEmpty(m)
      PROVE  LiveInv'
  <2>1. running' = running /\ phase' = phase
    BY <1>12 DEF TestEmpty, taskVars, Goto
  <2>2. \A n \in Msgs : pc'[n] \in Acting => pc[n] \in Acting \/ UserOf[n] \notin running
    BY <1>12 DEF TestEmpty, taskVars, Goto, ScalarTypes, Pcs, Acting, Patient
  <2> QED
    BY <2>1, <2>2 DEF Live
<1>13. ASSUME NEW m \in Msgs, DeleteEntry(m)
      PROVE  LiveInv'
  <2>1. running' = running /\ phase' = phase
    BY <1>13 DEF DeleteEntry, taskVars, Goto, Respond
  <2>2. \A n \in Msgs : pc'[n] \in Acting => pc[n] \in Acting \/ UserOf[n] \notin running
    BY <1>13 DEF DeleteEntry, taskVars, Goto, Respond, ScalarTypes, Pcs,
                 Acting, Patient
  <2> QED
    BY <2>1, <2>2 DEF Live
<1>14. ASSUME NEW m \in Msgs, Reply(m)
      PROVE  LiveInv'
  <2>1. running' = running /\ phase' = phase
    BY <1>14 DEF Reply, taskVars, Respond, Goto
  <2>2. \A n \in Msgs : pc'[n] \in Acting => pc[n] \in Acting \/ UserOf[n] \notin running
    BY <1>14 DEF Reply, taskVars, Respond, Goto, ScalarTypes, Pcs, Acting,
                 Patient
  <2> QED
    BY <2>1, <2>2 DEF Live
<1>15. ASSUME NEW t \in Tasks, StartTask(t)
      PROVE  LiveInv'
  <2>1. /\ running' = running /\ pc' = pc /\ phase[t] = "waiting"
        /\ phase' = [phase EXCEPT ![t] = "active"]
    BY <1>15 DEF StartTask
  <2>2. \A s \in Tasks : Live(s)' <=> Live(s)
    BY <2>1 DEF Live, ScalarTypes
  <2> QED
    BY <2>1, <2>2
<1>16. ASSUME NEW t \in Tasks, SendPart(t)
      PROVE  LiveInv'
  <2>1. running' = running /\ phase' = phase
    BY <1>16 DEF SendPart
  <2>2. \A n \in Msgs : pc'[n] \in Acting => pc[n] \in Acting \/ UserOf[n] \notin running
    BY <1>16 DEF SendPart
  <2> QED
    BY <2>1, <2>2 DEF Live
<1>17. ASSUME NEW t \in Tasks, Succeed(t)
      PROVE  LiveInv'
  <2>1. /\ phase' = [phase EXCEPT ![t] = "over"] /\ pc' = pc /\ Live(t)
        /\ running' = running \/ running' = running \ {TaskUser[t]}
    BY <1>17 DEF Succeed, EndTask, Live
  <2>2. \A s \in Tasks : Live(s)' => Live(s) /\ s # t
    BY <2>1 DEF Live, ScalarTypes
  <2>3. \A s \in Tasks : Live(s)' => TaskUser[s] \in running'
    BY <2>1, <2>2
  <2> QED
    BY <2>1, <2>2, <2>3
<1>18. ASSUME NEW t \in Tasks, Fail(t)
      PROVE  LiveInv'
  <2>1. /\ phase' = [phase EXCEPT ![t] = "over"] /\ pc' = pc /\ Live(t)
        /\ running' = running \/ running' = running \ {TaskUser[t]}
    BY <1>18 DEF Fail, EndTask, Live
  <2>2. \A s \in Tasks : Live(s)' => Live(s) /\ s # t
    BY <2>1 DEF Live, ScalarTypes
  <2>3. \A s \in Tasks : Live(s)' => TaskUser[s] \in running'
    BY <2>1, <2>2
  <2> QED
    BY <2>1, <2>2, <2>3
<1>19. ASSUME NEW t \in Tasks, Drop(t)
      PROVE  LiveInv'
  <2>1. /\ phase' = [phase EXCEPT ![t] = "over"] /\ pc' = pc /\ Live(t)
        /\ running' = running \/ running' = running \ {TaskUser[t]}
    BY <1>19 DEF Drop, EndTask, Live
  <2>2. \A s \in Tasks : Live(s)' => Live(s) /\ s # t
    BY <2>1 DEF Live, ScalarTypes
  <2>3. \A s \in Tasks : Live(s)' => TaskUser[s] \in running'
    BY <2>1, <2>2
  <2> QED
    BY <2>1, <2>2, <2>3
<1>20. CASE UNCHANGED vars
  BY <1>20 DEF vars, Live
<1>21. ASSUME NEW t \in Tasks, SendLess(t)
      PROVE  LiveInv'
  <2>1. running' = running /\ phase' = phase /\ pc' = pc
    BY <1>21 DEF SendLess
  <2> QED
    BY <2>1 DEF Live
<1>22. ASSUME NEW t \in Tasks, SendAgain(t)
      PROVE  LiveInv'
  <2>1. running' = running /\ phase' = phase /\ pc' = pc
    BY <1>22 DEF SendAgain
  <2> QED
    BY <2>1 DEF Live
<1> QED
  BY <1>1, <1>2, <1>3, <1>4, <1>5, <1>6, <1>7, <1>8, <1>9, <1>10, <1>11,
     <1>12, <1>13, <1>14, <1>15, <1>16, <1>17, <1>18, <1>19, <1>20, <1>21, <1>22
     DEF Next, Request, Task

\* A list is not empty after an entry was appended.
LEMMA AppendNotEmpty ==
    ASSUME NEW s \in Seq(Sound), NEW e \in Sound
    PROVE  Append(s, e) # <<>>
<1>1. Len(Append(s, e)) = Len(s) + 1 /\ Len(s) \in Nat
  OBVIOUS
<1>2. Len(<<>>) = 0
  OBVIOUS
<1>3. Len(s) + 1 # 0
  BY <1>1
<1> QED
  BY <1>1, <1>2, <1>3

\* Nobody else changes what a request has found out about cache_dict.
LEMMA CacheKept ==
    ASSUME Patient, ScalarTypes, DataInv, ExchangeInv, LiveInv, CacheInv, [Next]_vars
    PROVE  CacheInv'
<1>1. ASSUME NEW m \in Msgs, Write(m)
      PROVE  CacheInv'
  <2>1. /\ cached' = cached /\ cache' = cache /\ hand' = hand
        /\ \A n \in Msgs : pc'[n] # pc[n] =>
               /\ pc[n] \notin {"test", "delete", "reply"}
               /\ pc'[n] \notin {"missing", "pop", "delete"}
    BY <1>1 DEF Write, taskVars, Goto, ScalarTypes
  <2> QED
    BY <2>1 DEF CacheInv, NoOrphanEntry
<1>2. ASSUME NEW m \in Msgs, Retry(m)
      PROVE  CacheInv'
  <2>1. /\ cached' = cached /\ cache' = cache /\ hand' = hand
        /\ \A n \in Msgs : pc'[n] # pc[n] =>
               /\ pc[n] \notin {"test", "delete", "reply"}
               /\ pc'[n] \notin {"missing", "pop", "delete"}
    BY <1>2 DEF Retry, taskVars, Goto, ScalarTypes
  <2> QED
    BY <2>1 DEF CacheInv, NoOrphanEntry
<1>3. ASSUME NEW m \in Msgs, CheckCached(m)
      PROVE  CacheInv'
  <2>1. /\ cached' = cached /\ cache' = cache /\ hand' = hand
        /\ \A n \in Msgs : pc'[n] # pc[n] =>
               /\ pc[n] \notin {"test", "delete", "reply"}
               /\ pc'[n] \notin {"missing", "pop", "delete"}
    BY <1>3 DEF CheckCached, taskVars, Goto, NewCommand, ScalarTypes
  <2> QED
    BY <2>1 DEF CacheInv, NoOrphanEntry
<1>4. ASSUME NEW m \in Msgs, CheckRunning(m)
      PROVE  CacheInv'
  <2>1. /\ cached' = cached /\ cache' = cache /\ hand' = hand
        /\ \A n \in Msgs : pc'[n] # pc[n] =>
               /\ pc[n] \notin {"test", "delete", "reply"}
               /\ pc'[n] \notin {"missing", "pop", "delete"}
    BY <1>4 DEF CheckRunning, taskVars, Goto, NewCommand, ScalarTypes
  <2> QED
    BY <2>1 DEF CacheInv, NoOrphanEntry
<1>5. ASSUME NEW m \in Msgs, Begin(m)
      PROVE  CacheInv'
  <2>1. /\ cached' = cached /\ cache' = cache /\ hand' = hand
        /\ \A n \in Msgs : pc'[n] # pc[n] =>
               /\ pc[n] \notin {"test", "delete", "reply"}
               /\ pc'[n] \notin {"missing", "pop", "delete"}
    BY <1>5 DEF Begin, Goto, Respond, ScalarTypes
  <2> QED
    BY <2>1 DEF CacheInv, NoOrphanEntry
<1>6. ASSUME NEW m \in Msgs, Count(m)
      PROVE  CacheInv'
  <2>1. /\ cached' = cached /\ cache' = cache /\ hand' = hand
        /\ \A n \in Msgs : pc'[n] # pc[n] =>
               /\ pc[n] \notin {"test", "delete", "reply"}
               /\ pc'[n] \notin {"missing", "pop", "delete"}
    BY <1>6 DEF Count, taskVars, Goto, ScalarTypes
  <2> QED
    BY <2>1 DEF CacheInv, NoOrphanEntry
<1>7. ASSUME NEW m \in Msgs, TimeOut(m)
      PROVE  CacheInv'
  <2>1. /\ cached' = cached /\ cache' = cache /\ hand' = hand
        /\ \A n \in Msgs : pc'[n] # pc[n] =>
               /\ pc[n] \notin {"test", "delete", "reply"}
               /\ pc'[n] \notin {"missing", "pop", "delete"}
    BY <1>7 DEF TimeOut, taskVars, Goto, Respond, ScalarTypes
  <2> QED
    BY <2>1 DEF CacheInv, NoOrphanEntry
<1>8. ASSUME NEW m \in Msgs, Ready(m)
      PROVE  CacheInv'
  <2>1. /\ cached' = cached /\ cache' = cache /\ hand' = hand
        /\ \A n \in Msgs : pc'[n] # pc[n] =>
               /\ pc[n] \notin {"test", "delete", "reply"}
               /\ pc'[n] \notin {"missing", "pop", "delete"}
    BY <1>8 DEF Ready, taskVars, Goto, ScalarTypes
  <2> QED
    BY <2>1 DEF CacheInv, NoOrphanEntry
<1>9. ASSUME NEW m \in Msgs, FindCached(m)
      PROVE  CacheInv'
  <2> DEFINE u == UserOf[m]
  <2>1. /\ cached' = cached /\ cache' = cache /\ hand' = hand /\ pc[m] = "ready"
        /\ pc' = [pc EXCEPT ![m] = IF u \in cached THEN "pop" ELSE "missing"]
        /\ u \in Users
    BY <1>9, TaskFacts DEF FindCached, Goto, taskVars
  <2>2. ASSUME u \in cached, cache[u] = <<>>
        PROVE  FALSE
    <3>1. PICK n \in Msgs : UserOf[n] = u /\ pc[n] \in {"test", "delete"}
      BY <2>2 DEF CacheInv, NoOrphanEntry
    <3>2. n = m
      BY <2>1, <3>1, OneTurn
    <3> QED
      BY <2>1, <3>1, <3>2
  <2>3. \A n \in Msgs : n # m => pc'[n] = pc[n]
    BY <2>1 DEF ScalarTypes
  <2>4. pc'[m] = IF u \in cached THEN "pop" ELSE "missing"
    BY <2>1 DEF ScalarTypes
  <2>5. \A n \in Msgs : pc[n] \in {"test", "delete", "reply"} => pc'[n] = pc[n]
    BY <2>1, <2>3
  <2>6. NoOrphanEntry'
    BY <2>1, <2>5 DEF CacheInv, NoOrphanEntry
  <2> QED
    BY <2>1, <2>2, <2>3, <2>4, <2>5, <2>6 DEF CacheInv
<1>10. ASSUME NEW m \in Msgs, FindRunning(m)
      PROVE  CacheInv'
  <2>1. UserOf[m] \notin running
    BY <1>10 DEF FindRunning, LiveInv, Acting
  <2>2. /\ cached' = cached /\ cache' = cache /\ hand' = hand
        /\ pc[m] = "missing" /\ pc' = [pc EXCEPT ![m] = "answered"]
    BY <1>10, <2>1 DEF FindRunning, Respond, Goto
  <2>3. \A n \in Msgs : pc'[n] = IF n = m THEN "answered" ELSE pc[n]
    BY <2>2 DEF ScalarTypes
  <2> QED
    BY <2>2, <2>3 DEF CacheInv, NoOrphanEntry
<1>11. ASSUME NEW m \in Msgs, Pop(m)
      PROVE  CacheInv'
  <2> DEFINE u == UserOf[m]
  <2>1. /\ pc[m] = "pop" /\ u \in Users /\ cache[u] # <<>>
        /\ cached' = cached \cup {u}
    BY <1>11, TaskFacts DEF Pop, CacheInv
  <2>2. /\ hand' = [hand EXCEPT ![m] = Head(cache[u])]
        /\ cache' = [cache EXCEPT ![u] = Tail(cache[u])]
        /\ pc' = [pc EXCEPT ![m] = "test"]
    BY <1>11, <2>1 DEF Pop, Goto
  <2>3. /\ \A n \in Msgs : pc'[n] = IF n = m THEN "test" ELSE pc[n]
        /\ \A n \in Msgs : n # m => hand'[n] = hand[n]
        /\ \A v \in Users : v # u => cache'[v] = cache[v]
    BY <2>2 DEF ScalarTypes, DataInv
  <2>4. \A n \in Msgs : n # m /\ pc[n] \notin {"unsent", "answered"} => UserOf[n] # u
    BY <2>1, OneTurn
  <2>5. NoOrphanEntry'
    <3> SUFFICES ASSUME NEW v \in cached', cache'[v] = <<>>
                 PROVE  \E n \in Msgs : UserOf[n] = v /\ pc'[n] \in {"test", "delete"}
      BY DEF NoOrphanEntry
    <3>1. CASE v = u
      BY <2>3, <3>1
    <3>2. CASE v # u
      <4>1. v \in cached /\ v \in Users /\ cache[v] = <<>>
        BY <2>1, <2>3, <3>2 DEF ScalarTypes
      <4>2. PICK n \in Msgs : UserOf[n] = v /\ pc[n] \in {"test", "delete"}
        BY <4>1 DEF CacheInv, NoOrphanEntry
      <4> QED
        BY <2>1, <2>3, <4>2
    <3> QED
      BY <3>1, <3>2
  <2>6. \A v \in Users : cache'[v] # <<>> => v \in cached'
    BY <2>1, <2>3 DEF CacheInv
  <2>7. \A n \in Msgs : UserOf[n] \in Users
    BY TaskFacts
  <2>8. \A n \in Msgs : pc'[n] \in {"missing", "pop", "delete"} =>
            /\ pc'[n] = pc[n] /\ cache'[UserOf[n]] = cache[UserOf[n]]
            /\ (UserOf[n] \in cached' <=> UserOf[n] \in cached)
    BY <2>1, <2>3, <2>4, <2>7
  <2> QED
    BY <2>3, <2>5, <2>6, <2>8 DEF CacheInv
<1>12. ASSUME NEW m \in Msgs, TestEmpty(m)
      PROVE  CacheInv'
  <2> DEFINE u == UserOf[m]
  <2>1. /\ pc[m] = "test" /\ cached' = cached \cup {u} /\ u \in Users
        /\ cache' = cache /\ hand' = hand
        /\ pc' = [pc EXCEPT ![m] = IF cache[u] = <<>> THEN "delete" ELSE "reply"]
    BY <1>12, TaskFacts DEF TestEmpty, Goto
  <2>2. \A n \in Msgs : pc'[n] = IF n # m THEN pc[n]
                                 ELSE IF cache[u] = <<>> THEN "delete" ELSE "reply"
    BY <2>1 DEF ScalarTypes
  <2>3. \A n \in Msgs : n # m /\ pc[n] \notin {"unsent", "answered"} => UserOf[n] # u
    BY <2>1, OneTurn
  <2>4. NoOrphanEntry'
    <3> SUFFICES ASSUME NEW v \in cached', cache[v] = <<>>
                 PROVE  \E n \in Msgs : UserOf[n] = v /\ pc'[n] \in {"test", "delete"}
      BY <2>1 DEF NoOrphanEntry
    <3>1. CASE v = u
      BY <2>2, <3>1
    <3>2. CASE v # u
      <4>1. PICK n \in Msgs : UserOf[n] = v /\ pc[n] \in {"test", "delete"}
        BY <2>1, <3>2 DEF CacheInv, NoOrphanEntry
      <4> QED
        BY <2>2, <3>2, <4>1
    <3> QED
      BY <3>1, <3>2
  <2>5. \A v \in Users : cache'[v] # <<>> => v \in cached'
    BY <2>1 DEF CacheInv
  <2>6. \A n \in Msgs : n # m /\ pc'[n] = "missing" => UserOf[n] \notin cached'
    BY <2>1, <2>2, <2>3 DEF CacheInv
  <2> QED
    BY <2>1, <2>2, <2>4, <2>5, <2>6 DEF CacheInv
<1>13. ASSUME NEW m \in Msgs, DeleteEntry(m)
      PROVE  CacheInv'
  <2> DEFINE u == UserOf[m]
  <2>1. /\ pc[m] = "delete" /\ cached' = cached \ {u} /\ u \in Users /\ u \in cached
        /\ cache[u] = <<>>
    BY <1>13, TaskFacts DEF DeleteEntry, CacheInv
  <2>2. /\ cache' = [cache EXCEPT ![u] = <<>>] /\ hand' = hand
        /\ pc' = [pc EXCEPT ![m] = "reply"]
    BY <1>13, <2>1 DEF DeleteEntry, Goto
  <2>3. /\ \A n \in Msgs : pc'[n] = IF n = m THEN "reply" ELSE pc[n]
        /\ \A v \in Users : cache'[v] = cache[v]
    BY <2>1, <2>2 DEF ScalarTypes, DataInv
  <2>4. \A n \in Msgs : n # m /\ pc[n] \notin {"unsent", "answered"} => UserOf[n] # u
    BY <2>1, OneTurn
  <2>5. NoOrphanEntry'
    <3> SUFFICES ASSUME NEW v \in cached', cache'[v] = <<>>
                 PROVE  \E n \in Msgs : UserOf[n] = v /\ pc'[n] \in {"test", "delete"}
      BY DEF NoOrphanEntry
    <3>1. v \in cached /\ v # u /\ v \in Users
      BY <2>1 DEF ScalarTypes
    <3>2. PICK n \in Msgs : UserOf[n] = v /\ pc[n] \in {"test", "delete"}
      BY <2>3, <3>1 DEF CacheInv, NoOrphanEntry
    <3> QED
      BY <2>3, <3>1, <3>2
  <2>6. \A v \in Users : cache'[v] # <<>> => v \in cached'
    BY <2>1, <2>3 DEF CacheInv
  <2>7. \A n \in Msgs : UserOf[n] \in Users
    BY TaskFacts
  <2>8. \A n \in Msgs : pc'[n] \in {"missing", "pop", "delete"} =>
            /\ pc'[n] = pc[n] /\ cache'[UserOf[n]] = cache[UserOf[n]]
            /\ (UserOf[n] \in cached' <=> UserOf[n] \in cached)
    BY <2>1, <2>3, <2>4, <2>7
  <2> QED
    BY <2>1, <2>2, <2>3, <2>5, <2>6, <2>8 DEF CacheInv
<1>14. ASSUME NEW m \in Msgs, Reply(m)
      PROVE  CacheInv'
  <2> DEFINE u == UserOf[m]
             r == Append(cache[u], Entry(hand[m].of, 2, "whole"))
  <2>1. /\ pc[m] = "reply" /\ u \in Users
        /\ hand' = [hand EXCEPT ![m] = NoEntry] /\ pc' = [pc EXCEPT ![m] = "answered"]
        /\ \/ cache' = cache /\ cached' = cached
           \/ cache' = [cache EXCEPT ![u] = r] /\ cached' = cached \cup {u}
    BY <1>14, TaskFacts DEF Reply, Respond, Goto
  <2>2. r # <<>>
    <3>1. cache[u] \in Seq(Sound) /\ hand[m] \in Sound
      BY <2>1 DEF DataInv
    <3>2. Entry(hand[m].of, 2, "whole") \in Sound
      BY <3>1, EntryFacts
    <3> QED
      BY <3>1, <3>2, AppendNotEmpty
  <2> HIDE DEF r
  <2>3. /\ \A n \in Msgs : pc'[n] = IF n = m THEN "answered" ELSE pc[n]
        /\ \A n \in Msgs : hand'[n] = IF n = m THEN NoEntry ELSE hand[n]
    BY <2>1 DEF ScalarTypes, DataInv
  <2>4. /\ \A v \in Users : v # u => cache'[v] = cache[v] /\ (v \in cached' <=> v \in cached)
        /\ cache'[u] # <<>> => u \in cached'
        /\ u \in cached' /\ cache'[u] = <<>> => u \in cached /\ cache[u] = <<>>
    BY <2>1, <2>2 DEF DataInv, CacheInv
  <2>5. \A n \in Msgs : n # m /\ pc[n] \notin {"unsent", "answered"} => UserOf[n] # u
    BY <2>1, OneTurn
  <2>6. NoOrphanEntry'
    <3> SUFFICES ASSUME NEW v \in cached', cache'[v] = <<>>
                 PROVE  \E n \in Msgs : UserOf[n] = v /\ pc'[n] \in {"test", "delete"}
      BY DEF NoOrphanEntry
    <3>1. v \in cached /\ cache[v] = <<>>
      BY <2>1, <2>4 DEF ScalarTypes
    <3>2. PICK n \in Msgs : UserOf[n] = v /\ pc[n] \in {"test", "delete"}
      BY <3>1 DEF CacheInv, NoOrphanEntry
    <3> QED
      BY <2>1, <2>3, <3>2
  <2>7. \A v \in Users : cache'[v] # <<>> => v \in cached'
    BY <2>4 DEF CacheInv
  <2>8. \A n \in Msgs : UserOf[n] \in Users
    BY TaskFacts
  <2>9. \A n \in Msgs : pc'[n] \in {"missing", "pop", "delete"} =>
            /\ pc'[n] = pc[n] /\ cache'[UserOf[n]] = cache[UserOf[n]]
            /\ (UserOf[n] \in cached' <=> UserOf[n] \in cached)
    BY <2>1, <2>3, <2>4, <2>5, <2>8
  <2> QED
    BY <2>1, <2>3, <2>6, <2>7, <2>9 DEF CacheInv
<1>15. ASSUME NEW t \in Tasks, StartTask(t)
      PROVE  CacheInv'
  <2>1. /\ cached' = cached /\ cache' = cache /\ hand' = hand
        /\ \A n \in Msgs : pc'[n] # pc[n] =>
               /\ pc[n] \notin {"test", "delete", "reply"}
               /\ pc'[n] \notin {"missing", "pop", "delete"}
    BY <1>15 DEF StartTask, ScalarTypes
  <2> QED
    BY <2>1 DEF CacheInv, NoOrphanEntry
<1>16. ASSUME NEW t \in Tasks, SendPart(t)
      PROVE  CacheInv'
  <2> DEFINE u == TaskUser[t]
  <2>1. /\ cached' = cached \cup {u} /\ hand' = hand /\ pc' = pc /\ u \in Users
        /\ cache' = [cache EXCEPT ![u] = Append(cache[u], Head(out[t]))]
        /\ Live(t)
    BY <1>16, TaskFacts DEF SendPart, Live
  <2>2. \A v \in Users : v # u => cache'[v] = cache[v]
    BY <2>1 DEF DataInv
  <2>3. cache'[u] # <<>>
    <3>1. cache'[u] = Append(cache[u], Head(out[t])) /\ cache[u] \in Seq(Sound)
      BY <2>1 DEF DataInv
    <3> QED
      BY <3>1
  <2>4. \A n \in Msgs : pc[n] \in Acting => UserOf[n] # u
    BY <2>1 DEF LiveInv
  <2>5. NoOrphanEntry'
    BY <2>1, <2>2, <2>3 DEF CacheInv, NoOrphanEntry
  <2>6. \A v \in Users : cache'[v] # <<>> => v \in cached'
    BY <2>1, <2>2 DEF CacheInv
  <2>7. \A n \in Msgs : UserOf[n] \in Users
    BY TaskFacts
  <2>8. \A n \in Msgs : pc[n] \in {"missing", "pop", "delete"} =>
            cache'[UserOf[n]] = cache[UserOf[n]] /\ (UserOf[n] \in cached' <=> UserOf[n] \in cached)
    BY <2>1, <2>2, <2>4, <2>7 DEF Acting
  <2> QED
    BY <2>1, <2>5, <2>6, <2>8 DEF CacheInv
<1>17. ASSUME NEW t \in Tasks, Succeed(t)
      PROVE  CacheInv'
  <2>1. /\ cached' = cached /\ cache' = cache /\ hand' = hand
        /\ \A n \in Msgs : pc'[n] # pc[n] =>
               /\ pc[n] \notin {"test", "delete", "reply"}
               /\ pc'[n] \notin {"missing", "pop", "delete"}
    BY <1>17 DEF Succeed, EndTask, ScalarTypes
  <2> QED
    BY <2>1 DEF CacheInv, NoOrphanEntry
<1>18. ASSUME NEW t \in Tasks, Fail(t)
      PROVE  CacheInv'
  <2>1. /\ cached' = cached /\ cache' = cache /\ hand' = hand
        /\ \A n \in Msgs : pc'[n] # pc[n] =>
               /\ pc[n] \notin {"test", "delete", "reply"}
               /\ pc'[n] \notin {"missing", "pop", "delete"}
    BY <1>18 DEF Fail, EndTask, ScalarTypes
  <2> QED
    BY <2>1 DEF CacheInv, NoOrphanEntry
<1>19. ASSUME NEW t \in Tasks, Drop(t)
      PROVE  CacheInv'
  <2>1. /\ cached' = cached /\ cache' = cache /\ hand' = hand
        /\ \A n \in Msgs : pc'[n] # pc[n] =>
               /\ pc[n] \notin {"test", "delete", "reply"}
               /\ pc'[n] \notin {"missing", "pop", "delete"}
    BY <1>19 DEF Drop, EndTask, ScalarTypes
  <2> QED
    BY <2>1 DEF CacheInv, NoOrphanEntry
<1>20. CASE UNCHANGED vars
  BY <1>20 DEF vars, CacheInv, NoOrphanEntry
<1>21. ASSUME NEW t \in Tasks, SendLess(t)
      PROVE  CacheInv'
  <2>1. cached' = cached /\ cache' = cache /\ hand' = hand /\ pc' = pc
    BY <1>21 DEF SendLess
  <2> QED
    BY <2>1 DEF CacheInv, NoOrphanEntry
<1>22. ASSUME NEW t \in Tasks, SendAgain(t)
      PROVE  CacheInv'
  <2>1. cached' = cached /\ cache' = cache /\ hand' = hand /\ pc' = pc
    BY <1>22 DEF SendAgain
  <2> QED
    BY <2>1 DEF CacheInv, NoOrphanEntry
<1> QED
  BY <1>1, <1>2, <1>3, <1>4, <1>5, <1>6, <1>7, <1>8, <1>9, <1>10, <1>11,
     <1>12, <1>13, <1>14, <1>15, <1>16, <1>17, <1>18, <1>19, <1>20, <1>21, <1>22
     DEF Next, Request, Task

-----------------------------------------------------------------------------
(* Where the parts of replies go.                                          *)

\* The variables that hold the parts of replies.
Moved == <<cache, out, hand, delivered, stored>>

\* The order of a list to which an entry was appended.
LEMMA AppendOrder ==
    ASSUME NEW s \in Seq(Sound), NEW e \in Sound, NEW i \in DOMAIN Append(s, e), NEW t
    PROVE  \/ /\ i \in DOMAIN s /\ Append(s, e)[i] = s[i]
              /\ FirstBefore(s, t, i) => FirstBefore(Append(s, e), t, i)
           \/ /\ Append(s, e)[i] = e
              /\ HasIn(s, t, 1) => FirstBefore(Append(s, e), t, i)
<1> DEFINE r == Append(s, e)
<1>1. /\ DOMAIN r = 1..(Len(s) + 1) /\ DOMAIN s = 1..Len(s) /\ Len(s) \in Nat
      /\ \A j \in 1..Len(s) : r[j] = s[j] /\ s[j] \in Sound
      /\ r[Len(s) + 1] = e
  OBVIOUS
<1> HIDE DEF r
<1>2. i \in 1..(Len(s) + 1)
  BY <1>1 DEF r
<1>3. CASE i \in 1..Len(s)
  <2>1. i \in DOMAIN s /\ r[i] = s[i]
    BY <1>1, <1>3
  <2>2. FirstBefore(s, t, i) => FirstBefore(r, t, i)
    BY <1>1 DEF FirstBefore
  <2> QED
    BY <2>1, <2>2 DEF r
<1>4. CASE i = Len(s) + 1
  <2>1. ASSUME HasIn(s, t, 1)
        PROVE  FirstBefore(r, t, i)
    <3>1. PICK j \in DOMAIN s : Has(s[j], t, 1)
      BY <2>1 DEF HasIn
    <3>3. j \in DOMAIN r /\ j < i /\ r[j] = s[j]
      BY <1>1, <1>4
    <3> QED
      BY <3>1, <3>3 DEF FirstBefore
  <2>2. r[i] = e
    BY <1>1, <1>4
  <2> QED
    BY <2>1, <2>2 DEF r
<1> QED
  BY <1>1, <1>2, <1>3, <1>4

\* The order of a list whose head was taken.
LEMMA TailOrder ==
    ASSUME NEW s \in Seq(Sound), s # <<>>, NEW t
    PROVE  /\ ~FirstBefore(s, t, 1)
           /\ \A i \in DOMAIN Tail(s) :
               /\ i + 1 \in DOMAIN s /\ Tail(s)[i] = s[i + 1]
               /\ FirstBefore(s, t, i + 1) => FirstBefore(Tail(s), t, i) \/ Has(Head(s), t, 1)
<1> DEFINE r == Tail(s)
<1>1. /\ Len(s) \in Nat /\ Len(s) >= 1 /\ DOMAIN s = 1..Len(s) /\ Head(s) = s[1]
      /\ s[1] \in Sound
      /\ DOMAIN r = 1..(Len(s) - 1)
      /\ \A i \in 1..(Len(s) - 1) : r[i] = s[i + 1]
  OBVIOUS
<1> HIDE DEF r
<1>2. ~FirstBefore(s, t, 1)
  BY <1>1 DEF FirstBefore
<1>3. ASSUME NEW i \in DOMAIN r
      PROVE  /\ i + 1 \in DOMAIN s /\ r[i] = s[i + 1]
             /\ FirstBefore(s, t, i + 1) => FirstBefore(r, t, i) \/ Has(Head(s), t, 1)
  <2>1. i + 1 \in DOMAIN s /\ r[i] = s[i + 1] /\ i \in Nat
    BY <1>1
  <2>2. ASSUME FirstBefore(s, t, i + 1)
        PROVE  FirstBefore(r, t, i) \/ Has(Head(s), t, 1)
    <3>1. PICK j \in DOMAIN s : j < i + 1 /\ Has(s[j], t, 1)
      BY <2>2 DEF FirstBefore
    <3>2. CASE j = 1
      BY <1>1, <3>1, <3>2
    <3>3. CASE j # 1
      <4>1. j - 1 \in DOMAIN r /\ r[j - 1] = s[j] /\ j - 1 < i
        BY <1>1, <2>1, <3>1, <3>3
      <4> QED
        BY <3>1, <4>1 DEF FirstBefore
    <3> QED
      BY <3>2, <3>3
  <2> QED
    BY <2>1, <2>2
<1> QED
  BY <1>2, <1>3 DEF r

\* A sending caches the first part first.
LEMMA EntriesInOrder ==
    ASSUME NEW s \in Sendings, NEW k, NEW i \in DOMAIN EntriesOf(s, k),
           EntriesOf(s, k)[i].part = 2
    PROVE  FirstBefore(EntriesOf(s, k), s, i)
<1>1. ASSUME NEW e, e.part = 1, EntriesOf(s, k) = <<e>>
      PROVE  FALSE
  <2>1. DOMAIN <<e>> = {1} /\ <<e>>[1] = e
    OBVIOUS
  <2> QED
    BY <1>1, <2>1
<1>2. CASE k \in {"text", "image"}
  <2>1. EntriesOf(s, k) = <<Entry(s, 1, "whole")>>
    BY <1>2 DEF EntriesOf
  <2> QED
    BY <1>1, <2>1, EntryFacts
<1>3. CASE k = "long"
  <2>1. EntriesOf(s, k) = <<Entry(s, 1, "long")>>
    BY <1>3 DEF EntriesOf
  <2> QED
    BY <1>1, <2>1, EntryFacts
<1>4. CASE k = "voices"
  <2> DEFINE e == Entry(s, 1, "whole")
             f == Entry(s, 2, "whole")
  <2>1. EntriesOf(s, k) = <<e, f>>
    BY <1>4 DEF EntriesOf
  <2>2. e \in Sound /\ e.of = s /\ e.part = 1 /\ e.form = "whole"
    BY EntryFacts
  <2>3. Has(e, s, 1)
    BY <2>2, EntryFacts DEF Has
  <2> HIDE DEF e, f
  <2>4. DOMAIN <<e, f>> = {1, 2} /\ <<e, f>>[1] = e /\ <<e, f>>[2] = f
    OBVIOUS
  <2>5. i = 2
    BY <2>1, <2>2, <2>4
  <2>6. 1 \in DOMAIN <<e, f>> /\ 1 < 2
    BY <2>4
  <2> QED
    BY <2>1, <2>3, <2>4, <2>5, <2>6 DEF FirstBefore
<1>5. CASE k = "video"
  <2>1. EntriesOf(s, k) = <<Entry(s, 1, "video")>>
    BY <1>5 DEF EntriesOf
  <2> QED
    BY <1>1, <2>1, EntryFacts
<1>6. CASE k \notin {"text", "image", "long", "voices", "video"}
  <2>1. EntriesOf(s, k) = <<>>
    BY <1>6 DEF EntriesOf
  <2>2. DOMAIN <<>> = {}
    OBVIOUS
  <2> QED
    BY <2>1, <2>2
<1> QED
  BY <1>2, <1>3, <1>4, <1>5, <1>6

\* The steps that move the parts of a reply; a deletion drops nothing.
LEMMA Movers ==
    ASSUME ScalarTypes, DataInv, CacheInv, [Next]_vars
    PROVE  \/ UNCHANGED Moved
           \/ \E t \in Tasks : StartTask(t) \/ SendPart(t) \/ SendLess(t) \/ SendAgain(t)
           \/ \E m \in Msgs : Pop(m) \/ Reply(m)
<1>1. ASSUME NEW m \in Msgs, Write(m) \/ Retry(m) \/ Request(m), ~Pop(m), ~Reply(m)
      PROVE  UNCHANGED Moved
  <2>1. CASE DeleteEntry(m)
    <3>1. cache[UserOf[m]] = <<>> /\ UserOf[m] \in cached
      BY <2>1 DEF DeleteEntry, CacheInv
    <3>2. cache' = [cache EXCEPT ![UserOf[m]] = <<>>]
          /\ UNCHANGED <<out, hand, delivered, stored>>
      BY <2>1, <3>1 DEF DeleteEntry, taskVars
    <3>3. cache' = cache
      BY <3>1, <3>2 DEF DataInv
    <3> QED
      BY <3>2, <3>3 DEF Moved
  <2>2. CASE Begin(m)
    BY <2>2 DEF Begin, Moved
  <2>3. CASE ~DeleteEntry(m) /\ ~Begin(m)
    BY <1>1, <2>3 DEF Write, Retry, Request, CheckCached, CheckRunning, Count,
                      TimeOut, Ready, FindCached, FindRunning, TestEmpty,
                      taskVars, Moved
  <2> QED
    BY <2>1, <2>2, <2>3
<1>2. ASSUME NEW t \in Tasks, Succeed(t) \/ Fail(t) \/ Drop(t)
      PROVE  UNCHANGED Moved
  BY <1>2 DEF Succeed, Fail, Drop, Moved
<1>3. CASE UNCHANGED vars
  BY <1>3 DEF vars, taskVars, Moved
<1> QED
  BY <1>1, <1>2, <1>3 DEF Next, Task, Request

\* A sending begins or is given up: what is cached stays as it is.
LEMMA OutMoves ==
    ASSUME ScalarTypes, DataInv, LostInv, OrderInv,
           UNCHANGED <<cache, hand, delivered, stored>>, NEW t \in Tasks,
           \A s \in Tasks : s # t => out'[s] = out[s],
           \A s \in Sendings : s[1] = t =>
               \A i \in DOMAIN out'[t] : out'[t][i].of = s /\ out'[t][i].part = 2 =>
                   FirstBefore(out'[t], s, i)
    PROVE  LostInv' /\ OrderInv'
<1>1. \A s, p : /\ AtCache(s, p)' <=> AtCache(s, p)
                /\ AtHand(s, p)' <=> AtHand(s, p)
                /\ AtUser(s, p)' <=> AtUser(s, p)
  BY DEF AtCache, AtHand, AtUser
<1>2. ASSUME NEW s \in Sendings, NEW i \in DOMAIN out'[s[1]],
             out'[s[1]][i].of = s, out'[s[1]][i].part = 2
      PROVE  (FirstBefore(out[s[1]], s, i) \/ AtCache(s, 1) \/ AtHand(s, 1) \/ AtUser(s, 1))'
  <2>1. CASE s[1] = t
    BY <1>2, <2>1
  <2>2. CASE s[1] # t
    <3>1. out'[s[1]] = out[s[1]]
      BY <2>2, SendingFacts
    <3>2. FirstBefore(out[s[1]], s, i) \/ AtCache(s, 1) \/ AtHand(s, 1) \/ AtUser(s, 1)
      BY <1>2, <3>1 DEF OrderInv
    <3> QED
      BY <1>1, <3>1, <3>2
  <2> QED
    BY <2>1, <2>2
<1>3. LostInv'
  BY <1>1 DEF LostInv
<1>4. OrderInv'
  BY <1>1, <1>2 DEF OrderInv, PartsInOrder
<1> QED
  BY <1>3, <1>4

\* A sending begins with its first part.
LEMMA RenewMoves ==
    ASSUME ScalarTypes, DataInv, LostInv, OrderInv,
           UNCHANGED <<cache, hand, delivered, stored>>, NEW t \in Tasks, NEW n, NEW k,
           <<t, n>> \in Sendings, out' = [out EXCEPT ![t] = EntriesOf(<<t, n>>, k)]
    PROVE  LostInv' /\ OrderInv'
<1>1. /\ \A s \in Tasks : s # t => out'[s] = out[s]
      /\ out'[t] = EntriesOf(<<t, n>>, k)
  BY DEF DataInv
<1>2. \A i \in DOMAIN EntriesOf(<<t, n>>, k) : EntriesOf(<<t, n>>, k)[i].of = <<t, n>>
  BY EntriesFacts
<1>3. ASSUME NEW i \in DOMAIN out'[t], out'[t][i].part = 2
      PROVE  FirstBefore(out'[t], out'[t][i].of, i)
  <2>1. out'[t][i].of = <<t, n>>
    BY <1>1, <1>2, <1>3
  <2>2. FirstBefore(EntriesOf(<<t, n>>, k), <<t, n>>, i)
    BY <1>1, <1>3, EntriesInOrder
  <2> QED
    BY <1>1, <2>1, <2>2
<1> QED
  BY <1>1, <1>3, OutMoves

\* A handler comes to its reply.
LEMMA StartMoves ==
    ASSUME ScalarTypes, DataInv, LostInv, OrderInv, NEW t \in Tasks, StartTask(t)
    PROVE  LostInv' /\ OrderInv'
<1>1. PICK k \in Replies[t[1]] : out' = [out EXCEPT ![t] = EntriesOf(<<t, 1>>, k)]
  BY DEF StartTask
<1>2. UNCHANGED <<cache, hand, delivered, stored>>
  BY DEF StartTask
<1>3. 1 \in 1..MaxSends
  BY PassiveAssumption
<1>4. <<t, 1>> \in Sendings
  BY <1>3, SendingFacts
<1> QED
  BY <1>1, <1>2, <1>4, RenewMoves

\* An upload raises: the reply is sent again.
LEMMA AgainMoves ==
    ASSUME ScalarTypes, DataInv, LostInv, OrderInv, NEW t \in Tasks, SendAgain(t)
    PROVE  LostInv' /\ OrderInv'
<1>1. out' = [out EXCEPT ![t] = EntriesOf(<<t, tries[t] + 1>>, reply[t])]
  BY DEF SendAgain
<1>2. UNCHANGED <<cache, hand, delivered, stored>>
  BY DEF SendAgain
<1>3. tries[t] + 1 \in 1..MaxSends
  BY PassiveAssumption DEF SendAgain, ScalarTypes
<1>4. <<t, tries[t] + 1>> \in Sendings
  BY <1>3, SendingFacts
<1> QED
  BY <1>1, <1>2, <1>4, RenewMoves

\* An upload fails for good: the rest is given up.
LEMMA LessMoves ==
    ASSUME ScalarTypes, DataInv, LostInv, OrderInv, NEW t \in Tasks, SendLess(t)
    PROVE  LostInv' /\ OrderInv'
<1>1. out' = [out EXCEPT ![t] = <<>>] /\ UNCHANGED <<cache, hand, delivered, stored>>
  BY DEF SendLess
<1>2. /\ \A s \in Tasks : s # t => out'[s] = out[s]
      /\ out'[t] = <<>>
  BY <1>1 DEF DataInv
<1>3. DOMAIN <<>> = {}
  OBVIOUS
<1> QED
  BY <1>1, <1>2, <1>3, OutMoves

\* A worker's part goes to the end of its user's list.
LEMMA SendMoves ==
    ASSUME ScalarTypes, DataInv, LostInv, OrderInv, NEW t \in Tasks, SendPart(t)
    PROVE  LostInv' /\ OrderInv'
<1> DEFINE u == TaskUser[t]
           e == Head(out[t])
           c == Append(cache[u], e)
<1>1. /\ out[t] # <<>> /\ u \in Users /\ UNCHANGED <<hand, delivered>>
      /\ cache' = [cache EXCEPT ![u] = c] /\ out' = [out EXCEPT ![t] = Tail(out[t])]
      /\ stored' = stored \cup PartsIn(e)
  BY TaskFacts DEF SendPart
<1>2. out[t] \in Seq(Sound) /\ cache[u] \in Seq(Sound)
      /\ (\A i \in DOMAIN out[t] : out[t][i].of = <<t, tries[t]>>)
      /\ \A i \in DOMAIN cache[u] : TaskUser[cache[u][i].of[1]] = u
  BY <1>1 DEF DataInv
<1>3. 1 \in DOMAIN out[t] /\ e = out[t][1] /\ e \in Sound
  BY <1>1, <1>2, HeadHas
<1>4. /\ \A s \in Tasks : s # t => out'[s] = out[s]
      /\ out'[t] = Tail(out[t]) /\ cache'[u] = c
      /\ \A v \in Users : v # u => cache'[v] = cache[v]
  BY <1>1 DEF DataInv
<1>5. e.of \in Sendings /\ e.of[1] = t
  <2>1. e.of = <<t, tries[t]>>
    BY <1>2, <1>3
  <2> QED
    BY <1>3, <2>1, EntryFacts
<1> HIDE DEF e, c
<1>6. \A s, p : HasIn(c, s, p) <=> HasIn(cache[u], s, p) \/ Has(e, s, p)
  BY <1>2, <1>3, AppendHas DEF c
<1>7. \A s, p : HasIn(out[t], s, p) <=> Has(e, s, p) \/ HasIn(Tail(out[t]), s, p)
  BY <1>1, <1>2, HeadHas DEF e
<1>8. ASSUME NEW s \in Sendings, NEW p
      PROVE  /\ AtCache(s, p) => AtCache(s, p)'
             /\ AtHand(s, p)' <=> AtHand(s, p)
             /\ AtUser(s, p)' <=> AtUser(s, p)
  <2>1. AtHand(s, p)' <=> AtHand(s, p)
    BY <1>1 DEF AtHand
  <2>2. AtUser(s, p)' <=> AtUser(s, p)
    BY <1>1 DEF AtUser
  <2>3. AtCache(s, p) => AtCache(s, p)'
    BY <1>4, <1>6, SendingFacts DEF AtCache
  <2> QED
    BY <2>1, <2>2, <2>3
<1>9. LostInv'
  <2> SUFFICES ASSUME NEW s \in Sendings, NEW p \in {1, 2}, <<s, p>> \in stored'
               PROVE  (AtCache(s, p) \/ AtHand(s, p) \/ AtUser(s, p))'
    BY DEF LostInv
  <2>1. CASE <<s, p>> \in stored
    BY <1>8, <2>1 DEF LostInv
  <2>2. CASE <<s, p>> \in PartsIn(e)
    <3>1. Has(e, s, p)
      BY <1>3, <2>2, PartsFacts
    <3>2. s = e.of
      BY <3>1 DEF Has
    <3> QED
      BY <1>4, <1>5, <1>6, <3>1, <3>2 DEF AtCache
  <2> QED
    BY <1>1, <2>1, <2>2
<1>10. ASSUME NEW s \in Sendings, NEW i \in DOMAIN out'[s[1]],
              out'[s[1]][i].of = s, out'[s[1]][i].part = 2
       PROVE  (FirstBefore(out[s[1]], s, i) \/ AtCache(s, 1) \/ AtHand(s, 1) \/ AtUser(s, 1))'
  <2>1. CASE s[1] = t
    <3>1. i \in DOMAIN Tail(out[t]) /\ Tail(out[t])[i].of = s /\ Tail(out[t])[i].part = 2
      BY <1>4, <1>10, <2>1
    <3>2. /\ i + 1 \in DOMAIN out[t] /\ out[t][i + 1].of = s /\ out[t][i + 1].part = 2
          /\ FirstBefore(out[t], s, i + 1) => FirstBefore(Tail(out[t]), s, i) \/ Has(e, s, 1)
      BY <1>1, <1>2, <3>1, TailOrder DEF e
    <3>3. FirstBefore(out[t], s, i + 1) \/ AtCache(s, 1) \/ AtHand(s, 1) \/ AtUser(s, 1)
      BY <2>1, <3>2 DEF OrderInv
    <3>4. Has(e, s, 1) => AtCache(s, 1)'
      BY <1>4, <1>6, <2>1 DEF AtCache
    <3> QED
      BY <1>4, <1>8, <2>1, <3>2, <3>3, <3>4
  <2>2. CASE s[1] # t
    <3>1. out'[s[1]] = out[s[1]]
      BY <1>4, <2>2, SendingFacts
    <3>2. FirstBefore(out[s[1]], s, i) \/ AtCache(s, 1) \/ AtHand(s, 1) \/ AtUser(s, 1)
      BY <1>10, <3>1 DEF OrderInv
    <3> QED
      BY <1>8, <3>1, <3>2
  <2> QED
    BY <2>1, <2>2
<1>11. ASSUME NEW v \in Users, NEW i \in DOMAIN cache'[v], cache'[v][i].part = 2
       PROVE  (\/ FirstBefore(cache[v], cache[v][i].of, i)
               \/ AtHand(cache[v][i].of, 1) \/ AtUser(cache[v][i].of, 1))'
  <2>1. CASE v = u
    <3>1. i \in DOMAIN c /\ c[i].part = 2
      BY <1>4, <1>11, <2>1
    <3>2. CASE i \in DOMAIN cache[u] /\ c[i] = cache[u][i]
      <4>1. /\ cache[u][i].part = 2 /\ cache[u][i] \in Sound
            /\ c[i].of = cache[u][i].of
        BY <1>2, <3>1, <3>2
      <4>2. \/ FirstBefore(cache[u], c[i].of, i)
            \/ AtHand(c[i].of, 1) \/ AtUser(c[i].of, 1)
        BY <1>1, <3>2, <4>1 DEF OrderInv
      <4>3. FirstBefore(cache[u], c[i].of, i) => FirstBefore(c, c[i].of, i)
        <5>1. \A j \in DOMAIN cache[u] : j \in DOMAIN c /\ c[j] = cache[u][j]
          BY <1>2, <1>3 DEF c
        <5> QED
          BY <5>1 DEF FirstBefore
      <4>4. /\ AtHand(c[i].of, 1) => (\E m \in Msgs : Has(hand'[m], c[i].of, 1))
            /\ AtUser(c[i].of, 1) => (\E j \in DOMAIN delivered' : delivered'[j] = <<c[i].of, 1>>)
        BY <1>1 DEF AtHand, AtUser
      <4> QED
        BY <1>4, <2>1, <4>2, <4>3, <4>4 DEF AtHand, AtUser
    <3>3. CASE ~(i \in DOMAIN cache[u] /\ c[i] = cache[u][i])
      <4> DEFINE s == e.of
      <4>1. c[i] = e /\ (HasIn(cache[u], s, 1) => FirstBefore(c, s, i))
        BY <1>2, <1>3, <3>1, <3>3, AppendOrder DEF c
      <4>2. /\ 1 \in DOMAIN out[t] /\ out[t][1].of = s /\ out[t][1].part = 2
            /\ ~FirstBefore(out[t], s, 1)
        BY <1>1, <1>2, <1>3, <3>1, <4>1, TailOrder
      <4>3. s \in Sendings /\ s[1] = t
        BY <1>5
      <4> HIDE DEF s
      <4>4. AtCache(s, 1) \/ AtHand(s, 1) \/ AtUser(s, 1)
        BY <4>2, <4>3 DEF OrderInv
      <4>5. /\ AtCache(s, 1) => HasIn(cache[u], s, 1)
            /\ AtHand(s, 1) => \E m \in Msgs : Has(hand'[m], s, 1)
            /\ AtUser(s, 1) => \E j \in DOMAIN delivered' : delivered'[j] = <<s, 1>>
        BY <1>1, <4>3 DEF AtCache, AtHand, AtUser
      <4>6. cache'[v] = c /\ cache'[v][i].of = s
        BY <1>4, <2>1, <4>1 DEF s
      <4> QED
        BY <4>1, <4>4, <4>5, <4>6 DEF AtHand, AtUser
    <3> QED
      BY <3>2, <3>3
  <2>2. CASE v # u
    <3>1. cache'[v] = cache[v]
      BY <1>4, <2>2
    <3>2. \/ FirstBefore(cache[v], cache[v][i].of, i)
          \/ AtHand(cache[v][i].of, 1) \/ AtUser(cache[v][i].of, 1)
      BY <1>11, <3>1 DEF OrderInv
    <3> QED
      BY <1>1, <3>1, <3>2 DEF AtHand, AtUser
  <2> QED
    BY <2>1, <2>2
<1>12. ASSUME NEW m \in Msgs, hand'[m] # NoEntry, hand'[m].part = 2
       PROVE  AtUser(hand[m].of, 1)'
  BY <1>1, <1>12 DEF OrderInv, AtUser
<1>13. PartsInOrder'
  BY <1>1 DEF OrderInv, PartsInOrder
<1>14. OrderInv'
  BY <1>10, <1>11, <1>12, <1>13 DEF OrderInv
<1> QED
  BY <1>9, <1>14

\* A request takes the head of its user's list.
LEMMA PopMoves ==
    ASSUME ScalarTypes, DataInv, ExchangeInv, CacheInv, LostInv, OrderInv,
           NEW m \in Msgs, Pop(m)
    PROVE  LostInv' /\ OrderInv'
<1> DEFINE u == UserOf[m]
           e == Head(cache[u])
<1>1. /\ pc[m] = "pop" /\ u \in Users /\ cache[u] # <<>> /\ hand[m] = NoEntry
      /\ UNCHANGED <<out, delivered, stored>>
  BY TaskFacts DEF Pop, CacheInv, taskVars
<1>2. hand' = [hand EXCEPT ![m] = e] /\ cache' = [cache EXCEPT ![u] = Tail(cache[u])]
  BY <1>1 DEF Pop
<1>3. cache[u] \in Seq(Sound) /\ \A i \in DOMAIN cache[u] : TaskUser[cache[u][i].of[1]] = u
  BY <1>1 DEF DataInv
<1>4. 1 \in DOMAIN cache[u] /\ e = cache[u][1] /\ e \in Sound
  BY <1>1, <1>3, HeadHas
<1>5. /\ \A n \in Msgs : hand'[n] = IF n = m THEN e ELSE hand[n]
      /\ cache'[u] = Tail(cache[u])
      /\ \A v \in Users : v # u => cache'[v] = cache[v]
  BY <1>1, <1>2 DEF DataInv
<1>6. TaskUser[e.of[1]] = u /\ e.of \in Sendings
  BY <1>3, <1>4, EntryFacts
<1> HIDE DEF e
<1>7. \A s, p : HasIn(cache[u], s, p) <=> Has(e, s, p) \/ HasIn(Tail(cache[u]), s, p)
  BY <1>1, <1>3, HeadHas DEF e
<1>8. ASSUME NEW s \in Sendings, NEW p
      PROVE  /\ AtOut(s, p)' <=> AtOut(s, p)
             /\ AtCache(s, p) => AtCache(s, p)' \/ AtHand(s, p)'
             /\ AtHand(s, p) => AtHand(s, p)'
             /\ AtUser(s, p)' <=> AtUser(s, p)
  <2>1. AtOut(s, p)' <=> AtOut(s, p)
    BY <1>1 DEF AtOut
  <2>2. AtUser(s, p)' <=> AtUser(s, p)
    BY <1>1 DEF AtUser
  <2>3. AtHand(s, p) => AtHand(s, p)'
    BY <1>1, <1>5 DEF AtHand, Has
  <2>4. Has(e, s, p) => AtHand(s, p)'
    BY <1>5 DEF AtHand
  <2>5. AtCache(s, p) => AtCache(s, p)' \/ Has(e, s, p)
    BY <1>5, <1>7, SendingFacts DEF AtCache
  <2> QED
    BY <2>1, <2>2, <2>3, <2>4, <2>5
<1>9. LostInv'
  BY <1>1, <1>8 DEF LostInv
<1>10. ASSUME NEW s \in Sendings, NEW i \in DOMAIN out'[s[1]],
              out'[s[1]][i].of = s, out'[s[1]][i].part = 2
       PROVE  (FirstBefore(out[s[1]], s, i) \/ AtCache(s, 1) \/ AtHand(s, 1) \/ AtUser(s, 1))'
  <2>1. FirstBefore(out[s[1]], s, i) \/ AtCache(s, 1) \/ AtHand(s, 1) \/ AtUser(s, 1)
    BY <1>1, <1>10 DEF OrderInv
  <2> QED
    BY <1>1, <1>8, <2>1
<1>11. ASSUME NEW v \in Users, NEW i \in DOMAIN cache'[v], cache'[v][i].part = 2
       PROVE  (\/ FirstBefore(cache[v], cache[v][i].of, i)
               \/ AtHand(cache[v][i].of, 1) \/ AtUser(cache[v][i].of, 1))'
  <2>1. CASE v = u
    <3> DEFINE c == Tail(cache[u])
               t == c[i].of
    <3>1. i \in DOMAIN c /\ c[i].part = 2 /\ cache'[v] = c
      BY <1>5, <1>11, <2>1
    <3>2. /\ i + 1 \in DOMAIN cache[u] /\ c[i] = cache[u][i + 1]
          /\ FirstBefore(cache[u], t, i + 1) => FirstBefore(c, t, i) \/ Has(e, t, 1)
      BY <1>1, <1>3, <3>1, TailOrder DEF e
    <3> HIDE DEF c
    <3>3. FirstBefore(cache[u], t, i + 1) \/ AtHand(t, 1) \/ AtUser(t, 1)
      BY <1>1, <3>1, <3>2 DEF OrderInv
    <3>5. /\ AtHand(t, 1) => \E n \in Msgs : Has(hand'[n], t, 1)
          /\ AtUser(t, 1) => \E j \in DOMAIN delivered' : delivered'[j] = <<t, 1>>
          /\ Has(e, t, 1) => \E n \in Msgs : Has(hand'[n], t, 1)
      BY <1>1, <1>5 DEF AtHand, AtUser, Has
    <3> QED
      BY <3>1, <3>2, <3>3, <3>5 DEF AtHand, AtUser
  <2>2. CASE v # u
    <3>1. cache'[v] = cache[v]
      BY <1>5, <2>2
    <3>2. \/ FirstBefore(cache[v], cache[v][i].of, i)
          \/ AtHand(cache[v][i].of, 1) \/ AtUser(cache[v][i].of, 1)
      BY <1>11, <3>1 DEF OrderInv
    <3>4. /\ AtHand(cache[v][i].of, 1) => \E n \in Msgs : Has(hand'[n], cache[v][i].of, 1)
          /\ AtUser(cache[v][i].of, 1) =>
                \E j \in DOMAIN delivered' : delivered'[j] = <<cache[v][i].of, 1>>
      BY <1>1, <1>5 DEF AtHand, AtUser, Has
    <3> QED
      BY <3>1, <3>2, <3>4 DEF AtHand, AtUser
  <2> QED
    BY <2>1, <2>2
<1>12. ASSUME NEW n \in Msgs, hand'[n] # NoEntry, hand'[n].part = 2
       PROVE  AtUser(hand[n].of, 1)'
  <2>1. CASE n = m
    <3>1. cache[u][1].part = 2 /\ ~FirstBefore(cache[u], e.of, 1)
      BY <1>1, <1>3, <1>4, <1>5, <1>12, <2>1, TailOrder
    <3>2. AtHand(e.of, 1) \/ AtUser(e.of, 1)
      BY <1>1, <1>4, <3>1 DEF OrderInv
    <3>3. ASSUME NEW q \in Msgs, Has(hand[q], e.of, 1)
          PROVE  FALSE
      <4>1. hand[q] # NoEntry /\ hand[q].of = e.of
        BY <3>3 DEF Has
      <4>2. UserOf[q] = u /\ pc[q] \in {"test", "delete", "reply"}
        BY <1>6, <4>1 DEF DataInv, CacheInv
      <4>3. q = m
        BY <1>1, <4>2, OneTurn
      <4> QED
        BY <1>1, <4>2, <4>3
    <3>4. AtUser(e.of, 1)
      BY <3>2, <3>3 DEF AtHand
    <3>5. hand'[n] = e
      BY <1>5, <2>1
    <3> QED
      BY <1>1, <3>4, <3>5 DEF AtUser
  <2>2. CASE n # m
    BY <1>1, <1>5, <1>12, <2>2 DEF OrderInv, AtUser
  <2> QED
    BY <2>1, <2>2
<1>13. PartsInOrder'
  BY <1>1 DEF OrderInv, PartsInOrder
<1>14. OrderInv'
  BY <1>10, <1>11, <1>12, <1>13 DEF OrderInv
<1> QED
  BY <1>9, <1>14

\* A response carries the entry, or its first part.
LEMMA ReplyMoves ==
    ASSUME ScalarTypes, DataInv, LostInv, OrderInv, NEW m \in Msgs, Reply(m)
    PROVE  LostInv' /\ OrderInv'
<1> DEFINE u == UserOf[m]
           e == hand[m]
           f == Entry(e.of, 2, "whole")
           c == Append(cache[u], f)
           d == <<e.of, e.part>>
<1>1. /\ pc[m] = "reply" /\ u \in Users /\ UNCHANGED <<out, stored>>
      /\ hand' = [hand EXCEPT ![m] = NoEntry]
      /\ delivered' = IF e.form = "video" THEN delivered ELSE Append(delivered, d)
      /\ cache' = IF e.form = "long" THEN [cache EXCEPT ![u] = c] ELSE cache
  BY TaskFacts DEF Reply, taskVars
<1>2. e \in Sound /\ e # NoEntry /\ TaskUser[e.of[1]] = u
  BY <1>1 DEF DataInv
<1>3. /\ e.of \in Sendings /\ e.part \in {1, 2} /\ (e.form # "whole" => e.part = 1)
      /\ f \in Sound /\ f.of = e.of /\ f.part = 2 /\ f.form = "whole" /\ f # NoEntry
  <2>1. e.of \in Sendings /\ e.part \in {1, 2} /\ (e.form # "whole" => e.part = 1)
    BY <1>2, EntryFacts
  <2> QED
    BY <2>1, RestFacts
<1>4. cache[u] \in Seq(Sound) /\ delivered \in Seq(Sendings \X {1, 2}) /\ d \in Sendings \X {1, 2}
  BY <1>1, <1>3 DEF DataInv
<1>5. /\ \A n \in Msgs : hand'[n] = IF n = m THEN NoEntry ELSE hand[n]
      /\ e.form = "long" => cache'[u] = c
      /\ e.form # "long" => cache'[u] = cache[u]
      /\ \A v \in Users : v # u => cache'[v] = cache[v]
  BY <1>1 DEF DataInv
<1>6. /\ DOMAIN delivered = 1..Len(delivered) /\ Len(delivered) \in Nat
      /\ \A i \in DOMAIN delivered : i \in DOMAIN delivered' /\ delivered'[i] = delivered[i]
      /\ \A i \in DOMAIN delivered' : i \in DOMAIN delivered
                                      \/ (i = Len(delivered) + 1 /\ delivered'[i] = d
                                          /\ e.form # "video")
      /\ e.form # "video" => \E i \in DOMAIN delivered' : delivered'[i] = d
  <2> HIDE DEF d
  <2>1. DOMAIN delivered = 1..Len(delivered) /\ Len(delivered) \in Nat
    BY <1>4
  <2>2. CASE e.form = "video"
    BY <1>1, <2>1, <2>2
  <2>3. CASE e.form # "video"
    <3>1. /\ DOMAIN delivered' = 1..(Len(delivered) + 1)
          /\ delivered'[Len(delivered) + 1] = d
          /\ \A i \in 1..Len(delivered) : delivered'[i] = delivered[i]
      BY <1>1, <1>4, <2>3
    <3> QED
      BY <2>1, <2>3, <3>1
  <2> QED
    BY <2>2, <2>3
<1>7. d = <<e.of, e.part>>
  OBVIOUS
<1> HIDE DEF e, f, c, d
<1>8. \A s, p : HasIn(c, s, p) <=> HasIn(cache[u], s, p) \/ Has(f, s, p)
  BY <1>3, <1>4, AppendHas DEF c
<1>9. \A s, p : AtUser(s, p) => AtUser(s, p)'
  BY <1>6 DEF AtUser
<1>10. \A s \in Sendings : \A p : AtCache(s, p) => AtCache(s, p)'
  <2> SUFFICES ASSUME NEW s \in Sendings, NEW p, HasIn(cache[TaskUser[s[1]]], s, p)
               PROVE  HasIn(cache'[TaskUser[s[1]]], s, p)
    BY DEF AtCache
  <2>1. TaskUser[s[1]] \in Users
    BY SendingFacts
  <2> QED
    BY <1>5, <1>8, <2>1
<1>11. ASSUME NEW s \in Sendings, NEW p \in {1, 2}
       PROVE  AtHand(s, p) => AtHand(s, p)' \/ AtCache(s, p)' \/ AtUser(s, p)'
  <2>1. ASSUME NEW n \in Msgs, n # m, Has(hand[n], s, p)
        PROVE  AtHand(s, p)'
    BY <1>5, <2>1 DEF AtHand
  <2>2. ASSUME Has(e, s, p), p = e.part
        PROVE  AtUser(s, p)'
    <3>1. s = e.of /\ e.form # "video"
      BY <2>2 DEF Has
    <3> QED
      BY <1>6, <1>7, <2>2, <3>1 DEF AtUser
  <2>3. ASSUME Has(e, s, p), p # e.part
        PROVE  AtCache(s, p)'
    <3>1. s = e.of /\ e.form = "long" /\ p = 2
      BY <1>3, <2>3 DEF Has
    <3>2. Has(f, s, p)
      BY <1>3, <3>1 DEF Has
    <3>3. cache'[TaskUser[s[1]]] = c
      BY <1>2, <1>5, <3>1
    <3> QED
      BY <1>8, <3>2, <3>3 DEF AtCache
  <2> QED
    BY <2>1, <2>2, <2>3 DEF AtHand, e
<1>12. ASSUME NEW s \in Sendings
       PROVE  AtHand(s, 1) => AtHand(s, 1)' \/ AtUser(s, 1)'
  <2>1. ASSUME NEW n \in Msgs, n # m, Has(hand[n], s, 1)
        PROVE  AtHand(s, 1)'
    BY <1>5, <2>1 DEF AtHand
  <2>2. ASSUME Has(e, s, 1)
        PROVE  AtUser(s, 1)'
    <3>1. s = e.of /\ e.part = 1 /\ e.form # "video"
      BY <1>3, <2>2 DEF Has
    <3> QED
      BY <1>6, <1>7, <3>1 DEF AtUser
  <2> QED
    BY <2>1, <2>2 DEF AtHand, e
<1>13. LostInv'
  BY <1>1, <1>9, <1>10, <1>11 DEF LostInv
<1>14. ASSUME NEW s \in Sendings, NEW i \in DOMAIN out'[s[1]],
              out'[s[1]][i].of = s, out'[s[1]][i].part = 2
       PROVE  (FirstBefore(out[s[1]], s, i) \/ AtCache(s, 1) \/ AtHand(s, 1) \/ AtUser(s, 1))'
  <2>1. FirstBefore(out[s[1]], s, i) \/ AtCache(s, 1) \/ AtHand(s, 1) \/ AtUser(s, 1)
    BY <1>1, <1>14 DEF OrderInv
  <2> QED
    BY <1>1, <1>9, <1>10, <1>12, <2>1
<1>15. ASSUME NEW v \in Users, NEW i \in DOMAIN cache'[v], cache'[v][i].part = 2
       PROVE  (\/ FirstBefore(cache[v], cache[v][i].of, i)
               \/ AtHand(cache[v][i].of, 1) \/ AtUser(cache[v][i].of, 1))'
  <2> DEFINE g == cache'[v][i]
  <2>1. CASE i \in DOMAIN cache[v] /\ g = cache[v][i]
             /\ (FirstBefore(cache[v], g.of, i) => FirstBefore(cache'[v], g.of, i))
    <3>1. \/ FirstBefore(cache[v], g.of, i)
          \/ AtHand(g.of, 1) \/ AtUser(g.of, 1)
      BY <1>15, <2>1 DEF OrderInv
    <3>2. g.of \in Sendings
      <4>1. cache[v] \in Seq(Sound)
        BY DEF DataInv
      <4>2. g \in Sound
        BY <2>1, <4>1
      <4> QED
        BY <4>2, EntryFacts
    <3> HIDE DEF g
    <3>3. PICK t \in Sendings : t = g.of
      BY <3>2
    <3>4. FirstBefore(cache'[v], t, i) \/ AtHand(t, 1)' \/ AtUser(t, 1)'
      BY <1>9, <1>12, <2>1, <3>1, <3>3
    <3> QED
      BY <3>3, <3>4 DEF g, AtHand, AtUser
  <2>2. CASE v = u /\ e.form = "long" /\ g = f
    <3>1. e.part = 1 /\ g.of = e.of
      BY <1>3, <2>2
    <3>2. \E j \in DOMAIN delivered' : delivered'[j] = <<g.of, 1>>
      BY <1>6, <1>7, <2>2, <3>1
    <3> QED
      BY <3>2 DEF AtUser
  <2>3. CASE v = u /\ e.form = "long"
    <3>1. cache'[v] = c /\ i \in DOMAIN c
      BY <1>5, <1>15, <2>3
    <3>2. \/ /\ i \in DOMAIN cache[u] /\ c[i] = cache[u][i]
             /\ FirstBefore(cache[u], g.of, i) => FirstBefore(c, g.of, i)
          \/ c[i] = f
      BY <1>3, <1>4, <3>1, AppendOrder DEF c
    <3> QED
      BY <2>1, <2>2, <2>3, <3>1, <3>2
  <2>4. CASE ~(v = u /\ e.form = "long")
    <3>1. cache'[v] = cache[v]
      BY <1>5, <2>4
    <3> QED
      BY <1>15, <2>1, <3>1
  <2> QED
    BY <2>3, <2>4
<1>16. ASSUME NEW n \in Msgs, hand'[n] # NoEntry, hand'[n].part = 2
       PROVE  AtUser(hand[n].of, 1)'
  <2>1. hand'[n] = hand[n]
    BY <1>5, <1>16
  <2>2. AtUser(hand[n].of, 1)
    BY <1>16, <2>1 DEF OrderInv
  <2> QED
    BY <1>6, <2>1, <2>2 DEF AtUser
<1>17. PartsInOrder'
  <2> SUFFICES ASSUME NEW i \in DOMAIN delivered', delivered'[i][2] = 2
               PROVE  \E j \in 1..(i - 1) : delivered'[j] = <<delivered'[i][1], 1>>
    BY DEF PartsInOrder
  <2>1. CASE i \in DOMAIN delivered
    <3>1. PICK j \in 1..(i - 1) : delivered[j] = <<delivered[i][1], 1>>
      BY <1>6, <2>1 DEF OrderInv, PartsInOrder
    <3>2. j \in DOMAIN delivered
      BY <1>6, <2>1
    <3> QED
      BY <1>6, <2>1, <3>1, <3>2
  <2>2. CASE i = Len(delivered) + 1 /\ delivered'[i] = d
    <3>1. e.part = 2
      BY <1>7, <2>2
    <3>2. AtUser(e.of, 1)
      BY <1>2, <3>1 DEF OrderInv, e
    <3>3. PICK j \in DOMAIN delivered : delivered[j] = <<e.of, 1>>
      BY <3>2 DEF AtUser
    <3>4. j \in 1..(i - 1) /\ delivered'[j] = <<e.of, 1>>
      BY <1>6, <2>2, <3>3
    <3> QED
      BY <1>7, <2>2, <3>4
  <2> QED
    BY <1>6, <2>1, <2>2
<1>18. OrderInv'
  BY <1>14, <1>15, <1>16, <1>17 DEF OrderInv
<1> QED
  BY <1>13, <1>18

\* Every step keeps the parts and their order.
LEMMA LostOrderKept ==
    ASSUME ScalarTypes, DataInv, ExchangeInv, CacheInv, LostInv, OrderInv, [Next]_vars
    PROVE  LostInv' /\ OrderInv'
<1>1. CASE UNCHANGED Moved
  <2>1. UNCHANGED <<cache, out, hand, delivered, stored>>
    BY <1>1 DEF Moved
  <2>2. \A t, p : /\ AtOut(t, p)' <=> AtOut(t, p)
                  /\ AtCache(t, p)' <=> AtCache(t, p)
                  /\ AtHand(t, p)' <=> AtHand(t, p)
                  /\ AtUser(t, p)' <=> AtUser(t, p)
    BY <2>1 DEF AtOut, AtCache, AtHand, AtUser
  <2>3. LostInv'
    BY <2>1, <2>2 DEF LostInv
  <2>4. OrderInv'
    BY <2>1 DEF OrderInv, PartsInOrder, AtOut, AtCache, AtHand, AtUser
  <2> QED
    BY <2>3, <2>4
<1>2. CASE \E t \in Tasks : StartTask(t) \/ SendPart(t) \/ SendLess(t) \/ SendAgain(t)
  BY <1>2, StartMoves, SendMoves, LessMoves, AgainMoves
<1>3. CASE \E m \in Msgs : Pop(m) \/ Reply(m)
  BY <1>3, PopMoves, ReplyMoves
<1> QED
  BY <1>1, <1>2, <1>3, Movers

\* Nothing has been said yet.
LEMMA PatientInit ==
    ASSUME Init
    PROVE  PatientInv
<1>1. /\ \A m \in Msgs : pc[m] = "unsent" /\ hand[m] = NoEntry
      /\ \A t \in Tasks : phase[t] = "new" /\ out[t] = <<>>
      /\ \A u \in Users : cache[u] = <<>>
      /\ cached = {} /\ delivered = <<>> /\ stored = {}
  BY DEF Init
<1>2. DOMAIN <<>> = {}
  OBVIOUS
<1>3. ExchangeInv
  BY <1>1 DEF ExchangeInv
<1>4. LiveInv
  BY <1>1 DEF LiveInv, Live, Acting
<1>5. CacheInv
  BY <1>1 DEF CacheInv, NoOrphanEntry
<1>6. LostInv
  BY <1>1 DEF LostInv
<1>7. OrderInv
  BY <1>1, <1>2, SendingFacts DEF OrderInv, PartsInOrder
<1> QED
  BY <1>3, <1>4, <1>5, <1>6, <1>7 DEF PatientInv

\* Every step keeps the invariant of patient users.
LEMMA PatientStep ==
    ASSUME Patient, IInv, PatientInv, [Next]_vars
    PROVE  PatientInv'
<1> USE DEF IInv, PatientInv
<1>1. ExchangeInv'
  BY ExchangeKept
<1>2. LiveInv'
  BY LiveKept
<1>3. CacheInv'
  BY CacheKept
<1>4. LostInv' /\ OrderInv'
  BY LostOrderKept
<1> QED
  BY <1>1, <1>2, <1>3, <1>4

\* With patient users the requests of an exchange and the worker of its task
\* take turns: what a request has found out about cache_dict holds until it
\* acts, and every part that was cached is somewhere, in order.
THEOREM PatientInvariance ==
    ASSUME Patient
    PROVE  Spec => []PatientInv
<1>1. Init => PatientInv
  BY PatientInit
<1>2. IInv /\ PatientInv /\ [Next]_vars => PatientInv'
  BY PatientStep
<1> QED
  BY <1>1, <1>2, Invariance, PTL DEF Spec

\* A request of a patient user deletes no entry, and splits no text, at the
\* cost of a part another thread has cached (passive_reply.py 135-151): each is
\* kept until it is delivered, unless it is a video.
THEOREM NothingLost ==
    ASSUME Patient
    PROVE  Spec => []NoReplyLost
<1>1. ASSUME IInv, PatientInv
      PROVE  NoReplyLost
  <2> SUFFICES ASSUME NEW x \in stored
               PROVE  Kept(x) \/ \E i \in DOMAIN delivered : delivered[i] = x
    BY DEF NoReplyLost
  <2>1. PICK s \in Sendings, p \in {1, 2} : x = <<s, p>>
    BY <1>1 DEF IInv, DataInv
  <2>2. AtCache(s, p) \/ AtHand(s, p) \/ AtUser(s, p)
    BY <1>1, <2>1 DEF PatientInv, LostInv
  <2>3. x[1] = s /\ TaskUser[s[1]] \in Users
    BY <2>1, SendingFacts
  <2>4. CASE AtCache(s, p)
    <3>1. PICK i \in DOMAIN cache[TaskUser[s[1]]] : Has(cache[TaskUser[s[1]]][i], s, p)
      BY <2>4 DEF AtCache, HasIn
    <3>2. cache[TaskUser[s[1]]][i] \in Sound
      BY <1>1, <2>3 DEF IInv, DataInv
    <3>3. x \in PartsIn(cache[TaskUser[s[1]]][i])
      BY <2>1, <3>1, <3>2, PartsFacts
    <3> QED
      BY <2>3, <3>3 DEF Kept
  <2>5. CASE AtHand(s, p)
    <3>1. PICK m \in Msgs : Has(hand[m], s, p)
      BY <2>5 DEF AtHand
    <3>2. hand[m] \in Sound \cup {NoEntry}
      BY <1>1 DEF IInv, DataInv
    <3>3. x \in PartsIn(hand[m])
      BY <2>1, <3>1, <3>2, PartsFacts
    <3> QED
      BY <3>3 DEF Kept
  <2>6. CASE AtUser(s, p)
    BY <2>1, <2>6 DEF AtUser
  <2> QED
    BY <2>2, <2>4, <2>5, <2>6
<1> QED
  BY <1>1, Invariance, PatientInvariance, PTL

\* The two parts of what a sending cached reach a patient user in order,
\* whichever requests collect them (134, 151).
THEOREM ReplyInOrder ==
    ASSUME Patient
    PROVE  Spec => []PartsInOrder
<1>1. PatientInv => PartsInOrder
  BY DEF PatientInv, OrderInv
<1> QED
  BY <1>1, PatientInvariance, PTL

\* No key of cache_dict is left behind with an empty list: the next message of
\* a patient user is handled (135).
THEOREM NoOrphan ==
    ASSUME Patient
    PROVE  Spec => []NoOrphanEntry
<1>1. PatientInv => NoOrphanEntry
  BY DEF PatientInv, CacheInv
<1> QED
  BY <1>1, PatientInvariance, PTL

\* A patient user gets a bare "success" only when nothing is cached (129, 137),
\* or in the place of a video, which was popped and is gone (134, 208).
THEOREM SuccessMeant ==
    ASSUME Patient
    PROVE  Spec => SuccessMeansNothing
<1>1. ASSUME IInv, PatientInv, [Next]_vars, NEW m \in Msgs,
             answer[m] = "none", answer'[m] = "success"
      PROVE  IF hand[m] = NoEntry THEN cache[UserOf[m]] = <<>> ELSE hand[m].form = "video"
  <2> USE DEF Respond, Goto, taskVars
  <2>1. answer \in [Msgs -> {"none", "hint", "thinking", "success", "error", "reply"}]
    BY <1>1 DEF IInv, ScalarTypes
  <2>2. ASSUME NEW n \in Msgs, FindRunning(n) \/ Pop(n) \/ Reply(n)
        PROVE  n = m
    BY <1>1, <2>1, <2>2 DEF FindRunning, Pop, Reply
  <2>3. CASE FindRunning(m)
    <3>1. pc[m] = "missing" /\ UserOf[m] \in Users
      BY <2>3, TaskFacts DEF FindRunning
    <3> QED
      BY <1>1, <3>1 DEF PatientInv, CacheInv
  <2>4. CASE Pop(m)
    <3>1. pc[m] = "pop" /\ cache[UserOf[m]] = <<>>
      BY <1>1, <2>4 DEF Pop
    <3> QED
      BY <1>1, <3>1 DEF PatientInv, CacheInv
  <2>5. CASE Reply(m)
    <3>1. pc[m] = "reply" /\ hand[m] # NoEntry
      BY <1>1, <2>5 DEF Reply, IInv, DataInv
    <3>2. hand[m].form = "video"
      BY <1>1, <2>1, <2>5 DEF Reply
    <3> QED
      BY <3>1, <3>2
  <2>6. ASSUME NEW n \in Msgs, Write(n) \/ Retry(n) \/ Request(n),
               ~FindRunning(n), ~Pop(n), ~Reply(n)
        PROVE  FALSE
    <3>1. answer' = answer \/ \E a \in {"hint", "thinking", "error"} :
                                  answer' = [answer EXCEPT ![n] = a]
      BY <2>6 DEF Write, Retry, Request, CheckCached, CheckRunning, Begin, Count,
                  TimeOut, Ready, FindCached, TestEmpty, DeleteEntry
    <3> QED
      BY <1>1, <2>1, <3>1
  <2>7. ASSUME NEW t \in Tasks, Task(t) \/ Drop(t)
        PROVE  FALSE
    BY <1>1, <2>7 DEF Task, StartTask, SendPart, SendLess, SendAgain, Succeed, Fail, Drop
  <2>8. CASE UNCHANGED vars
    BY <1>1, <2>8 DEF vars
  <2> QED
    BY <1>1, <2>2, <2>3, <2>4, <2>5, <2>6, <2>7, <2>8 DEF Next, Request
<1>2. IInv /\ PatientInv /\ [Next]_vars =>
        [\A m \in Msgs : answer[m] = "none" /\ answer'[m] = "success"
             => IF hand[m] = NoEntry THEN cache[UserOf[m]] = <<>>
                ELSE hand[m].form = "video"]_vars
  BY <1>1
<1> QED
  BY <1>2, Invariance, PatientInvariance, PTL DEF Spec, SuccessMeansNothing

-----------------------------------------------------------------------------
(* A channel whose handlers do not raise and whose dispatcher gives up no  *)
(* task: users may be as impatient as they like.                           *)

Reliable == ~MayDrop /\ \A m \in Msgs : "raise" \notin Replies[m]

\* No task fails: the one that ends takes its user out of running, and the
\* request that begins one puts the user there.
RunningInv ==
    /\ \A t \in Tasks : reply[t] # "raise"
    /\ RunningMeansTask

\* Every step keeps it.
LEMMA RunningKept ==
    ASSUME Reliable, ScalarTypes, CountInv, RunningInv, [Next]_vars
    PROVE  RunningInv'
<1> USE DEF RunningInv
<1>1. ASSUME NEW m \in Msgs, Begin(m)
      PROVE  RunningInv'
  <2>1. pc[m] = "begin" /\ reply' = reply
    BY <1>1 DEF Begin
  <2>2. CASE m \in Unsupported
    BY <1>1, <2>1, <2>2 DEF Begin, RunningMeansTask, Busy
  <2>3. CASE m \notin Unsupported
    <3> DEFINE t == <<m, attempt[m]>>
    <3>1. running' = running \cup {UserOf[m]} /\ phase' = [phase EXCEPT ![t] = "waiting"]
      BY <1>1, <2>3 DEF Begin
    <3>2. t \in Tasks /\ TaskUser[t] = UserOf[m]
      BY <2>1, TaskFacts DEF CountInv, ScalarTypes, Attempts
    <3> HIDE DEF t
    <3>3. \A s \in Tasks : phase'[s] = IF s = t THEN "waiting" ELSE phase[s]
      BY <3>1 DEF ScalarTypes
    <3>4. RunningMeansTask'
      BY <3>1, <3>2, <3>3 DEF RunningMeansTask, Busy
    <3> QED
      BY <2>1, <3>4
  <2> QED
    BY <2>2, <2>3
<1>2. ASSUME NEW m \in Msgs, Write(m) \/ Retry(m) \/ Request(m), ~Begin(m)
      PROVE  RunningInv'
  <2>1. UNCHANGED <<running, phase, reply>>
    BY <1>2 DEF Write, Retry, Request, CheckCached, CheckRunning, Count,
                TimeOut, Ready,
                FindCached, FindRunning, Pop, TestEmpty, DeleteEntry, Reply, taskVars
  <2> QED
    BY <2>1 DEF RunningMeansTask, Busy
<1>3. ASSUME NEW t \in Tasks, StartTask(t)
      PROVE  RunningInv'
  <2>1. PICK k \in Replies[t[1]] : reply' = [reply EXCEPT ![t] = k]
    BY <1>3 DEF StartTask
  <2>2. \A s \in Tasks : reply'[s] # "raise"
    BY <2>1, TaskFacts DEF Reliable, ScalarTypes
  <2>3. running' = running /\ phase' = [phase EXCEPT ![t] = "active"]
    BY <1>3 DEF StartTask
  <2>4. \A s \in Tasks : phase'[s] = IF s = t THEN "active" ELSE phase[s]
    BY <2>3 DEF ScalarTypes
  <2>5. RunningMeansTask'
    BY <2>3, <2>4 DEF RunningMeansTask, Busy
  <2> QED
    BY <2>2, <2>5
<1>4. ASSUME NEW t \in Tasks, SendPart(t) \/ SendLess(t) \/ SendAgain(t)
      PROVE  RunningInv'
  BY <1>4 DEF SendPart, SendLess, SendAgain, RunningMeansTask, Busy
<1>5. ASSUME NEW t \in Tasks, Succeed(t)
      PROVE  RunningInv'
  <2>1. /\ running' = running \ {TaskUser[t]} /\ reply' = reply
        /\ phase' = [phase EXCEPT ![t] = "over"]
    BY <1>5 DEF Succeed, EndTask
  <2>2. \A s \in Tasks : s # t => phase'[s] = phase[s]
    BY <2>1 DEF ScalarTypes
  <2>3. RunningMeansTask'
    BY <2>1, <2>2 DEF RunningMeansTask, Busy
  <2> QED
    BY <2>1, <2>3
<1>6. ASSUME NEW t \in Tasks
      PROVE  ~Fail(t) /\ ~Drop(t)
  BY DEF Fail, Drop, Reliable
<1>7. CASE UNCHANGED vars
  BY <1>7 DEF vars, taskVars, RunningMeansTask, Busy
<1> QED
  BY <1>1, <1>2, <1>3, <1>4, <1>5, <1>6, <1>7 DEF Next, Task

\* Where no handler raises and no task is given up, running records what it
\* says: a user in running has a message that waits or is being processed
\* (wechatmp_channel.py 51), however impatient the users are.
THEOREM RunningIsReal ==
    ASSUME Reliable
    PROVE  Spec => []RunningMeansTask
<1>1. Init => RunningInv
  BY DEF Init, RunningInv, RunningMeansTask, Busy
<1>2. IInv /\ RunningInv /\ [Next]_vars => RunningInv'
  BY RunningKept DEF IInv
<1>3. RunningInv => RunningMeansTask
  BY DEF RunningInv
<1> QED
  BY <1>1, <1>2, <1>3, Invariance, PTL DEF Spec

-----------------------------------------------------------------------------
(* Who may be left in running.                                             *)

\* Whatever users write, handlers come to and the dispatcher gives up: a user is
\* left in running without a task, which blocks all their later messages, only
\* by a task given up before it began, or by a handler that raises while
\* something is cached for the user (wechatmp_channel.py 51, _fail_callback).
THEOREM StrandedExplained == Spec => StrandedOnly
<1>1. ASSUME IInv, [Next]_vars, NEW u \in Users, Stranded(u)', ~Stranded(u)
      PROVE  \E t \in Tasks : TaskUser[t] = u /\ (Drop(t) \/ (Fail(t) /\ u \in cached))
  <2>1. phase \in [Tasks -> {"new", "waiting", "active", "over"}]
    BY <1>1 DEF IInv, ScalarTypes
  <2>2. ASSUME UNCHANGED <<running, phase>>
        PROVE  FALSE
    BY <1>1, <2>2 DEF Stranded, Busy
  <2>3. ASSUME NEW m \in Msgs, Begin(m), m \notin Unsupported
        PROVE  FALSE
    <3> DEFINE t == <<m, attempt[m]>>
    <3>1. /\ running' = running \cup {UserOf[m]}
          /\ phase' = [phase EXCEPT ![t] = "waiting"]
      BY <2>3 DEF Begin
    <3>2. t \in Tasks /\ TaskUser[t] = UserOf[m]
      BY <1>1, <2>3, TaskFacts DEF Begin, IInv, CountInv, ScalarTypes, Attempts
    <3> HIDE DEF t
    <3>3. \A s \in Tasks : phase'[s] = IF s = t THEN "waiting" ELSE phase[s]
      BY <2>1, <3>1
    <3> QED
      BY <1>1, <3>1, <3>2, <3>3 DEF Stranded, Busy
  <2>4. ASSUME NEW m \in Msgs, Write(m) \/ Retry(m) \/ Request(m),
               ~(Begin(m) /\ m \notin Unsupported)
        PROVE  UNCHANGED <<running, phase>>
    BY <2>4 DEF Write, Retry, Request, CheckCached, CheckRunning, Begin, Count, TimeOut,
                Ready, FindCached, FindRunning, Pop, TestEmpty, DeleteEntry, Reply, taskVars
  <2>5. ASSUME NEW t \in Tasks, StartTask(t)
        PROVE  FALSE
    <3>1. running' = running /\ \A s \in Tasks : s # t => phase'[s] = phase[s]
      BY <2>1, <2>5 DEF StartTask
    <3>2. phase[t] = "waiting" /\ phase'[t] = "active"
      BY <2>1, <2>5 DEF StartTask
    <3> QED
      BY <1>1, <3>1, <3>2 DEF Stranded, Busy
  <2>6. ASSUME NEW t \in Tasks, SendPart(t) \/ SendLess(t) \/ SendAgain(t)
        PROVE  UNCHANGED <<running, phase>>
    BY <2>6 DEF SendPart, SendLess, SendAgain
  <2>7. ASSUME NEW t \in Tasks, Succeed(t) \/ Fail(t) \/ Drop(t)
        PROVE  TaskUser[t] = u /\ (Drop(t) \/ (Fail(t) /\ u \in cached))
    <3>1. running' \subseteq running /\ phase' = [phase EXCEPT ![t] = "over"]
      BY <2>7 DEF Succeed, Fail, Drop, EndTask
    <3>2. \A s \in Tasks : s # t => phase'[s] = phase[s]
      BY <2>1, <3>1
    <3>3. TaskUser[t] = u
      BY <1>1, <3>1, <3>2 DEF Stranded, Busy
    <3>4. u \in running'
      BY <1>1 DEF Stranded
    <3>5. ~Succeed(t)
      BY <3>3, <3>4 DEF Succeed
    <3>6. Fail(t) => u \in cached
      BY <3>3, <3>4 DEF Fail
    <3> QED
      BY <2>7, <3>3, <3>5, <3>6
  <2> QED
    BY <1>1, <2>2, <2>3, <2>4, <2>5, <2>6, <2>7 DEF Next, Task, vars, taskVars
<1>2. IInv /\ [Next]_vars =>
        [\A u \in Users : Stranded(u)' /\ ~Stranded(u) =>
           \E t \in Tasks : TaskUser[t] = u /\ (Drop(t) \/ (Fail(t) /\ u \in cached))]_vars
  BY <1>1
<1> QED
  BY <1>2, Invariance, PTL DEF Spec, StrandedOnly

=============================================================================
