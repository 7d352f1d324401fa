--------------------------- MODULE ZftAdmin_proofs ---------------------------
(***************************************************************************)
(* The safety properties of ZftAdmin for every number of pages, items,     *)
(* rows and loads: its types, that a list agrees with what its page did,   *)
(* that a page never sends again what it knows to be in the table, and     *)
(* that no typed item is cleared unsaved.                                  *)
(***************************************************************************)
EXTENDS ZftAdmin, FiniteSetTheorems, SequenceTheorems, TLAPS

-----------------------------------------------------------------------------
(* The inductive invariant.                                                *)

\* An item in the fields of a page, or on its way from there, was typed on it.
TypedThere(a, i) == i \in Items => TypedOn[i] = a /\ i \notin untyped

PostOf(a) ==
    /\ TypedThere(a, fields[a]) /\ TypedThere(a, post[a].item)
    /\ post[a].stage = "idle" => post[a] = Idle
    /\ post[a].stage # "idle" => post[a].item \in Items
    /\ post[a].stage # "added" => post[a].row = 0
    /\ post[a].stage = "added" => /\ post[a].row \in 1..Len(made)
                                 /\ made[post[a].row] = post[a].item

PostInv ==
    /\ \A a \in Pages : PostOf(a)
    /\ \A r \in 1..Len(made) : made[r] \in Items \ untyped
    /\ \A i \in Items : adrift[i] > 0 => i \notin untyped

\* A page that has heard of its row holds the item no more.
HeardOf(r, a) ==
    r \notin unheard /\ TypedOn[made[r]] = a =>
        \/ post[a].row = r
        \/ fields[a] # made[r] /\ post[a].item # made[r]

HeardInv == \A r \in 1..Len(made) : \A a \in Pages : HeardOf(r, a)

\* Lists and deletions are of rows that were inserted; a deleted row is gone.
RowsOf(a) ==
    /\ knowledge[a] \subseteq 1..Len(made)
    /\ \A n \in 1..Len(loads[a]) : loads[a][n].rows \subseteq 1..Len(made)
    /\ \A r \in Rows :
        /\ deletion[a][r] # "none" => r \in 1..Len(made)
        /\ deletion[a][r] \in {"deleted", "over"} => r \notin table

RowsInv == \A a \in Pages : RowsOf(a)

\* What ListReflectsOwnWrites says of the list R of a page.
Agrees(a, R) ==
    /\ \A r \in Rows : deletion[a][r] = "over" => r \notin R
    /\ \A r \in 1..Len(made) :
        /\ TypedOn[made[r]] = a /\ r \notin unheard /\ post[a].row # r
        /\ InTableAmongNewest(r)
        => r \in R

\* The newest list agrees from when it was read.
ListOf(a) ==
    /\ shown[a] = Len(loads[a]) => Agrees(a, knowledge[a])
    /\ \A n \in 1..Len(loads[a]) :
        n = Len(loads[a]) /\ loads[a][n].stage = "served"
            => Agrees(a, loads[a][n].rows)

ListInv == \A a \in Pages : ListOf(a)

IInv ==
    /\ TypeOK
    /\ PostInv
    /\ HeardInv
    /\ TwiceOnlyUnheard
    /\ RowsInv
    /\ ListInv

-----------------------------------------------------------------------------
\* Rows inserted later only push a row out of the newest.
LEMMA NewerRows ==
  ASSUME NEW m \in Nat, NEW n \in Nat, m <= n, NEW r \in Nat, NEW S,
         S \subseteq 1..m
  PROVE  /\ IsFiniteSet(S)
         /\ Cardinality({s \in 1..n : s > r}) \in Nat
         /\ Cardinality({s \in S : s > r}) \in Nat
         /\ Cardinality({s \in S : s > r}) <= Cardinality({s \in 1..n : s > r})
  <1>1. IsFiniteSet(1..n)
    BY FS_Interval
  <1>2. IsFiniteSet({s \in 1..n : s > r})
    BY <1>1, FS_Subset
  <1>3. 1..m \subseteq 1..n
    OBVIOUS
  <1>4. S \subseteq 1..n /\ {s \in S : s > r} \subseteq {s \in 1..n : s > r}
    BY <1>3, Zenon
  <1>5. IsFiniteSet(S)
    BY <1>1, <1>4, FS_Subset
  <1> QED
    BY <1>2, <1>4, <1>5, FS_Subset, FS_CardinalityType

\* The initial states satisfy the invariant.
LEMMA InitIInv == Init => IInv
  <1> SUFFICES ASSUME Init PROVE IInv
    OBVIOUS
  <1> USE ZftAdminAssumption DEF Init
  <1>1. TypeOK
    BY DEF TypeOK, PageTypeOK, TableTypeOK, ListTypeOK, Idle, Rows
  <1>2. PostInv /\ HeardInv /\ TwiceOnlyUnheard
    BY DEF PostInv, PostOf, HeardInv, HeardOf, TwiceOnlyUnheard, TypedThere,
           Idle
  <1>3. RowsInv /\ ListInv
    BY DEF RowsInv, RowsOf, ListInv, ListOf, Agrees, Rows
  <1> QED
    BY <1>1, <1>2, <1>3 DEF IInv

-----------------------------------------------------------------------------
(* What the steps do, page by page.                                        *)

\* A person types an item.
LEMMA TypeEffect ==
  ASSUME PageTypeOK, NEW a \in Pages, NEW i \in Items, Type(a, i)
  PROVE  /\ UNCHANGED <<authed, post, adrift, made, table, unheard, deletion,
                        loads, knowledge, shown>>
         /\ i \in untyped /\ untyped' = untyped \ {i} /\ TypedOn[i] = a
         /\ fields' \in [Pages -> Items \cup {NoItem}]
         /\ \A b \in Pages : fields'[b] = IF b = a THEN i ELSE fields[b]
  BY DEF PageTypeOK, Type, tableVars, listVars

\* An addition is sent.
LEMMA AddEffect ==
  ASSUME PageTypeOK, NEW a \in Pages, AddKnowledge(a)
  PROVE  /\ UNCHANGED <<authed, fields, untyped, adrift, made, table, unheard,
                        deletion, loads, knowledge, shown>>
         /\ fields[a] \in Items /\ post[a] = Idle
         /\ post' \in [Pages -> [stage : {"idle", "sent", "added", "failed"},
                                 item : Items \cup {NoItem}, row : 0..MaxRows]]
         /\ \A b \in Pages :
             post'[b] = IF b = a
                        THEN [stage |-> "sent", item |-> fields[a], row |-> 0]
                        ELSE post[b]
  BY ZftAdminAssumption
     DEF PageTypeOK, AddKnowledge, typedVars, tableVars, listVars

\* An addition is answered.
LEMMA AddedEffect ==
  ASSUME PageTypeOK, NEW a \in Pages, Added(a)
  PROVE  /\ UNCHANGED <<authed, untyped, adrift, made, table, unheard, deletion,
                        knowledge, shown>>
         /\ post[a].stage \in {"added", "failed"}
         /\ post' \in [Pages -> [stage : {"idle", "sent", "added", "failed"},
                                 item : Items \cup {NoItem}, row : 0..MaxRows]]
         /\ \A b \in Pages : post'[b] = IF b = a THEN Idle ELSE post[b]
         /\ fields' \in [Pages -> Items \cup {NoItem}]
         /\ \A b \in Pages :
             fields'[b] = IF b = a /\ post[a].stage = "added"
                          THEN NoItem ELSE fields[b]
         /\ IF post[a].stage = "added" THEN LoadKnowledge(a) ELSE UNCHANGED loads
  <1>1. CASE post[a].stage = "added"
    BY <1>1, ZftAdminAssumption
       DEF PageTypeOK, Added, LoadKnowledge, Idle, tableVars
  <1>2. CASE post[a].stage # "added"
    BY <1>2, ZftAdminAssumption DEF PageTypeOK, Added, Idle, tableVars
  <1> QED
    BY <1>1, <1>2

\* An addition, or its answer, is lost.
LEMMA LoseAdditionEffect ==
  ASSUME PageTypeOK, TableTypeOK, PostInv, NEW a \in Pages, LoseAddition(a)
  PROVE  /\ UNCHANGED <<authed, fields, untyped, made, table, deletion, loads,
                        knowledge, shown>>
         /\ post' \in [Pages -> [stage : {"idle", "sent", "added", "failed"},
                                 item : Items \cup {NoItem}, row : 0..MaxRows]]
         /\ \A b \in Pages : post'[b] = IF b = a THEN Idle ELSE post[b]
         /\ unheard' = IF post[a].stage = "added"
                       THEN unheard \cup {post[a].row} ELSE unheard
         /\ adrift' \in [Items -> 0..MaxAdrift]
         /\ \A i \in Items :
             adrift'[i] > 0 => adrift[i] > 0 \/ i = post[a].item
  <1>1. /\ UNCHANGED <<authed, fields, untyped, made, table, deletion, loads,
                       knowledge, shown>>
        /\ post' \in [Pages -> [stage : {"idle", "sent", "added", "failed"},
                                item : Items \cup {NoItem}, row : 0..MaxRows]]
        /\ \A b \in Pages : post'[b] = IF b = a THEN Idle ELSE post[b]
        /\ unheard' = IF post[a].stage = "added"
                      THEN unheard \cup {post[a].row} ELSE unheard
    BY ZftAdminAssumption
       DEF PageTypeOK, LoseAddition, Idle, typedVars, listVars
  <1>2. CASE adrift' = adrift
    BY <1>1, <1>2 DEF TableTypeOK
  <1>3. CASE adrift' # adrift
    <2>1. PICK i : /\ i = post[a].item /\ post[a].stage = "sent"
                   /\ adrift[i] < MaxAdrift
                   /\ adrift' = [adrift EXCEPT ![i] = @ + 1]
      BY <1>3 DEF LoseAddition
    <2>2. i \in Items
      BY <2>1 DEF PostInv, PostOf
    <2>3. adrift' \in [Items -> 0..MaxAdrift]
      BY <2>1, <2>2, ZftAdminAssumption DEF TableTypeOK
    <2> QED
      BY <1>1, <2>1, <2>2, <2>3 DEF TableTypeOK
  <1> QED
    BY <1>2, <1>3

\* A row is added.
Grown(i) ==
    /\ made' \in Seq(Items) /\ Len(made') = Len(made) + 1
    /\ Len(made') <= MaxRows
    /\ \A r \in 1..Len(made) : made'[r] = made[r]
    /\ made'[Len(made) + 1] = i
    /\ table' = table \cup {Len(made) + 1}

LEMMA InsertEffect ==
  ASSUME TableTypeOK, NEW i \in Items, Insert(i)
  PROVE  Grown(i)
  <1>1. /\ made' \in Seq(Items) /\ Len(made') = Len(made) + 1
        /\ \A r \in 1..Len(made) : made'[r] = made[r]
        /\ made'[Len(made) + 1] = i
    BY AppendProperties DEF Insert, TableTypeOK
  <1>2. Len(made) \in Nat
    BY LenProperties DEF TableTypeOK
  <1> QED
    BY <1>1, <1>2, ZftAdminAssumption DEF Grown, Insert

\* What a request to add the item i does to the table, unless the row is one
\* that the page is to hear of.
MayGrow(i) ==
    \/ UNCHANGED <<made, table, unheard>>
    \/ Grown(i) /\ unheard' = unheard \cup {Len(made) + 1}

\* The server adds a row, or fails to.
LEMMA PostEffect ==
  ASSUME PageTypeOK, TableTypeOK, PostInv, NEW a \in Pages, Post(a)
  PROVE  /\ UNCHANGED <<authed, fields, untyped, adrift, deletion, loads,
                        knowledge, shown>>
         /\ post[a].stage = "sent" /\ post[a].row = 0 /\ post[a].item \in Items
         /\ post' \in [Pages -> [stage : {"idle", "sent", "added", "failed"},
                                 item : Items \cup {NoItem}, row : 0..MaxRows]]
         /\ \A b \in Pages \ {a} : post'[b] = post[b]
         /\ post'[a].item = post[a].item
         /\ \/ /\ post'[a].stage = "failed" /\ post'[a].row = 0
               /\ MayGrow(post[a].item)
            \/ /\ post'[a].stage = "added" /\ post'[a].row = Len(made) + 1
               /\ Grown(post[a].item) /\ unheard' = unheard
  <1>1. /\ UNCHANGED <<authed, fields, untyped, adrift, deletion, loads,
                       knowledge, shown>>
        /\ post[a].stage = "sent"
    BY DEF Post, typedVars, tableVars, listVars
  <1>2. post[a].row = 0 /\ post[a].item \in Items
    BY <1>1 DEF PostInv, PostOf
  <1>3. CASE /\ post' = [post EXCEPT ![a].stage = "failed"]
             /\ \/ UNCHANGED <<made, table, unheard>>
                \/ Insert(post[a].item) /\ unheard' = unheard \cup {Len(made')}
    <2>1. MayGrow(post[a].item)
      BY <1>2, <1>3, InsertEffect DEF MayGrow, Grown
    <2> QED
      BY <1>1, <1>2, <1>3, <2>1 DEF PageTypeOK
  <1>4. CASE /\ Insert(post[a].item) /\ UNCHANGED unheard
             /\ post' = [post EXCEPT ![a].stage = "added", ![a].row = Len(made')]
    <2>1. Grown(post[a].item)
      BY <1>2, <1>4, InsertEffect
    <2>2. Len(made') \in 0..MaxRows /\ Len(made') = Len(made) + 1
      BY <2>1, LenProperties, ZftAdminAssumption DEF TableTypeOK, Grown
    <2>3. post' \in [Pages -> [stage : {"idle", "sent", "added", "failed"},
                               item : Items \cup {NoItem}, row : 0..MaxRows]]
      <3>1. "added" \in {"idle", "sent", "added", "failed"}
        OBVIOUS
      <3>2. [post[a] EXCEPT !.stage = "added", !.row = Len(made')]
              \in [stage : {"idle", "sent", "added", "failed"},
                   item : Items \cup {NoItem}, row : 0..MaxRows]
        BY <2>2, <3>1 DEF PageTypeOK
      <3> QED
        BY <1>4, <3>2 DEF PageTypeOK
    <2>4. /\ \A b \in Pages \ {a} : post'[b] = post[b]
          /\ post'[a].item = post[a].item
          /\ post'[a].stage = "added" /\ post'[a].row = Len(made')
      BY <1>4 DEF PageTypeOK
    <2> QED
      BY <1>1, <1>2, <1>4, <2>1, <2>2, <2>3, <2>4
  <1> QED
    BY <1>3, <1>4 DEF Post

\* The server does so for a page that waits no longer.
LEMMA PostAdriftEffect ==
  ASSUME TableTypeOK, PostInv, NEW i \in Items, PostAdrift(i)
  PROVE  /\ UNCHANGED <<authed, fields, untyped, post, deletion, loads,
                        knowledge, shown>>
         /\ i \notin untyped
         /\ adrift' \in [Items -> 0..MaxAdrift]
         /\ \A j \in Items : adrift'[j] > 0 => adrift[j] > 0
         /\ MayGrow(i)
  <1>1. MayGrow(i)
    BY InsertEffect DEF PostAdrift, MayGrow, Grown
  <1>2. adrift' \in [Items -> 0..MaxAdrift] /\ \A j \in Items : adrift'[j] <= adrift[j]
    BY ZftAdminAssumption DEF PostAdrift, TableTypeOK
  <1> QED
    BY <1>1, <1>2 DEF PostAdrift, PostInv, TableTypeOK, typedVars, listVars

\* The server deletes a row, or refuses to, or nobody hears of what it does.
LEMMA ServeDeleteEffect ==
  ASSUME PageTypeOK, NEW a \in Pages, NEW r \in Rows, ServeDelete(a, r)
  PROVE  /\ UNCHANGED <<authed, fields, untyped, post, adrift, made, unheard, loads,
                        knowledge, shown>>
         /\ deletion[a][r] \in {"sent", "adrift"}
         /\ deletion' \in [Pages -> [Rows ->
                {"none", "sent", "deleted", "refused", "over",
                 "adrift", "lost"}]]
         /\ \A b \in Pages, q \in Rows :
             b # a \/ q # r => deletion'[b][q] = deletion[b][q]
         /\ \/ table' = table \ {r} /\ deletion'[a][r] = "deleted"
            \/ table' \in {table, table \ {r}} /\ deletion'[a][r] \in {"refused", "lost"}
  <1>1. /\ UNCHANGED <<authed, fields, untyped, post, adrift, made, unheard, loads,
                       knowledge, shown>>
        /\ deletion[a][r] \in {"sent", "adrift"}
    BY DEF ServeDelete, typedVars, listVars
  <1>2. PICK stage \in {"deleted", "refused", "lost"} :
          /\ Delete(a, r, stage)
          /\ table' \in {table, table \ {r}}
          /\ stage = "deleted" => table' = table \ {r}
    BY DEF ServeDelete
  <1> QED
    BY <1>1, <1>2 DEF PageTypeOK, Delete

\* The page asks for a deletion, and hears of it or does not.
LEMMA DeletionEffect ==
  ASSUME PageTypeOK, NEW a \in Pages, NEW r \in Rows,
         DeleteKnowledge(a, r) \/ Deleted(a, r) \/ LoseDeletion(a, r)
  PROVE  /\ UNCHANGED <<authed, fields, untyped, post, adrift, made, table,
                        unheard, knowledge, shown>>
         /\ deletion' \in [Pages -> [Rows ->
                {"none", "sent", "deleted", "refused", "over",
                 "adrift", "lost"}]]
         /\ \A b \in Pages, q \in Rows :
             b # a \/ q # r => deletion'[b][q] = deletion[b][q]
         /\ \/ /\ r \in knowledge[a] /\ deletion[a][r] = "none"
               /\ deletion'[a][r] = "sent" /\ UNCHANGED loads
            \/ /\ deletion[a][r] = "deleted" /\ deletion'[a][r] = "over"
               /\ LoadKnowledge(a)
            \/ /\ deletion[a][r] = "refused" /\ deletion'[a][r] = "lost"
               /\ LoadKnowledge(a)
            \/ /\ deletion[a][r] \in {"sent", "deleted", "refused"}
               /\ deletion'[a][r] \in {"lost", "adrift"} /\ UNCHANGED loads
  <1>1. CASE DeleteKnowledge(a, r)
    BY <1>1 DEF PageTypeOK, DeleteKnowledge, Delete, typedVars, tableVars,
                listVars
  <1>2. CASE Deleted(a, r)
    BY <1>2 DEF PageTypeOK, Deleted, Delete, LoadKnowledge, typedVars,
                tableVars
  <1>3. CASE LoseDeletion(a, r)
    <2>1. PICK stage \in {"lost", "adrift"} : Delete(a, r, stage)
      BY <1>3 DEF LoseDeletion
    <2> QED
      BY <1>3, <2>1 DEF PageTypeOK, LoseDeletion, Delete, typedVars, tableVars,
                        listVars
  <1> QED
    BY <1>1, <1>2, <1>3

Load == [stage : {"sent", "served", "over"}, rows : SUBSET Rows]

\* The page asks for the list.
LEMMA LoadEffect ==
  ASSUME ListTypeOK, NEW a \in Pages, LoadKnowledge(a)
  PROVE  /\ loads' \in [Pages -> Seq(Load)]
         /\ \A b \in Pages \ {a} : loads'[b] = loads[b]
         /\ Len(loads[a]) \in Nat /\ Len(loads'[a]) = Len(loads[a]) + 1
         /\ \A m \in 1..Len(loads[a]) : loads'[a][m] = loads[a][m]
         /\ loads'[a][Len(loads[a]) + 1] = [stage |-> "sent", rows |-> {}]
  <1> DEFINE new == [stage |-> "sent", rows |-> {}]
  <1>1. loads[a] \in Seq(Load) /\ new \in Load
    BY DEF ListTypeOK, Load
  <1>2. /\ Append(loads[a], new) \in Seq(Load)
        /\ Len(Append(loads[a], new)) = Len(loads[a]) + 1
        /\ \A m \in 1..Len(loads[a]) : Append(loads[a], new)[m] = loads[a][m]
        /\ Append(loads[a], new)[Len(loads[a]) + 1] = new
    BY <1>1, AppendProperties
  <1>3. /\ loads' = [loads EXCEPT ![a] = Append(loads[a], new)]
        /\ loads \in [Pages -> Seq(Load)]
    BY DEF LoadKnowledge, ListTypeOK, Load
  <1>4. Len(loads[a]) \in Nat
    BY <1>1
  <1> QED
    BY <1>2, <1>3, <1>4

\* A load is served, answered or lost.
LEMMA AnswerEffect ==
  ASSUME ListTypeOK, TableTypeOK, NEW a \in Pages, NEW n \in 1..MaxLoads[a],
         Get(a, n) \/ SetKnowledge(a, n) \/ LoseLoad(a, n)
  PROVE  /\ UNCHANGED <<authed, fields, untyped, post, adrift, made, table,
                        unheard, deletion>>
         /\ n \in 1..Len(loads[a])
         /\ loads' \in [Pages -> Seq(Load)]
         /\ \A b \in Pages : Len(loads'[b]) = Len(loads[b])
         /\ \A b \in Pages : \A m \in 1..Len(loads[b]) :
             b # a \/ m # n => loads'[b][m] = loads[b][m]
         /\ \/ /\ loads[a][n].stage = "served" /\ loads'[a][n] = Over
               /\ knowledge' = [knowledge EXCEPT ![a] = loads[a][n].rows]
               /\ shown' = [shown EXCEPT ![a] = n]
            \/ /\ loads'[a][n] = Over
               /\ UNCHANGED <<knowledge, shown>>
            \/ /\ loads'[a][n] = [stage |-> "served", rows |-> Newest(table)]
               /\ UNCHANGED <<knowledge, shown>>
  <1>1. loads[a] \in Seq(Load) /\ loads \in [Pages -> Seq(Load)]
    BY DEF ListTypeOK, Load
  <1>2. n \in 1..Len(loads[a])
    BY <1>1 DEF Get, SetKnowledge, LoseLoad
  <1>3. /\ Over \in Load
        /\ [stage |-> "served", rows |-> Newest(table)] \in Load
    <2>1. table \subseteq Rows
      BY ZftAdminAssumption DEF TableTypeOK, Rows
    <2> QED
      BY <2>1 DEF Load, Over, Newest
  <1>4. ASSUME NEW e \in Load, loads' = [loads EXCEPT ![a][n] = e]
        PROVE  /\ loads' \in [Pages -> Seq(Load)]
               /\ \A b \in Pages : Len(loads'[b]) = Len(loads[b])
               /\ \A b \in Pages : \A m \in 1..Len(loads[b]) :
                   b # a \/ m # n => loads'[b][m] = loads[b][m]
               /\ loads'[a][n] = e
    <2>1. loads' = [loads EXCEPT ![a] = [loads[a] EXCEPT ![n] = e]]
      BY <1>4
    <2>2. /\ [loads[a] EXCEPT ![n] = e] \in Seq(Load)
          /\ Len([loads[a] EXCEPT ![n] = e]) = Len(loads[a])
          /\ \A m \in 1..Len(loads[a]) :
              [loads[a] EXCEPT ![n] = e][m] = IF m = n THEN e ELSE loads[a][m]
      BY <1>1, <1>2, ExceptSeq
    <2> QED
      BY <1>1, <1>2, <2>1, <2>2
  <1>5. CASE Get(a, n)
    BY <1>2, <1>3, <1>4, <1>5 DEF Get, typedVars, tableVars
  <1>6. CASE SetKnowledge(a, n)
    BY <1>2, <1>3, <1>4, <1>6 DEF SetKnowledge, typedVars, tableVars
  <1>7. CASE LoseLoad(a, n)
    BY <1>2, <1>3, <1>4, <1>7 DEF LoseLoad, typedVars, tableVars
  <1> QED
    BY <1>5, <1>6, <1>7

\* The list steps leave alone what is added and deleted.
ListStep(a) ==
    \/ Login(a)
    \/ \E n \in 1..MaxLoads[a] : Get(a, n) \/ SetKnowledge(a, n) \/ LoseLoad(a, n)

DeletionStep(a, r) ==
    DeleteKnowledge(a, r) \/ Deleted(a, r) \/ LoseDeletion(a, r)

LEMMA ListStepEffect ==
  ASSUME NEW a \in Pages, ListStep(a)
  PROVE  UNCHANGED <<fields, untyped, post, adrift, made, table, unheard,
                     deletion>>
  BY DEF ListStep, Login, Get, SetKnowledge, LoseLoad, typedVars, tableVars

-----------------------------------------------------------------------------
(* The invariant is kept, conjunct by conjunct.                            *)

\* Every step keeps the types of what the pages keep, ...
LEMMA PageTypeStep ==
  ASSUME PageTypeOK, TableTypeOK, PostInv, [Next]_vars
  PROVE  PageTypeOK'
  <1> USE ZftAdminAssumption DEF PageTypeOK
  <1>1. ASSUME NEW a \in Pages, NEW i \in Items, Type(a, i)
        PROVE  PageTypeOK'
    BY <1>1, TypeEffect
  <1>2. ASSUME NEW a \in Pages, AddKnowledge(a)
        PROVE  PageTypeOK'
    BY <1>2, AddEffect
  <1>3. ASSUME NEW a \in Pages, Added(a)
        PROVE  PageTypeOK'
    BY <1>3, AddedEffect
  <1>4. ASSUME NEW a \in Pages, LoseAddition(a)
        PROVE  PageTypeOK'
    BY <1>4, LoseAdditionEffect
  <1>5. ASSUME NEW a \in Pages, Post(a)
        PROVE  PageTypeOK'
    BY <1>5, PostEffect
  <1>6. ASSUME NEW a \in Pages, NEW r \in Rows, ServeDelete(a, r)
        PROVE  PageTypeOK'
    BY <1>6, ServeDeleteEffect
  <1>7. ASSUME NEW a \in Pages, NEW r \in Rows, DeletionStep(a, r)
        PROVE  PageTypeOK'
    BY <1>7, DeletionEffect DEF DeletionStep
  <1>8. ASSUME NEW a \in Pages, ListStep(a)
        PROVE  PageTypeOK'
    BY <1>8, ListStepEffect DEF ListStep, Login, Get, SetKnowledge, LoseLoad
  <1>9. CASE UNCHANGED vars
    BY <1>9 DEF vars
  <1>20. ASSUME NEW i \in Items, PostAdrift(i)
        PROVE  PageTypeOK'
    BY <1>20, PostAdriftEffect
  <1> QED
    BY <1>20, <1>1, <1>2, <1>3, <1>4, <1>5, <1>6, <1>7, <1>8, <1>9
       DEF Next, Answer, ListStep, DeletionStep

\* ... of the table, ...
LEMMA TableTypeStep ==
  ASSUME PageTypeOK, TableTypeOK, PostInv, [Next]_vars
  PROVE  TableTypeOK'
  <1> USE ZftAdminAssumption DEF TableTypeOK
  <1>1. ASSUME NEW a \in Pages, NEW i \in Items, Type(a, i)
        PROVE  TableTypeOK'
    BY <1>1, TypeEffect
  <1>2. ASSUME NEW a \in Pages, AddKnowledge(a)
        PROVE  TableTypeOK'
    BY <1>2, AddEffect
  <1>3. ASSUME NEW a \in Pages, Added(a)
        PROVE  TableTypeOK'
    BY <1>3, AddedEffect
  <1>4. ASSUME NEW a \in Pages, LoseAddition(a)
        PROVE  TableTypeOK'
    <2>1. PostOf(a) /\ made' = made /\ table' = table
      BY <1>4, LoseAdditionEffect DEF PostInv
    <2>2. unheard' \subseteq unheard \cup {post[a].row} \/ unheard' = unheard
      BY <1>4, LoseAdditionEffect
    <2>3. post[a].stage = "added" \/ unheard' = unheard
      BY <1>4, LoseAdditionEffect
    <2>4. unheard' \subseteq 1..Len(made)
      BY <2>1, <2>2, <2>3 DEF PostOf
    <2> QED
      BY <1>4, <2>1, <2>4, LoseAdditionEffect
  <1>0. Len(made) \in Nat
    BY LenProperties
  <1>10. ASSUME NEW i, Grown(i), unheard' \subseteq unheard \cup {Len(made) + 1},
                adrift' \in [Items -> 0..MaxAdrift]
         PROVE  TableTypeOK'
    <2>1. 1..Len(made') = (1..Len(made)) \cup {Len(made) + 1}
      BY <1>0, <1>10 DEF Grown
    <2> QED
      BY <1>10, <2>1 DEF Grown
  <1>5. ASSUME NEW a \in Pages, Post(a)
        PROVE  TableTypeOK'
    <2>1. /\ adrift' = adrift
          /\ \/ MayGrow(post[a].item)
             \/ Grown(post[a].item) /\ unheard' = unheard
      BY <1>5, PostEffect
    <2> QED
      BY <1>10, <2>1 DEF MayGrow
  <1>6. ASSUME NEW a \in Pages, NEW r \in Rows, ServeDelete(a, r)
        PROVE  TableTypeOK'
    <2>1. UNCHANGED <<adrift, made, unheard>> /\ table' \subseteq table
      BY <1>6, ServeDeleteEffect
    <2> QED
      BY <2>1
  <1>7. ASSUME NEW a \in Pages, NEW r \in Rows, DeletionStep(a, r)
        PROVE  TableTypeOK'
    BY <1>7, DeletionEffect DEF DeletionStep
  <1>8. ASSUME NEW a \in Pages, ListStep(a)
        PROVE  TableTypeOK'
    BY <1>8, ListStepEffect
  <1>9. CASE UNCHANGED vars
    BY <1>9 DEF vars
  <1>20. ASSUME NEW i \in Items, PostAdrift(i)
        PROVE  TableTypeOK'
    BY <1>10, <1>20, PostAdriftEffect DEF MayGrow
  <1> QED
    BY <1>20, <1>1, <1>2, <1>3, <1>4, <1>5, <1>6, <1>7, <1>8, <1>9
       DEF Next, Answer, ListStep, DeletionStep

\* An addition under way is of an item typed on its page.
LEMMA PostStep ==
  ASSUME PageTypeOK, TableTypeOK, PostInv,
         NEW b \in Pages, [Next]_vars
  PROVE  PostOf(b)'
  <1> USE ZftAdminAssumption DEF PostOf, TypedThere, Idle
  <1>0. PostOf(b) /\ Len(made) \in Nat
    BY LenProperties DEF PostInv, TableTypeOK
  <1>1. ASSUME NEW a \in Pages, NEW i \in Items, Type(a, i)
        PROVE  PostOf(b)'
    BY <1>1, <1>0, TypeEffect
  <1>2. ASSUME NEW a \in Pages, AddKnowledge(a)
        PROVE  PostOf(b)'
    <2>1. /\ UNCHANGED <<fields, untyped, made, unheard>> /\ fields[a] \in Items
          /\ post[a] = Idle
          /\ post'[a] = [stage |-> "sent", item |-> fields[a], row |-> 0]
          /\ b # a => post'[b] = post[b]
      BY <1>2, AddEffect, Zenon
    <2>2. CASE b = a
      BY <2>1, <2>2, <1>0
    <2>3. CASE b # a
      BY <2>1, <2>3, <1>0
    <2> QED
      BY <2>2, <2>3
  <1>3. ASSUME NEW a \in Pages, Added(a)
        PROVE  PostOf(b)'
    <2>1. CASE b = a
      BY <2>1, <1>3, <1>0, AddedEffect
    <2>2. CASE b # a
      BY <2>2, <1>3, <1>0, AddedEffect
    <2> QED
      BY <2>1, <2>2
  <1>4. ASSUME NEW a \in Pages, LoseAddition(a)
        PROVE  PostOf(b)'
    <2>1. CASE b = a
      BY <2>1, <1>4, <1>0, LoseAdditionEffect
    <2>2. CASE b # a
      BY <2>2, <1>4, <1>0, LoseAdditionEffect
    <2> QED
      BY <2>1, <2>2
  <1>5. ASSUME NEW a \in Pages, Post(a)
        PROVE  PostOf(b)'
    <2>1. CASE b = a
      BY <2>1, <1>5, <1>0, PostEffect DEF MayGrow, Grown
    <2>2. CASE b # a
      <3>1. /\ UNCHANGED <<fields, untyped>> /\ post'[b] = post[b]
            /\ Len(made) <= Len(made')
            /\ \A r \in 1..Len(made) : made'[r] = made[r]
        BY <2>2, <1>5, <1>0, PostEffect DEF MayGrow, Grown
      <3>2. Len(made') \in Nat
        BY <1>5, <1>0, PostEffect DEF MayGrow, Grown
      <3> QED
        BY <1>0, <3>1, <3>2
    <2> QED
      BY <2>1, <2>2
  <1>6. ASSUME NEW a \in Pages, NEW r \in Rows, ServeDelete(a, r)
        PROVE  PostOf(b)'
    BY <1>6, <1>0, ServeDeleteEffect
  <1>7. ASSUME NEW a \in Pages, NEW r \in Rows, DeletionStep(a, r)
        PROVE  PostOf(b)'
    BY <1>7, <1>0, DeletionEffect DEF DeletionStep
  <1>8. ASSUME NEW a \in Pages, ListStep(a)
        PROVE  PostOf(b)'
    BY <1>8, <1>0, ListStepEffect
  <1>9. CASE UNCHANGED vars
    BY <1>0, <1>9 DEF vars
  <1>20. ASSUME NEW i \in Items, PostAdrift(i)
        PROVE  PostOf(b)'
    <2>1. UNCHANGED <<fields, untyped, post>> /\ MayGrow(i)
      BY <1>20, PostAdriftEffect
    <2>2. /\ Len(made') \in Nat /\ Len(made) <= Len(made')
          /\ \A r \in 1..Len(made) : made'[r] = made[r]
      BY <1>0, <2>1 DEF MayGrow, Grown
    <2> QED
      BY <1>0, <2>1, <2>2
  <1> QED
    BY <1>20, <1>1, <1>2, <1>3, <1>4, <1>5, <1>6, <1>7, <1>8, <1>9
       DEF Next, Answer, ListStep, DeletionStep

\* The rows are of items that were typed.
LEMMA ItemsStep ==
  ASSUME PageTypeOK, TableTypeOK, PostInv,
         NEW q \in 1..Len(made'), [Next]_vars
  PROVE  made'[q] \in Items \ untyped'
  <1> USE ZftAdminAssumption DEF TypedThere
  <1>0. /\ q \in 1..Len(made) => made[q] \in Items \ untyped
        /\ Len(made) \in Nat
    BY LenProperties DEF PostInv, TableTypeOK
  <1>1. ASSUME NEW a \in Pages, NEW i \in Items, Type(a, i)
        PROVE  made'[q] \in Items \ untyped'
    BY <1>1, <1>0, TypeEffect
  <1>2. ASSUME NEW a \in Pages, AddKnowledge(a)
        PROVE  made'[q] \in Items \ untyped'
    BY <1>2, <1>0, AddEffect
  <1>3. ASSUME NEW a \in Pages, Added(a)
        PROVE  made'[q] \in Items \ untyped'
    BY <1>3, <1>0, AddedEffect
  <1>4. ASSUME NEW a \in Pages, LoseAddition(a)
        PROVE  made'[q] \in Items \ untyped'
    BY <1>4, <1>0, LoseAdditionEffect
  <1>10. ASSUME NEW i \in Items \ untyped, untyped' = untyped,
                made' = made \/ Grown(i)
         PROVE  made'[q] \in Items \ untyped'
    <2>1. q \in 1..Len(made) \/ (Grown(i) /\ q = Len(made) + 1)
      BY <1>0, <1>10 DEF Grown
    <2> QED
      BY <1>0, <1>10, <2>1 DEF Grown
  <1>5. ASSUME NEW a \in Pages, Post(a)
        PROVE  made'[q] \in Items \ untyped'
    <2>1. post[a].item \in Items \ untyped /\ untyped' = untyped
      BY <1>5, PostEffect DEF PostInv, PostOf
    <2>2. made' = made \/ Grown(post[a].item)
      BY <1>5, PostEffect DEF MayGrow
    <2> QED
      BY <1>10, <2>1, <2>2
  <1>6. ASSUME NEW a \in Pages, NEW r \in Rows, ServeDelete(a, r)
        PROVE  made'[q] \in Items \ untyped'
    BY <1>6, <1>0, ServeDeleteEffect
  <1>7. ASSUME NEW a \in Pages, NEW r \in Rows, DeletionStep(a, r)
        PROVE  made'[q] \in Items \ untyped'
    BY <1>7, <1>0, DeletionEffect DEF DeletionStep
  <1>8. ASSUME NEW a \in Pages, ListStep(a)
        PROVE  made'[q] \in Items \ untyped'
    BY <1>8, <1>0, ListStepEffect
  <1>9. CASE UNCHANGED vars
    BY <1>0, <1>9 DEF vars
  <1>20. ASSUME NEW i \in Items, PostAdrift(i)
        PROVE  made'[q] \in Items \ untyped'
    BY <1>10, <1>20, PostAdriftEffect DEF MayGrow
  <1> QED
    BY <1>20, <1>1, <1>2, <1>3, <1>4, <1>5, <1>6, <1>7, <1>8, <1>9
       DEF Next, Answer, ListStep, DeletionStep

\* What is adrift was typed.
LEMMA AdriftStep ==
  ASSUME PageTypeOK, TableTypeOK, PostInv, NEW j \in Items, [Next]_vars,
         adrift'[j] > 0
  PROVE  j \notin untyped'
  <1>0. adrift[j] > 0 => j \notin untyped
    BY DEF PostInv
  <1>1. ASSUME NEW a \in Pages, NEW i \in Items, Type(a, i)
        PROVE  j \notin untyped'
    BY <1>1, <1>0, TypeEffect
  <1>2. ASSUME NEW a \in Pages, LoseAddition(a)
        PROVE  j \notin untyped'
    BY <1>2, <1>0, LoseAdditionEffect DEF PostInv, PostOf, TypedThere
  <1>3. ASSUME NEW i \in Items, PostAdrift(i)
        PROVE  j \notin untyped'
    BY <1>3, <1>0, PostAdriftEffect
  <1>4. ASSUME NEW a \in Pages,
               \/ AddKnowledge(a) \/ Added(a) \/ Post(a) \/ ListStep(a)
               \/ \E r \in Rows : ServeDelete(a, r) \/ DeletionStep(a, r)
        PROVE  UNCHANGED <<adrift, untyped>>
    BY <1>4, AddEffect, AddedEffect, PostEffect, ServeDeleteEffect,
       DeletionEffect, ListStepEffect DEF DeletionStep
  <1>5. CASE UNCHANGED vars
    BY <1>0, <1>5 DEF vars
  <1> QED
    BY <1>0, <1>1, <1>2, <1>3, <1>4, <1>5 DEF Next, Answer, ListStep, DeletionStep

\* The answer clears the item it is about.
LEMMA HeardStep ==
  ASSUME PageTypeOK, TableTypeOK, PostInv, HeardInv,
         NEW q \in 1..Len(made'), NEW b \in Pages, [Next]_vars
  PROVE  HeardOf(q, b)'
  <1> USE ZftAdminAssumption DEF HeardOf, Idle
  <1>0. /\ q \in 1..Len(made) => HeardOf(q, b) /\ made[q] \in Items \ untyped
        /\ PostOf(b) /\ Len(made) \in Nat
    BY LenProperties DEF PostInv, HeardInv, TableTypeOK
  <1>1. ASSUME NEW a \in Pages, NEW i \in Items, Type(a, i)
        PROVE  HeardOf(q, b)'
    BY <1>1, <1>0, TypeEffect DEF PostOf, TypedThere
  <1>2. ASSUME NEW a \in Pages, AddKnowledge(a)
        PROVE  HeardOf(q, b)'
    <2>1. /\ UNCHANGED <<fields, untyped, made, unheard>> /\ fields[a] \in Items
          /\ post[a] = Idle
          /\ post'[a] = [stage |-> "sent", item |-> fields[a], row |-> 0]
          /\ b # a => post'[b] = post[b]
      BY <1>2, AddEffect, Zenon
    <2>2. CASE b = a
      BY <2>1, <2>2, <1>0 DEF PostOf, TypedThere
    <2>3. CASE b # a
      BY <2>1, <2>3, <1>0 DEF PostOf, TypedThere
    <2> QED
      BY <2>2, <2>3
  <1>3. ASSUME NEW a \in Pages, Added(a)
        PROVE  HeardOf(q, b)'
    BY <1>3, <1>0, AddedEffect DEF PostOf, TypedThere
  <1>4. ASSUME NEW a \in Pages, LoseAddition(a)
        PROVE  HeardOf(q, b)'
    <2>1. CASE b = a
      BY <2>1, <1>4, <1>0, LoseAdditionEffect DEF PostOf
    <2>2. CASE b # a
      BY <2>2, <1>4, <1>0, LoseAdditionEffect DEF PostOf
    <2> QED
      BY <2>1, <2>2
  <1>5. ASSUME NEW a \in Pages, Post(a)
        PROVE  HeardOf(q, b)'
    <2>1. /\ UNCHANGED fields /\ unheard \subseteq unheard' /\ post[a].row = 0
          /\ post'[a].item = post[a].item
          /\ b # a => post'[b] = post[b]
      BY <1>5, PostEffect DEF MayGrow
    <2>2. CASE q \in 1..Len(made)
      <3>1. made'[q] = made[q]
        BY <2>2, <1>5, PostEffect DEF MayGrow, Grown
      <3>2. post[b].row # q \/ b # a
        BY <2>1, <2>2
      <3> QED
        BY <2>1, <2>2, <3>1, <3>2, <1>0
    <2>3. CASE q \notin 1..Len(made)
      <3>1. q = Len(made) + 1 /\ made'[q] = post[a].item
        BY <2>3, <1>5, <1>0, PostEffect DEF MayGrow, Grown
      <3>2. post'[a].row = q \/ q \in unheard'
        BY <2>3, <3>1, <1>5, <1>0, PostEffect DEF MayGrow
      <3>3. TypedOn[post[a].item] = a
        BY <1>5, PostEffect DEF PostInv, PostOf, TypedThere
      <3> QED
        BY <3>1, <3>2, <3>3
    <2> QED
      BY <2>2, <2>3
  <1>6. ASSUME NEW a \in Pages, NEW r \in Rows, ServeDelete(a, r)
        PROVE  HeardOf(q, b)'
    BY <1>6, <1>0, ServeDeleteEffect DEF PostOf, TypedThere
  <1>7. ASSUME NEW a \in Pages, NEW r \in Rows, DeletionStep(a, r)
        PROVE  HeardOf(q, b)'
    BY <1>7, <1>0, DeletionEffect DEF DeletionStep
  <1>8. ASSUME NEW a \in Pages, ListStep(a)
        PROVE  HeardOf(q, b)'
    BY <1>8, <1>0, ListStepEffect DEF PostOf, TypedThere
  <1>9. CASE UNCHANGED vars
    BY <1>0, <1>9 DEF vars
  <1>20. ASSUME NEW i \in Items, PostAdrift(i)
        PROVE  HeardOf(q, b)'
    <2>1. UNCHANGED <<fields, post>> /\ MayGrow(i)
      BY <1>20, PostAdriftEffect
    <2>2. q \in 1..Len(made) \/ q \in unheard'
      BY <1>0, <2>1 DEF MayGrow, Grown
    <2>3. unheard \subseteq unheard' /\ \A r \in 1..Len(made) : made'[r] = made[r]
      BY <2>1 DEF MayGrow, Grown
    <2> QED
      BY <1>0, <2>1, <2>2, <2>3
  <1> QED
    BY <1>20, <1>1, <1>2, <1>3, <1>4, <1>5, <1>6, <1>7, <1>8, <1>9
       DEF Next, Answer, ListStep, DeletionStep

\* An item is sent again only by a page that has not heard of its row.
LEMMA TwiceStep ==
  ASSUME PageTypeOK, TableTypeOK, PostInv, HeardInv, TwiceOnlyUnheard, [Next]_vars
  PROVE  TwiceOnlyUnheard'
  <1> USE ZftAdminAssumption DEF TwiceOnlyUnheard
  <1>1. ASSUME NEW a \in Pages, NEW i \in Items, Type(a, i)
        PROVE  TwiceOnlyUnheard'
    BY <1>1, TypeEffect
  <1>2. ASSUME NEW a \in Pages, AddKnowledge(a)
        PROVE  TwiceOnlyUnheard'
    BY <1>2, AddEffect
  <1>3. ASSUME NEW a \in Pages, Added(a)
        PROVE  TwiceOnlyUnheard'
    BY <1>3, AddedEffect
  <1>4. ASSUME NEW a \in Pages, LoseAddition(a)
        PROVE  TwiceOnlyUnheard'
    <2>1. UNCHANGED made /\ unheard \subseteq unheard'
      BY <1>4, LoseAdditionEffect
    <2> QED
      BY <2>1
  <1>0. Len(made) \in Nat
    BY LenProperties DEF TableTypeOK
  <1>10. ASSUME NEW i, MayGrow(i)
         PROVE  TwiceOnlyUnheard'
    <2>1. CASE UNCHANGED <<made, unheard>>
      BY <2>1
    <2>2. CASE Grown(i) /\ unheard' = unheard \cup {Len(made) + 1}
      <3>1. \A q \in 1..Len(made') : q \in 1..Len(made) \/ q \in unheard'
        BY <1>0, <2>2 DEF Grown
      <3> QED
        BY <2>2, <3>1 DEF Grown
    <2> QED
      BY <1>10, <2>1, <2>2 DEF MayGrow
  <1>5. ASSUME NEW a \in Pages, Post(a)
        PROVE  TwiceOnlyUnheard'
    <2>1. CASE MayGrow(post[a].item)
      BY <1>10, <2>1
    <2>2. CASE Grown(post[a].item) /\ unheard' = unheard
      <3>1. \A q \in 1..Len(made') :
              \/ q \in 1..Len(made) /\ made'[q] = made[q]
              \/ q = Len(made) + 1 /\ made'[q] = post[a].item
        BY <1>0, <2>2 DEF Grown
      <3>2. post[a].row = 0 /\ TypedOn[post[a].item] = a
        BY <1>5, PostEffect DEF PostInv, PostOf, TypedThere
      <3>3. \A q \in 1..Len(made) : made[q] = post[a].item => q \in unheard
        BY <3>2 DEF HeardInv, HeardOf
      <3> QED
        BY <2>2, <3>1, <3>3
    <2> QED
      BY <1>5, <2>1, <2>2, PostEffect
  <1>6. ASSUME NEW a \in Pages, NEW r \in Rows, ServeDelete(a, r)
        PROVE  TwiceOnlyUnheard'
    BY <1>6, ServeDeleteEffect
  <1>7. ASSUME NEW a \in Pages, NEW r \in Rows, DeletionStep(a, r)
        PROVE  TwiceOnlyUnheard'
    BY <1>7, DeletionEffect DEF DeletionStep
  <1>8. ASSUME NEW a \in Pages, ListStep(a)
        PROVE  TwiceOnlyUnheard'
    BY <1>8, ListStepEffect
  <1>9. CASE UNCHANGED vars
    BY <1>9 DEF vars
  <1>20. ASSUME NEW i \in Items, PostAdrift(i)
        PROVE  TwiceOnlyUnheard'
    BY <1>10, <1>20, PostAdriftEffect
  <1> QED
    BY <1>20, <1>1, <1>2, <1>3, <1>4, <1>5, <1>6, <1>7, <1>8, <1>9
       DEF Next, Answer, ListStep, DeletionStep

\* A row that was deleted never comes back.
LEMMA RowsStep ==
  ASSUME PageTypeOK, TableTypeOK, ListTypeOK, PostInv, RowsInv, [Next]_vars,
         NEW b \in Pages
  PROVE  RowsOf(b)'
  <1> USE ZftAdminAssumption DEF RowsOf
  <1>0. RowsOf(b) /\ Len(made) \in Nat /\ Len(loads[b]) \in Nat
    BY LenProperties DEF RowsInv, TableTypeOK, ListTypeOK
  <1>1. ASSUME NEW a \in Pages, LoadKnowledge(a)
        PROVE  \A n \in 1..Len(loads'[b]) :
                 loads'[b][n].rows \subseteq 1..Len(made)
    <2>1. CASE b = a
      <3>1. \A n \in 1..Len(loads'[b]) : n \in 1..Len(loads[b]) \/ n = Len(loads[b]) + 1
        BY <1>0, <1>1, <2>1, LoadEffect
      <3>2. \A n \in 1..Len(loads[b]) : loads'[b][n] = loads[b][n]
        BY <1>1, <2>1, LoadEffect
      <3>3. loads'[b][Len(loads[b]) + 1].rows = {}
        BY <1>1, <2>1, LoadEffect
      <3> QED
        BY <1>0, <3>1, <3>2, <3>3
    <2>2. CASE b # a
      BY <1>0, <1>1, <2>2, LoadEffect
    <2> QED
      BY <2>1, <2>2
  <1>2. ASSUME NEW a \in Pages, NEW i \in Items, Type(a, i)
        PROVE  RowsOf(b)'
    BY <1>0, <1>2, TypeEffect
  <1>3. ASSUME NEW a \in Pages, AddKnowledge(a)
        PROVE  RowsOf(b)'
    BY <1>0, <1>3, AddEffect
  <1>4. ASSUME NEW a \in Pages, Added(a)
        PROVE  RowsOf(b)'
    <2>1. /\ UNCHANGED <<knowledge, made, table, deletion>>
          /\ LoadKnowledge(a) \/ loads' = loads
      BY <1>4, AddedEffect
    <2> QED
      BY <1>0, <1>1, <2>1
  <1>5. ASSUME NEW a \in Pages, LoseAddition(a)
        PROVE  RowsOf(b)'
    BY <1>0, <1>5, LoseAdditionEffect
  <1>12. ASSUME UNCHANGED <<knowledge, loads, deletion>>, NEW i,
                (made' = made /\ table' = table) \/ Grown(i)
         PROVE  RowsOf(b)'
    <2>1. 1..Len(made) \subseteq 1..Len(made')
      BY <1>0, <1>12 DEF Grown
    <2>2. \A r \in 1..Len(made) : r \in table' => r \in table
      BY <1>0, <1>12 DEF Grown
    <2> QED
      BY <1>0, <1>12, <2>1, <2>2
  <1>6. ASSUME NEW a \in Pages, Post(a)
        PROVE  RowsOf(b)'
    BY <1>6, <1>12, PostEffect DEF MayGrow
  <1>7. ASSUME NEW a \in Pages, NEW r \in Rows, ServeDelete(a, r)
        PROVE  RowsOf(b)'
    <2>1. /\ UNCHANGED <<knowledge, loads, made>>
          /\ deletion[a][r] \in {"sent", "adrift"}
          /\ \A q \in Rows : b # a \/ q # r => deletion'[b][q] = deletion[b][q]
          /\ \/ table' = table \ {r} /\ deletion'[a][r] = "deleted"
             \/ /\ table' \in {table, table \ {r}}
                /\ deletion'[a][r] \in {"refused", "lost"}
      BY <1>7, ServeDeleteEffect
    <2> QED
      BY <1>0, <2>1
  <1>8. ASSUME NEW a \in Pages, NEW r \in Rows, DeletionStep(a, r)
        PROVE  RowsOf(b)'
    <2>1. /\ UNCHANGED <<knowledge, table, made>>
          /\ LoadKnowledge(a) \/ loads' = loads
          /\ \A q \in Rows : b # a \/ q # r => deletion'[b][q] = deletion[b][q]
          /\ \/ r \in knowledge[a] /\ deletion'[a][r] = "sent"
             \/ deletion[a][r] = "deleted" /\ deletion'[a][r] = "over"
             \/ /\ deletion[a][r] # "none"
                /\ deletion'[a][r] \in {"lost", "adrift"}
      BY <1>8, DeletionEffect DEF DeletionStep
    <2>2. \A n \in 1..Len(loads'[b]) : loads'[b][n].rows \subseteq 1..Len(made)
      BY <1>0, <1>1, <2>1
    <2> QED
      BY <1>0, <2>1, <2>2
  <1>9. ASSUME NEW a \in Pages, Login(a)
        PROVE  RowsOf(b)'
    BY <1>0, <1>1, <1>9 DEF Login, tableVars
  <1>10. ASSUME NEW a \in Pages, NEW n \in 1..MaxLoads[a],
                Get(a, n) \/ SetKnowledge(a, n) \/ LoseLoad(a, n)
         PROVE  RowsOf(b)'
    <2>1. RowsOf(a) /\ n \in 1..Len(loads[a])
      BY <1>10, AnswerEffect DEF RowsInv
    <2>2. UNCHANGED <<made, table, deletion>>
      BY <1>10, AnswerEffect
    <2>3. knowledge'[b] \subseteq 1..Len(made)
      <3>1. \/ knowledge' = knowledge
            \/ knowledge' = [knowledge EXCEPT ![a] = loads[a][n].rows]
        BY <1>10, AnswerEffect
      <3>2. knowledge \in [Pages -> SUBSET Rows]
        BY DEF ListTypeOK
      <3> QED
        BY <1>0, <2>1, <3>1, <3>2
    <2>4. \A m \in 1..Len(loads'[b]) : loads'[b][m].rows \subseteq 1..Len(made)
      <3>1. Over.rows \subseteq 1..Len(made) /\ Newest(table) \subseteq 1..Len(made)
        BY DEF Over, Newest, TableTypeOK
      <3>2. loads'[a][n].rows \subseteq 1..Len(made)
        BY <1>10, <3>1, AnswerEffect
      <3> QED
        BY <1>0, <1>10, <3>2, AnswerEffect
    <2> QED
      BY <1>0, <2>2, <2>3, <2>4
  <1>11. CASE UNCHANGED vars
    BY <1>0, <1>11 DEF vars
  <1>20. ASSUME NEW i \in Items, PostAdrift(i)
        PROVE  RowsOf(b)'
    BY <1>12, <1>20, PostAdriftEffect DEF MayGrow
  <1> QED
    BY <1>20, <1>2, <1>3, <1>4, <1>5, <1>6, <1>7, <1>8, <1>9, <1>10, <1>11
       DEF Next, Answer, DeletionStep

\* What a step does to the list of a page: nothing, or the list is asked for,
\* or a load goes on.
LEMMA LoadKinds ==
  ASSUME PageTypeOK, TableTypeOK, ListTypeOK, PostInv, [Next]_vars,
         NEW b \in Pages
  PROVE  \/ /\ loads'[b] = loads[b]
            /\ knowledge'[b] = knowledge[b] /\ shown'[b] = shown[b]
         \/ /\ LoadKnowledge(b)
            /\ knowledge'[b] = knowledge[b] /\ shown'[b] = shown[b]
         \/ \E n \in 1..MaxLoads[b] :
              Get(b, n) \/ SetKnowledge(b, n) \/ LoseLoad(b, n)
  <1> DEFINE Goal == \/ /\ loads'[b] = loads[b]
                        /\ knowledge'[b] = knowledge[b] /\ shown'[b] = shown[b]
                     \/ /\ LoadKnowledge(b)
                        /\ knowledge'[b] = knowledge[b] /\ shown'[b] = shown[b]
                     \/ \E n \in 1..MaxLoads[b] :
                          Get(b, n) \/ SetKnowledge(b, n) \/ LoseLoad(b, n)
  <1>1. ASSUME NEW a \in Pages, LoadKnowledge(a), UNCHANGED <<knowledge, shown>>
        PROVE  Goal
    BY <1>1, LoadEffect
  <1>2. ASSUME NEW a \in Pages, NEW i \in Items, Type(a, i)
        PROVE  Goal
    BY <1>2, TypeEffect
  <1>3. ASSUME NEW a \in Pages, AddKnowledge(a)
        PROVE  Goal
    BY <1>3, AddEffect
  <1>4. ASSUME NEW a \in Pages, Added(a)
        PROVE  Goal
    <2>1. /\ UNCHANGED <<knowledge, shown>>
          /\ LoadKnowledge(a) \/ loads' = loads
      BY <1>4, AddedEffect
    <2> QED
      BY <1>1, <2>1
  <1>5. ASSUME NEW a \in Pages, LoseAddition(a)
        PROVE  Goal
    BY <1>5, LoseAdditionEffect
  <1>6. ASSUME NEW a \in Pages, Post(a)
        PROVE  Goal
    BY <1>6, PostEffect
  <1>7. ASSUME NEW a \in Pages, NEW r \in Rows, ServeDelete(a, r)
        PROVE  Goal
    BY <1>7, ServeDeleteEffect
  <1>8. ASSUME NEW a \in Pages, NEW r \in Rows, DeletionStep(a, r)
        PROVE  Goal
    <2>1. /\ UNCHANGED <<knowledge, shown>>
          /\ LoadKnowledge(a) \/ loads' = loads
      BY <1>8, DeletionEffect DEF DeletionStep
    <2> QED
      BY <1>1, <2>1
  <1>9. ASSUME NEW a \in Pages, Login(a)
        PROVE  Goal
    BY <1>1, <1>9 DEF Login
  <1>10. ASSUME NEW a \in Pages, NEW n \in 1..MaxLoads[a],
                Get(a, n) \/ SetKnowledge(a, n) \/ LoseLoad(a, n)
         PROVE  Goal
    <2>1. CASE b = a
      BY <1>10, <2>1
    <2>2. CASE b # a
      BY <1>10, <2>2
         DEF Get, SetKnowledge, LoseLoad, listVars, ListTypeOK
    <2> QED
      BY <2>1, <2>2
  <1>11. CASE UNCHANGED vars
    BY <1>11 DEF vars
  <1>20. ASSUME NEW i \in Items, PostAdrift(i)
        PROVE  Goal
    BY <1>20, PostAdriftEffect
  <1> QED
    BY <1>20, <1>2, <1>3, <1>4, <1>5, <1>6, <1>7, <1>8, <1>9, <1>10, <1>11
       DEF Next, Answer, DeletionStep

\* ... and the types of the lists.
LEMMA ListTypeStep ==
  ASSUME PageTypeOK, TableTypeOK, ListTypeOK, PostInv, [Next]_vars
  PROVE  ListTypeOK'
  <1> USE ZftAdminAssumption
  <1>0. /\ loads \in [Pages -> Seq(Load)] /\ knowledge \in [Pages -> SUBSET Rows]
        /\ shown \in [Pages -> Nat]
        /\ \A b \in Pages : Len(loads[b]) \in Nat /\ shown[b] <= Len(loads[b])
    BY LenProperties DEF ListTypeOK, Load
  <1>1. ASSUME NEW a \in Pages, LoadKnowledge(a), UNCHANGED <<knowledge, shown>>
        PROVE  ListTypeOK'
    <2>1. \A b \in Pages : shown'[b] <= Len(loads'[b])
      <3>1. /\ \A b \in Pages \ {a} : loads'[b] = loads[b]
            /\ Len(loads'[a]) = Len(loads[a]) + 1
        BY <1>1, LoadEffect
      <3>2. shown'[a] <= Len(loads'[a])
        BY <1>0, <1>1, <3>1
      <3> QED
        BY <1>0, <1>1, <3>1, <3>2
    <2> QED
      BY <1>0, <1>1, <2>1, LoadEffect DEF ListTypeOK, Load
  <1>2. CASE UNCHANGED <<loads, knowledge, shown>>
    BY <1>2 DEF ListTypeOK
  <1>3. ASSUME NEW a \in Pages, Added(a)
        PROVE  ListTypeOK'
    <2>1. UNCHANGED <<knowledge, shown>> /\ (LoadKnowledge(a) \/ loads' = loads)
      BY <1>3, AddedEffect
    <2> QED
      BY <1>1, <1>2, <2>1
  <1>4. ASSUME NEW a \in Pages, NEW r \in Rows, DeletionStep(a, r)
        PROVE  ListTypeOK'
    <2>1. UNCHANGED <<knowledge, shown>> /\ (LoadKnowledge(a) \/ loads' = loads)
      BY <1>4, DeletionEffect DEF DeletionStep
    <2> QED
      BY <1>1, <1>2, <2>1
  <1>5. ASSUME NEW a \in Pages, Login(a)
        PROVE  ListTypeOK'
    BY <1>1, <1>5 DEF Login
  <1>6. ASSUME NEW a \in Pages, NEW n \in 1..MaxLoads[a],
               Get(a, n) \/ SetKnowledge(a, n) \/ LoseLoad(a, n)
        PROVE  ListTypeOK'
    <2>1. n \in 1..Len(loads[a]) /\ loads[a][n] \in Load
      BY <1>0, <1>6, AnswerEffect, ElementOfSeq
    <2>2. loads[a][n].rows \subseteq Rows
      BY <2>1 DEF Load
    <2>3. /\ knowledge' \in [Pages -> SUBSET Rows] /\ shown' \in [Pages -> Nat]
          /\ \A b \in Pages : shown'[b] <= Len(loads[b])
      <3>1. CASE UNCHANGED <<knowledge, shown>>
        BY <1>0, <3>1
      <3>2. CASE /\ knowledge' = [knowledge EXCEPT ![a] = loads[a][n].rows]
                 /\ shown' = [shown EXCEPT ![a] = n]
        BY <1>0, <2>1, <2>2, <3>2
      <3> QED
        BY <1>6, <3>1, <3>2, AnswerEffect
    <2>4. /\ loads' \in [Pages -> Seq(Load)]
          /\ \A b \in Pages : Len(loads'[b]) = Len(loads[b])
      BY <1>6, AnswerEffect
    <2> QED
      BY <2>3, <2>4 DEF ListTypeOK, Load
  <1>7. ASSUME NEW a \in Pages,
               \/ \E i \in Items : Type(a, i) \/ PostAdrift(i)
               \/ AddKnowledge(a) \/ LoseAddition(a) \/ Post(a)
               \/ \E r \in Rows : ServeDelete(a, r)
        PROVE  UNCHANGED <<loads, knowledge, shown>>
    BY <1>7, TypeEffect, AddEffect, LoseAdditionEffect, PostEffect,
       PostAdriftEffect, ServeDeleteEffect
  <1>8. CASE UNCHANGED vars
    BY <1>2, <1>8 DEF vars
  <1> QED
    BY <1>2, <1>3, <1>4, <1>5, <1>6, <1>7, <1>8 DEF Next, Answer, DeletionStep

\* A row stays among the newest no longer than the newest are few.
LEMMA NewestKept ==
  ASSUME TableTypeOK, NEW r \in 1..Len(made), Len(made') \in Nat,
         Len(made) <= Len(made'),
         \A q \in 1..Len(made) : q \in table' => q \in table,
         InTableAmongNewest(r)'
  PROVE  InTableAmongNewest(r)
  <1>1. /\ Len(made) \in Nat /\ Limit \in Nat /\ r \in Nat
        /\ 1..Len(made) \subseteq 1..Len(made)
    BY LenProperties, ZftAdminAssumption DEF TableTypeOK
  <1>2. /\ Cardinality({q \in 1..Len(made) : q > r}) \in Nat
        /\ Cardinality({q \in 1..Len(made') : q > r}) \in Nat
        /\ Cardinality({q \in 1..Len(made) : q > r})
             <= Cardinality({q \in 1..Len(made') : q > r})
    BY <1>1, NewerRows, Zenon
  <1> QED
    BY <1>1, <1>2 DEF InTableAmongNewest

\* The list that is read from the table agrees with what its page has done.
LEMMA NewestAgrees ==
  ASSUME TableTypeOK, RowsInv, NEW a \in Pages
  PROVE  Agrees(a, Newest(table))
  <1>1. ASSUME NEW r \in Rows, deletion[a][r] = "over"
        PROVE  r \notin Newest(table)
    BY <1>1 DEF RowsInv, RowsOf, Newest
  <1>2. ASSUME NEW r \in 1..Len(made), InTableAmongNewest(r)
        PROVE  r \in Newest(table)
    <2>1. /\ Len(made) \in Nat /\ Len(made) <= Len(made) /\ Limit \in Nat
          /\ r \in Nat /\ table \subseteq 1..Len(made)
      BY LenProperties, ZftAdminAssumption DEF TableTypeOK
    <2>2. /\ Cardinality({q \in table : q > r}) \in Nat
          /\ Cardinality({q \in 1..Len(made) : q > r}) \in Nat
          /\ Cardinality({q \in table : q > r})
               <= Cardinality({q \in 1..Len(made) : q > r})
      BY <2>1, NewerRows, Zenon
    <2> QED
      BY <1>2, <2>1, <2>2 DEF InTableAmongNewest, Newest
  <1> QED
    BY <1>1, <1>2 DEF Agrees

\* What keeps the agreement of a list with what its page, b, has done.
AgreementKept(b) ==
    /\ Len(made') \in Nat /\ Len(made) <= Len(made')
    /\ \A r \in Rows : deletion'[b][r] = "over" => deletion[b][r] = "over"
    /\ \A q \in 1..Len(made) : q \in table' => q \in table
    /\ \A r \in 1..Len(made) : made'[r] = made[r]
    /\ \A r \in 1..Len(made) :
         r \notin unheard' /\ post'[b].row # r
           => r \notin unheard /\ post[b].row # r
    /\ \A r \in 1..Len(made') :
         \/ r \in 1..Len(made) \/ TypedOn[made'[r]] # b \/ post'[b].row = r
         \/ r \in unheard'

\* A list goes on to agree until its page asks for another one: the page hears
\* of an addition or a deletion only as it asks.
LEMMA AgreesKept ==
  ASSUME PageTypeOK, TableTypeOK, ListTypeOK, PostInv, RowsInv, [Next]_vars,
         NEW b \in Pages, NEW R, Agrees(b, R), ~LoadKnowledge(b)
  PROVE  Agrees(b, R)'
  <1> USE ZftAdminAssumption
  <1>0. Len(made) \in Nat /\ PostOf(b)
    BY LenProperties DEF TableTypeOK, PostInv
  <1>1. AgreementKept(b) => Agrees(b, R)'
    <2> SUFFICES ASSUME AgreementKept(b) PROVE Agrees(b, R)'
      OBVIOUS
    <2> USE DEF AgreementKept
    <2>1. ASSUME NEW r \in 1..Len(made'), TypedOn[made'[r]] = b,
                 r \notin unheard', post'[b].row # r, InTableAmongNewest(r)'
          PROVE  r \in R
      <3>1. r \in 1..Len(made)
        BY <2>1
      <3>2. InTableAmongNewest(r)
        BY <2>1, <3>1, NewestKept
      <3> QED
        BY <2>1, <3>1, <3>2 DEF Agrees
    <2> QED
      BY <2>1 DEF Agrees
  <1>2. ASSUME NEW a \in Pages, NEW i \in Items, Type(a, i)
        PROVE  AgreementKept(b)
    BY <1>0, <1>2, TypeEffect DEF AgreementKept
  <1>3. ASSUME NEW a \in Pages, AddKnowledge(a)
        PROVE  AgreementKept(b)
    <2>1. /\ UNCHANGED <<made, table, unheard, deletion>>
          /\ b # a => post'[b] = post[b]
          /\ b = a => post[b].row = 0
      <3>1. post[a] = Idle
        BY <1>3, AddEffect
      <3>2. Idle.row = 0
        BY DEF Idle
      <3> QED
        BY <1>3, <3>1, <3>2, AddEffect
    <2> QED
      BY <1>0, <2>1 DEF AgreementKept
  <1>4. ASSUME NEW a \in Pages, Added(a)
        PROVE  AgreementKept(b)
    <2>1. /\ UNCHANGED <<made, table, unheard, deletion>>
          /\ b # a => post'[b] = post[b]
          /\ b = a => post[b].stage # "added"
      BY <1>4, AddedEffect
    <2> QED
      BY <1>0, <2>1 DEF PostOf, AgreementKept
  <1>5. ASSUME NEW a \in Pages, LoseAddition(a)
        PROVE  AgreementKept(b)
    <2>1. /\ UNCHANGED <<made, table, deletion>>
          /\ b # a => post'[b] = post[b]
          /\ unheard \subseteq unheard'
          /\ b = a => post[b].stage # "added" \/ post[b].row \in unheard'
      BY <1>5, LoseAdditionEffect
    <2> QED
      BY <1>0, <2>1 DEF PostOf, AgreementKept
  <1>12. ASSUME NEW i, Grown(i)
         PROVE  /\ Len(made') \in Nat /\ Len(made) <= Len(made')
                /\ \A r \in 1..Len(made) : made'[r] = made[r]
                /\ \A r \in 1..Len(made') :
                     r \in 1..Len(made) \/ (r = Len(made) + 1 /\ made'[r] = i)
                /\ \A q \in 1..Len(made) : q \in table' => q \in table
    <2>1. /\ Len(made') \in Nat /\ Len(made) <= Len(made')
          /\ \A r \in 1..Len(made) : made'[r] = made[r]
          /\ \A q \in 1..Len(made) : q \in table' => q \in table
      BY <1>0, <1>12 DEF Grown
    <2>2. ASSUME NEW r \in 1..Len(made'), r \notin 1..Len(made)
          PROVE  r = Len(made) + 1 /\ made'[r] = i
      BY <1>0, <1>12, <2>2 DEF Grown
    <2> QED
      BY <2>1, <2>2
  <1>6. ASSUME NEW a \in Pages, Post(a)
        PROVE  AgreementKept(b)
    <2>1. /\ UNCHANGED deletion
          /\ post[a].row = 0
          /\ b # a => post'[b] = post[b]
          /\ TypedOn[post[a].item] = a
      BY <1>6, PostEffect DEF PostInv, PostOf, TypedThere
    <2>2. CASE /\ UNCHANGED <<made, table, unheard>> /\ post'[a].row = 0
      BY <1>0, <2>1, <2>2 DEF AgreementKept
    <2>3. CASE /\ Grown(post[a].item)
               /\ post'[a].row = 0 /\ unheard' = unheard \cup {Len(made) + 1}
      BY <1>0, <1>12, <2>1, <2>3 DEF AgreementKept
    <2>4. CASE /\ Grown(post[a].item)
               /\ post'[a].row = Len(made) + 1 /\ unheard' = unheard
      BY <1>0, <1>12, <2>1, <2>4 DEF AgreementKept
    <2> QED
      BY <1>6, <2>2, <2>3, <2>4, PostEffect DEF MayGrow
  <1>7. ASSUME NEW a \in Pages, NEW r \in Rows, ServeDelete(a, r)
        PROVE  AgreementKept(b)
    <2>1. /\ UNCHANGED <<made, unheard, post>>
          /\ table' \subseteq table
          /\ \A q \in Rows : deletion'[b][q] = "over" => deletion[b][q] = "over"
      BY <1>7, ServeDeleteEffect
    <2> QED
      BY <1>0, <2>1 DEF AgreementKept
  <1>8. ASSUME NEW a \in Pages, NEW r \in Rows, DeletionStep(a, r)
        PROVE  AgreementKept(b)
    <2>1. /\ UNCHANGED <<made, table, unheard, post>>
          /\ \A q \in Rows : deletion'[b][q] = "over" => deletion[b][q] = "over"
      BY <1>8, DeletionEffect DEF DeletionStep
    <2> QED
      BY <1>0, <2>1 DEF AgreementKept
  <1>9. ASSUME NEW a \in Pages, ListStep(a)
        PROVE  AgreementKept(b)
    BY <1>0, <1>9, ListStepEffect DEF AgreementKept
  <1>10. ASSUME UNCHANGED vars
         PROVE  AgreementKept(b)
    <2>1. UNCHANGED <<made, table, unheard, deletion, post>>
      BY <1>10 DEF vars
    <2> QED
      BY <1>0, <2>1 DEF AgreementKept
  <1>20. ASSUME NEW i \in Items, PostAdrift(i)
        PROVE  AgreementKept(b)
    <2>1. UNCHANGED <<deletion, post>> /\ MayGrow(i)
      BY <1>20, PostAdriftEffect
    <2> QED
      BY <1>0, <1>12, <2>1 DEF AgreementKept, MayGrow
  <1>11. AgreementKept(b)
    BY <1>20, <1>2, <1>3, <1>4, <1>5, <1>6, <1>7, <1>8, <1>9, <1>10
       DEF Next, Answer, ListStep, DeletionStep
  <1> QED
    BY <1>1, <1>11

\* The newest list that a page shows, or is about to, agrees.
LEMMA ListStepKept ==
  ASSUME PageTypeOK, TableTypeOK, ListTypeOK, PostInv, RowsInv, ListInv,
         [Next]_vars, NEW b \in Pages
  PROVE  ListOf(b)'
  <1> USE ZftAdminAssumption
  <1>0. /\ ListOf(b) /\ Len(loads[b]) \in Nat /\ shown[b] \in Nat
        /\ shown[b] <= Len(loads[b])
    BY LenProperties DEF ListInv, ListTypeOK
  <1>1. CASE LoadKnowledge(b) /\ knowledge'[b] = knowledge[b] /\ shown'[b] = shown[b]
    <2>1. /\ Len(loads'[b]) = Len(loads[b]) + 1
          /\ loads'[b][Len(loads[b]) + 1].stage = "sent"
      BY <1>1, LoadEffect
    <2> QED
      BY <1>0, <1>1, <2>1 DEF ListOf
  <1>2. CASE /\ loads'[b] = loads[b]
             /\ knowledge'[b] = knowledge[b] /\ shown'[b] = shown[b]
    <2>1. ~LoadKnowledge(b)
      BY <1>0, <1>2, LoadEffect
    <2>2. \A R : Agrees(b, R) => Agrees(b, R)'
      BY <2>1, AgreesKept
    <2>3. shown'[b] = Len(loads'[b]) => Agrees(b, knowledge[b])'
      BY <1>0, <1>2, <2>2 DEF ListOf, Agrees
    <2>4. ASSUME NEW n \in 1..Len(loads'[b]), n = Len(loads'[b]),
                 loads'[b][n].stage = "served"
          PROVE  Agrees(b, loads[b][n].rows)'
      BY <1>0, <1>2, <2>2, <2>4 DEF ListOf, Agrees
    <2> QED
      BY <2>3, <2>4 DEF ListOf
  <1>3. ASSUME NEW n \in 1..MaxLoads[b],
               Get(b, n) \/ SetKnowledge(b, n) \/ LoseLoad(b, n)
        PROVE  ListOf(b)'
    <2>1. ~LoadKnowledge(b)
      <3>1. Len(loads'[b]) = Len(loads[b])
        BY <1>3, AnswerEffect
      <3> QED
        BY <1>0, <3>1, LoadEffect
    <2>2. \A R : Agrees(b, R) => Agrees(b, R)'
      BY <2>1, AgreesKept
    <2>3. /\ n \in 1..Len(loads[b]) /\ Len(loads'[b]) = Len(loads[b])
          /\ \A m \in 1..Len(loads[b]) : m # n => loads'[b][m] = loads[b][m]
      BY <1>3, AnswerEffect
    <2>4. ASSUME shown'[b] = Len(loads'[b])
          PROVE  Agrees(b, knowledge[b])'
      <3>1. CASE knowledge' = knowledge /\ shown' = shown
        BY <1>0, <2>2, <2>3, <2>4, <3>1 DEF ListOf, Agrees
      <3>2. CASE /\ loads[b][n].stage = "served"
                 /\ knowledge' = [knowledge EXCEPT ![b] = loads[b][n].rows]
                 /\ shown' = [shown EXCEPT ![b] = n]
        <4>1. knowledge'[b] = loads[b][n].rows /\ shown'[b] = n
          BY <3>2 DEF ListTypeOK
        <4>2. Agrees(b, loads[b][n].rows)
          BY <1>0, <2>3, <2>4, <3>2, <4>1 DEF ListOf
        <4> QED
          BY <2>2, <4>1, <4>2 DEF Agrees
      <3> QED
        BY <1>3, <3>1, <3>2, AnswerEffect
    <2>5. ASSUME NEW m \in 1..Len(loads'[b]), m = Len(loads'[b]),
                 loads'[b][m].stage = "served"
          PROVE  Agrees(b, loads[b][m].rows)'
      <3>1. CASE m = n
        <4>1. loads'[b][n] = [stage |-> "served", rows |-> Newest(table)]
          BY <1>3, <2>5, <3>1, AnswerEffect DEF Over
        <4>2. PICK R : R = Newest(table)
          OBVIOUS
        <4>3. Agrees(b, R)
          BY <4>2, NewestAgrees
        <4>4. loads'[b][m].rows = R
          BY <3>1, <4>1, <4>2
        <4> QED
          BY <2>2, <4>3, <4>4 DEF Agrees
      <3>2. CASE m # n
        <4>1. loads'[b][m] = loads[b][m] /\ Agrees(b, loads[b][m].rows)
          BY <1>0, <2>3, <2>5, <3>2 DEF ListOf
        <4> QED
          BY <2>2, <4>1 DEF Agrees
      <3> QED
        BY <3>1, <3>2
    <2> QED
      BY <2>4, <2>5 DEF ListOf
  <1> QED
    BY <1>1, <1>2, <1>3, LoadKinds

\* The invariant holds in every reachable state.
THEOREM Invariance == Spec => []IInv
  <1>1. Init => IInv
    BY InitIInv
  <1>2. ASSUME IInv, [Next]_vars PROVE IInv'
    <2> USE DEF IInv, TypeOK
    <2>1. TypeOK'
      BY <1>2, PageTypeStep, TableTypeStep, ListTypeStep
    <2>2. PostInv'
      <3>1. \A b \in Pages : PostOf(b)'
        BY <1>2, PostStep
      <3>2. \A r \in 1..Len(made') : made'[r] \in Items \ untyped'
        BY <1>2, ItemsStep
      <3>3. \A j \in Items : adrift'[j] > 0 => j \notin untyped'
        BY <1>2, AdriftStep
      <3> QED
        BY <3>1, <3>2, <3>3 DEF PostInv
    <2>3. HeardInv'
      <3>1. \A q \in 1..Len(made'), b \in Pages : HeardOf(q, b)'
        BY <1>2, HeardStep
      <3> QED
        BY <3>1 DEF HeardInv
    <2>4. TwiceOnlyUnheard'
      BY <1>2, TwiceStep
    <2>5. RowsInv'
      BY <1>2, RowsStep DEF RowsInv
    <2>6. ListInv'
      BY <1>2, ListStepKept DEF ListInv
    <2> QED
      BY <2>1, <2>2, <2>3, <2>4, <2>5, <2>6
  <1> QED
    BY <1>1, <1>2, PTL DEF Spec

-----------------------------------------------------------------------------
\* Every variable keeps its type.
THEOREM TypeCorrect == Spec => []TypeOK
  <1>1. IInv => TypeOK
    BY DEF IInv
  <1> QED
    BY <1>1, Invariance, PTL

\* The list a page shows after its newest load agrees with what it has done,
\* in whatever order the answers came.
THEOREM ListAgrees == Spec => []ListReflectsOwnWrites
  <1>1. IInv => ListReflectsOwnWrites
    BY DEF IInv, ListInv, ListOf, Agrees, ListReflectsOwnWrites
  <1> QED
    BY <1>1, Invariance, PTL

\* An item stands in the table twice only if its page has heard of one of the
\* insertions at most, whatever the server still does for requests given up.
THEOREM TwiceExplained == Spec => []TwiceOnlyUnheard
  <1>1. IInv => TwiceOnlyUnheard
    BY DEF IInv
  <1> QED
    BY <1>1, Invariance, PTL

\* The fields are cleared only of what was saved, or typed meanwhile.
THEOREM TypedKept == Spec => TypedIsKept
  <1> DEFINE Kept(a) ==
        fields[a] # NoItem /\ fields'[a] = NoItem =>
            \/ \E r \in 1..Len(made) : made[r] = fields[a]
            \/ fields[a] # post[a].item
  <1>1. ASSUME IInv, [Next]_vars, NEW b \in Pages
        PROVE  Kept(b)
    <2> USE ZftAdminAssumption DEF IInv, TypeOK
    <2>1. ASSUME NEW a \in Pages, NEW i \in Items, Type(a, i)
          PROVE  Kept(b)
      BY <1>1, <2>1, TypeEffect
    <2>2. ASSUME NEW a \in Pages, Added(a)
          PROVE  Kept(b)
      <3>1. (b = a /\ post[a].stage = "added") \/ fields'[b] = fields[b]
        BY <1>1, <2>2, AddedEffect
      <3> QED
        BY <1>1, <3>1 DEF PostInv, PostOf
    <2>3. CASE UNCHANGED fields
      BY <2>3
    <2>5. ASSUME NEW i \in Items, PostAdrift(i)
          PROVE  UNCHANGED fields
      BY <1>1, <2>5, PostAdriftEffect
    <2>4. ASSUME NEW a \in Pages,
                 \/ AddKnowledge(a) \/ LoseAddition(a) \/ Post(a) \/ ListStep(a)
                 \/ \E r \in Rows : ServeDelete(a, r) \/ DeletionStep(a, r)
          PROVE  UNCHANGED fields
      BY <1>1, <2>4, AddEffect, LoseAdditionEffect, PostEffect,
         ServeDeleteEffect,
         DeletionEffect, ListStepEffect DEF DeletionStep
    <2> QED
      BY <1>1, <2>1, <2>2, <2>3, <2>4, <2>5
         DEF Next, Answer, ListStep, DeletionStep, vars
  <1>2. IInv /\ [Next]_vars => [\A a \in Pages : Kept(a)]_vars
    BY <1>1
  <1> QED
    BY <1>2, Invariance, PTL DEF Spec, TypedIsKept
=============================================================================
