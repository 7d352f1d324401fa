------------------------------- MODULE ZftAdmin ------------------------------
(***************************************************************************)
(* The knowledge base of zhongfangtang-ai: the admin page                  *)
(* (app/admin/page.tsx), the route /api/knowledge, and addKnowledge of     *)
(* lib/rag.ts.                                                             *)
(*                                                                         *)
(* A page keeps the list it last received and the fields of a new item; it *)
(* loads the list anew after every addition and deletion, beside loads     *)
(* that are still under way.  The server keeps nothing but the table.  A   *)
(* step is what a page does between two awaits, or what a request does to  *)
(* the table.  Requests and answers may overtake one another or get lost,   *)
(* and the server carries out a request that has reached it, whether or    *)
(* not the page still waits: such a request is adrift.                     *)
(***************************************************************************)
EXTENDS Naturals, Sequences, FiniteSets

CONSTANTS
    Pages,     \* open admin pages
    Items,     \* title and content of knowledge, as somebody types them
    TypedOn,   \* the page on which an item is typed
    NoItem,    \* empty fields
    Limit,     \* rows a list has at most (100 in the code)
    MaxRows,   \* bound: rows ever inserted
    MaxAdrift, \* bound: additions of an item that are adrift at once
    MaxLoads   \* bound: lists each page asks for

ASSUME ZftAdminAssumption ==
    /\ TypedOn \in [Items -> Pages]
    /\ NoItem \notin Items
    /\ Limit \in Nat \ {0} /\ MaxRows \in Nat /\ MaxAdrift \in Nat
    /\ MaxLoads \in [Pages -> Nat]

Rows == 1..MaxRows

VARIABLES
    authed,    \* pages past the password
    fields,    \* the new item on a page
    untyped,   \* items nobody has typed so far
    post,      \* the addition under way on a page: loadingKn, and its request
    adrift,    \* additions of an item that no page waits for any more
    made,      \* rows ever inserted: a row's item, in order of created_at
    table,     \* rows of knowledge_base
    unheard,   \* rows whose page never learned of the insertion
    deletion,  \* a page's request to delete a row
    loads,     \* a page's requests for the list, in the order they were sent
    knowledge, \* the list on a page
    shown      \* the number of the request it answers

vars == <<authed, fields, untyped, post, adrift, made, table, unheard,
          deletion, loads, knowledge, shown>>
typedVars == <<fields, untyped>>
tableVars == <<adrift, made, table, unheard>>
listVars == <<loads, knowledge, shown>>

Idle == [stage |-> "idle", item |-> NoItem, row |-> 0]
Over == [stage |-> "over", rows |-> {}]

PageTypeOK ==
    /\ authed \subseteq Pages
    /\ fields \in [Pages -> Items \cup {NoItem}]
    /\ untyped \subseteq Items
    /\ post \in [Pages -> [stage : {"idle", "sent", "added", "failed"},
                           item : Items \cup {NoItem}, row : 0..MaxRows]]
    /\ deletion \in [Pages -> [Rows -> {"none", "sent", "deleted", "refused", "over",
                                      "adrift", "lost"}]]

TableTypeOK ==
    /\ adrift \in [Items -> 0..MaxAdrift]
    /\ made \in Seq(Items) /\ Len(made) <= MaxRows
    /\ table \subseteq 1..Len(made) /\ unheard \subseteq 1..Len(made)

ListTypeOK ==
    /\ knowledge \in [Pages -> SUBSET Rows]
    /\ loads \in [Pages -> Seq([stage : {"sent", "served", "over"}, rows : SUBSET Rows])]
    /\ shown \in [Pages -> Nat]
    /\ \A a \in Pages : shown[a] <= Len(loads[a])

TypeOK == PageTypeOK /\ TableTypeOK /\ ListTypeOK

Init ==
    /\ authed = {}
    /\ fields = [a \in Pages |-> NoItem]
    /\ untyped = Items
    /\ post = [a \in Pages |-> Idle]
    /\ adrift = [i \in Items |-> 0]
    /\ made = <<>> /\ table = {} /\ unheard = {}
    /\ deletion = [a \in Pages |-> [r \in Rows |-> "none"]]
    /\ loads = [a \in Pages |-> <<>>]
    /\ knowledge = [a \in Pages |-> {}]
    /\ shown = [a \in Pages |-> 0]

\* order("created_at", descending).limit(100)
Newest(rows) == {r \in rows : Cardinality({s \in rows : s > r}) < Limit}

-----------------------------------------------------------------------------
(* The page.                                                               *)

\* loadKnowledge up to its fetch; nothing is asked beyond the bound.
LoadKnowledge(a) ==
    /\ Len(loads[a]) < MaxLoads[a]
    /\ loads' = [loads EXCEPT ![a] = Append(@, [stage |-> "sent", rows |-> {}])]

\* login, or a saved password, and the effect of authed.
Login(a) ==
    /\ a \notin authed
    /\ authed' = authed \cup {a}
    /\ LoadKnowledge(a)
    /\ UNCHANGED <<typedVars, post, tableVars, deletion, knowledge, shown>>

\* The fields stay enabled while an addition is under way.
Type(a, i) ==
    /\ a \in authed /\ i \in untyped /\ TypedOn[i] = a
    /\ fields[a] = NoItem \/ post[a] # Idle
    /\ fields' = [fields EXCEPT ![a] = i]
    /\ untyped' = untyped \ {i}
    /\ UNCHANGED <<authed, post, tableVars, deletion, listVars>>

\* Mutation: the button is not disabled.
AddKnowledge_Enabled(a) ==
    /\ a \in authed /\ fields[a] # NoItem
    /\ post' = [post EXCEPT ![a] = [stage |-> "sent", item |-> fields[a], row |-> 0]]
    /\ UNCHANGED <<authed, typedVars, tableVars, deletion, listVars>>

\* addKnowledge up to its fetch; the button is disabled while loadingKn is set.
AddKnowledge(a) ==
    /\ a \in authed /\ fields[a] # NoItem /\ post[a] = Idle
    /\ post' = [post EXCEPT ![a] = [stage |-> "sent", item |-> fields[a], row |-> 0]]
    /\ UNCHANGED <<authed, typedVars, tableVars, deletion, listVars>>

\* Mutation: the fields are cleared whatever the answer says.
Added_ClearAlways(a) ==
    /\ post[a].stage \in {"added", "failed"}
    /\ fields' = [fields EXCEPT ![a] = NoItem]
    /\ post' = [post EXCEPT ![a] = Idle]
    /\ IF post[a].stage = "added" THEN LoadKnowledge(a) ELSE UNCHANGED loads
    /\ UNCHANGED <<authed, untyped, tableVars, deletion, knowledge, shown>>

\* The answer: only with a row in it are the fields cleared, whatever stands
\* in them by now, and is the list loaded.
Added(a) ==
    /\ post[a].stage \in {"added", "failed"}
    /\ IF post[a].stage = "added"
       THEN fields' = [fields EXCEPT ![a] = NoItem] /\ LoadKnowledge(a)
       ELSE UNCHANGED <<fields, loads>>
    /\ post' = [post EXCEPT ![a] = Idle]
    /\ UNCHANGED <<authed, untyped, tableVars, deletion, knowledge, shown>>

\* fetch rejects before or after the server was reached: the item is still in
\* the fields and may be sent again, while the server may yet insert it.
LoseAddition(a) ==
    /\ post[a] # Idle
    /\ post' = [post EXCEPT ![a] = Idle]
    /\ unheard' = IF post[a].stage = "added" THEN unheard \cup {post[a].row} ELSE unheard
    /\ \/ UNCHANGED adrift
       \/ LET i == post[a].item IN
          /\ post[a].stage = "sent" /\ adrift[i] < MaxAdrift
          /\ adrift' = [adrift EXCEPT ![i] = @ + 1]
    /\ UNCHANGED <<authed, typedVars, made, table, deletion, listVars>>

Delete(a, r, stage) == deletion' = [deletion EXCEPT ![a][r] = stage]

\* deleteKnowledge up to its fetch: once for a row, to bound the model.
DeleteKnowledge(a, r) ==
    /\ r \in knowledge[a] /\ deletion[a][r] = "none"
    /\ Delete(a, r, "sent")
    /\ UNCHANGED <<authed, typedVars, post, tableVars, listVars>>

\* Mutation: the list is not loaded after a deletion.
Deleted_NoReload(a, r) ==
    /\ deletion[a][r] \in {"deleted", "refused"}
    /\ Delete(a, r, IF deletion[a][r] = "deleted" THEN "over" ELSE "lost")
    /\ UNCHANGED <<authed, typedVars, post, tableVars, listVars>>

\* The answer, which nobody looks at; a refusal is as good as a deletion.
Deleted(a, r) ==
    /\ deletion[a][r] \in {"deleted", "refused"}
    /\ Delete(a, r, IF deletion[a][r] = "deleted" THEN "over" ELSE "lost")
    /\ LoadKnowledge(a)
    /\ UNCHANGED <<authed, typedVars, post, tableVars, knowledge, shown>>

\* fetch rejects: the list is not loaded, while the server may yet delete.
LoseDeletion(a, r) ==
    /\ deletion[a][r] \in {"sent", "deleted", "refused"}
    /\ \/ Delete(a, r, "lost")
       \/ deletion[a][r] = "sent" /\ Delete(a, r, "adrift")
    /\ UNCHANGED <<authed, typedVars, post, tableVars, listVars>>

\* The answer to a load replaces the list, however old it is.
SetKnowledge(a, n) ==
    /\ n \in DOMAIN loads[a] /\ loads[a][n].stage = "served"
    /\ loads' = [loads EXCEPT ![a][n] = Over]
    /\ knowledge' = [knowledge EXCEPT ![a] = loads[a][n].rows]
    /\ shown' = [shown EXCEPT ![a] = n]
    /\ UNCHANGED <<authed, typedVars, post, tableVars, deletion>>

\* The list cannot be read, or fetch rejects: the page shows what it showed.
LoseLoad(a, n) ==
    /\ n \in DOMAIN loads[a] /\ loads[a][n].stage \in {"sent", "served"}
    /\ loads' = [loads EXCEPT ![a][n] = Over]
    /\ UNCHANGED <<authed, typedVars, post, tableVars, deletion, knowledge, shown>>

-----------------------------------------------------------------------------
(* The server.                                                             *)

\* GET
Get(a, n) ==
    /\ n \in DOMAIN loads[a] /\ loads[a][n].stage = "sent"
    /\ loads' = [loads EXCEPT ![a][n] = [stage |-> "served", rows |-> Newest(table)]]
    /\ UNCHANGED <<authed, typedVars, post, tableVars, deletion, knowledge, shown>>

\* addKnowledge of lib/rag.ts
Insert(i) ==
    /\ Len(made) < MaxRows
    /\ made' = Append(made, i)
    /\ table' = table \cup {Len(made')}

\* POST: the password may be refused (one that localStorage kept is not
\* compared with anything), the embedding or the insertion may fail, the latter
\* also when the row was inserted and the answer of the database is lost.
Post(a) ==
    /\ post[a].stage = "sent"
    /\ \/ /\ Insert(post[a].item)
          /\ post' = [post EXCEPT ![a].stage = "added", ![a].row = Len(made')]
          /\ UNCHANGED unheard
       \/ /\ post' = [post EXCEPT ![a].stage = "failed"]
          /\ \/ UNCHANGED <<made, table, unheard>>
             \/ Insert(post[a].item) /\ unheard' = unheard \cup {Len(made')}
    /\ UNCHANGED <<authed, typedVars, adrift, deletion, listVars>>

\* POST of a request that nobody waits for.
PostAdrift(i) ==
    /\ adrift[i] > 0
    /\ adrift' = [adrift EXCEPT ![i] = @ - 1]
    /\ \/ Insert(i) /\ unheard' = unheard \cup {Len(made')}
       \/ UNCHANGED <<made, table, unheard>>
    /\ UNCHANGED <<authed, typedVars, post, deletion, listVars>>

\* DELETE: a row that is gone already is deleted as well; or the password is
\* refused, or the table, or its answer, out of reach.
ServeDelete(a, r) ==
    LET heard == deletion[a][r] = "sent" IN
    /\ deletion[a][r] \in {"sent", "adrift"}
    /\ \/ table' = table \ {r} /\ Delete(a, r, IF heard THEN "deleted" ELSE "lost")
       \/ /\ table' \in {table, table \ {r}}
          /\ Delete(a, r, IF heard THEN "refused" ELSE "lost")
    /\ UNCHANGED <<authed, typedVars, post, adrift, made, unheard, listVars>>

-----------------------------------------------------------------------------
Answer(a) == Added(a) \/ LoseAddition(a)

Next ==
    \/ \E i \in Items : PostAdrift(i)
    \/ \E a \in Pages :
        \/ Login(a) \/ AddKnowledge(a) \/ Answer(a) \/ Post(a)
        \/ \E i \in Items : Type(a, i)
        \/ \E r \in Rows :
            DeleteKnowledge(a, r) \/ ServeDelete(a, r) \/ Deleted(a, r) \/ LoseDeletion(a, r)
        \/ \E n \in 1..MaxLoads[a] : Get(a, n) \/ SetKnowledge(a, n) \/ LoseLoad(a, n)

Spec == Init /\ [][Next]_vars

-----------------------------------------------------------------------------
(* Properties.                                                             *)

InTableAmongNewest(r) ==
    r \in table /\ Cardinality({s \in 1..Len(made) : s > r}) < Limit

\* Once the answer to the newest load is the last one shown, the list agrees
\* with all the page has done and heard of: what it deleted is gone, and what
\* it added is there, unless somebody deleted it or newer rows fill the list
\* (page.tsx:80, 98).  Before that, an older answer may undo either.
ListReflectsOwnWrites ==
    \A a \in Pages : shown[a] = Len(loads[a]) =>
        /\ \A r \in Rows : deletion[a][r] = "over" => r \notin knowledge[a]
        /\ \A r \in 1..Len(made) :
            /\ TypedOn[made[r]] = a /\ r \notin unheard /\ post[a].row # r
            /\ InTableAmongNewest(r)
            => r \in knowledge[a]

\* The fields are cleared only of an item that is in a row by then, or that was
\* typed before the answer to another addition came: page.tsx:78-79 clears what
\* stands there, not what was sent.
TypedIsKept ==
    [][\A a \in Pages :
        fields[a] # NoItem /\ fields'[a] = NoItem =>
            \/ \E r \in 1..Len(made) : made[r] = fields[a]
            \/ fields[a] # post[a].item]_vars

\* An item stands in the table twice only if the page knows of one insertion
\* at most: POST is not idempotent and the page keeps the fields of a request
\* whose answer it lost (85-87), but never sends again what it has heard of.
TwiceOnlyUnheard ==
    \A r, s \in 1..Len(made) :
        r # s /\ made[r] = made[s] => r \in unheard \/ s \in unheard

=============================================================================
