-------------------------- MODULE DraftSync_proofs --------------------------
(***************************************************************************)
(* The invariants of DraftSync for every number of pages, queues, edits    *)
(* and fetches, whichever pages hide, start runs or lose requests: its     *)
(* types, what keeps saved edits in the draft, and what keeps a page from  *)
(* refusing itself.                                                        *)
(***************************************************************************)
EXTENDS DraftSync, TLAPS

-----------------------------------------------------------------------------
(* The inductive invariant.                                                *)

Happened(event, p) == <<event, p>> \in past

\* A page that was not hidden and lost no answer has no request that nobody waits
\* for, and one that was not refused either has not fetched the draft again.
PageHolds(p) ==
    /\ ~Happened("hid", p) => view[p] = "visible"
    /\ ~Happened("hid", p) /\ ~Happened("failed", p) =>
           \A l \in Loose : request[<<p, l>>] = NoRequest
    /\ ~Happened("hid", p) /\ ~Happened("refused", p) =>
           p \notin conflict /\ refresh[p] = <<>>

PageInv == \A p \in Pages : PageHolds(p)

Disturbing == {"refused", "overtaken", "misled", "hid"}

Undisturbed == \A p \in Pages, event \in Disturbing : ~Happened(event, p)

\* While nothing disturbs it, a request of a page carries what the page shows and
\* the hash of a part of it: what it writes has in it what it overwrites.
Carries(k) ==
    /\ request[k].stage # "idle" => request[k].graph \subseteq canvas[k[1]]
    /\ request[k].stage \in {"sent", "compared"} => request[k].hash \subseteq request[k].graph
    /\ request[k].stage = "compared" => request[k].hash = draft
    /\ request[k].stage = "answered" => request[k].hash \subseteq canvas[k[1]]

DraftKeeps ==
    /\ saved \subseteq draft
    /\ \A p \in Pages : hash[p] \subseteq canvas[p]
    /\ \A k \in Places : Carries(k)

DraftInv == Undisturbed => DraftKeeps

\* No other page has written, no answer was lost and no two saves overlapped.
Alone(p) ==
    /\ \A event \in {"hid", "failed", "overlapped"} : ~Happened(event, p)
    /\ \A q \in Pages \ {p} : ~Happened("wrote", q)

\* A page that is alone has one save under way at most, and knows the hash of the
\* draft before it and after it.
KnowsDraft(p) ==
    /\ ~Happened("refused", p)
    /\ \A q, r \in Queues :
           request[<<p, q>>] # NoRequest /\ request[<<p, r>>] # NoRequest => q = r
    /\ \A q \in Queues :
           /\ request[<<p, q>>].stage # "refused"
           /\ request[<<p, q>>].stage \in {"sent", "compared", "answered"} =>
                  request[<<p, q>>].hash = draft
    /\ (\A q \in Queues : request[<<p, q>>].stage \in {"idle", "sent"}) => hash[p] = draft

AloneInv == \A p \in Pages : Alone(p) => KnowsDraft(p)

IInv == TypeOK /\ PageInv /\ DraftInv /\ AloneInv

-----------------------------------------------------------------------------
(* Types.                                                                  *)

PageTypes ==
    /\ canvas \in [Pages -> Graphs] /\ hash \in [Pages -> Graphs]
    /\ loaded \in [Pages -> BOOLEAN]
    /\ debounced \subseteq Pages /\ conflict \subseteq Pages /\ ran \subseteq Pages
    /\ queue \in [Pages \X Queues -> Seq(BOOLEAN)]
    /\ view \in [Pages -> {"visible", "hidden", "timer", "shown"}]
    /\ made \in Graphs

DraftTypes == draft \in Graphs /\ saved \in Graphs /\ past \subseteq Events \X Pages

RequestTypes == request \in [Places -> Requests]

Fetches == [served : BOOLEAN, keep : BOOLEAN, was : BOOLEAN, graph : Graphs]

RefreshTypes == refresh \in [Pages -> Seq(Fetches)]

LEMMA TypeParts == TypeOK <=> PageTypes /\ DraftTypes /\ RequestTypes /\ RefreshTypes
BY DEF TypeOK, PageTypes, DraftTypes, RequestTypes, RefreshTypes, Fetches

LEMMA PlaceParts ==
    /\ \A p \in Pages, q \in Queues : <<p, q>> \in Places /\ <<p, q>> \in Pages \X Queues
    /\ \A p \in Pages, l \in Loose : <<p, l>> \in Places
    /\ \A k \in Places :
           /\ k[1] \in Pages /\ k = <<k[1], k[2]>>
           /\ k[2] \in Queues \/ k[2] \in Loose
           /\ ~ (k[2] \in Queues /\ k[2] \in Loose)
BY DraftSyncAssumption DEF Places

LEMMA RequestParts ==
    ASSUME NEW r \in Requests
    PROVE  /\ r.stage \in Stages /\ r.graph \in Graphs
           /\ r.hash \in Graphs /\ r.quiet \in BOOLEAN
BY DEF Requests

LEMMA Staged ==
    ASSUME NEW r \in Requests, NEW st \in Stages
    PROVE  /\ [r EXCEPT !.stage = st] \in Requests
           /\ [r EXCEPT !.stage = st].stage = st
           /\ [r EXCEPT !.stage = st].graph = r.graph
           /\ [r EXCEPT !.stage = st].hash = r.hash
BY DEF Requests

LEMMA Answered ==
    ASSUME NEW r \in Requests, NEW h \in Graphs
    PROVE  /\ [r EXCEPT !.stage = "answered", !.hash = h] \in Requests
           /\ [r EXCEPT !.stage = "answered", !.hash = h].stage = "answered"
           /\ [r EXCEPT !.stage = "answered", !.hash = h].graph = r.graph
           /\ [r EXCEPT !.stage = "answered", !.hash = h].hash = h
BY DEF Requests, Stages

LEMMA Compared ==
    ASSUME NEW r \in Requests
    PROVE  /\ CompareHash(r) \in Requests
           /\ CompareHash(r).graph = r.graph
           /\ CompareHash(r).hash = r.hash
           /\ CompareHash(r).stage = IF draft = r.hash THEN "compared" ELSE "refused"
BY DEF Requests, Stages, CompareHash

LEMMA NewRequests ==
    /\ NoRequest \in Requests
    /\ NoRequest.stage = "idle" /\ NoRequest.graph = {} /\ NoRequest.hash = {}
    /\ PageTypes => \A p \in Pages, quiet \in BOOLEAN :
              /\ PostParams(p, quiet) \in Requests
              /\ PostParams(p, quiet).stage = "sent"
              /\ PostParams(p, quiet).graph = canvas[p]
              /\ PostParams(p, quiet).hash = hash[p]
BY DEF NoRequest, Requests, Stages, Graphs, PageTypes, PostParams

LEMMA WithoutType ==
    ASSUME NEW S, NEW s \in Seq(S), NEW i \in DOMAIN s
    PROVE  Without(s, i) \in Seq(S)
<1>1. i \in 1..Len(s)
  OBVIOUS
<1>2. SubSeq(s, 1, i - 1) \in Seq(S) /\ SubSeq(s, i + 1, Len(s)) \in Seq(S)
  BY <1>1
<1> QED
  BY <1>2 DEF Without

\* A save joins a queue.
LEMMA Enqueued ==
    ASSUME PageTypes, NEW p \in Pages, NEW q \in Queues, NEW quiet \in BOOLEAN,
           Enqueue(p, q, quiet)
    PROVE  queue' \in [Pages \X Queues -> Seq(BOOLEAN)]
<1>1. <<p, q>> \in Pages \X Queues /\ queue[<<p, q>>] \in Seq(BOOLEAN)
  BY DEF PageTypes
<1>2. Append(queue[<<p, q>>], quiet) \in Seq(BOOLEAN)
  BY <1>1
<1> QED
  BY <1>1, <1>2 DEF Enqueue, PageTypes

LEMMA PageTypesKept ==
    ASSUME PageTypes, RequestTypes, RefreshTypes, [Next]_vars
    PROVE  PageTypes'
<1> USE DraftSyncAssumption DEF PageTypes
<1>1. ASSUME NEW e \in Edits, Edit(e)
      PROVE  PageTypes'
  <2> DEFINE q == EditedOn[e]
  <2>1. q \in Pages /\ (SaveMode[e] = "now_quiet") \in BOOLEAN /\ Canvas \in Queues
    OBVIOUS
  <2>2. made \cup {e} \in Graphs /\ canvas[q] \cup {e} \in Graphs
    BY <2>1 DEF Graphs
  <2> HIDE DEF q
  <2>3. /\ made' = made \cup {e} /\ canvas' = [canvas EXCEPT ![q] = @ \cup {e}]
        /\ debounced' \in {debounced, debounced \cup {q}}
        /\ queue' = queue \/ Enqueue(q, Canvas, SaveMode[e] = "now_quiet")
        /\ UNCHANGED <<hash, loaded, conflict, view, ran>>
    BY <1>1 DEF Edit, q
  <2>4. queue' \in [Pages \X Queues -> Seq(BOOLEAN)]
    BY <2>1, <2>3, Enqueued
  <2> QED
    BY <2>1, <2>2, <2>3, <2>4
<1>2. ASSUME NEW p \in Pages, Debounce(p)
      PROVE  PageTypes'
  <2>1. queue' \in [Pages \X Queues -> Seq(BOOLEAN)]
    BY <1>2, Enqueued DEF Debounce
  <2> QED
    BY <1>2, <2>1 DEF Debounce
<1>3. ASSUME NEW p \in Pages, Run(p)
      PROVE  PageTypes'
  <2>1. queue' \in [Pages \X Queues -> Seq(BOOLEAN)]
    BY <1>3, Enqueued DEF Run
  <2> QED
    BY <1>3, <2>1 DEF Run
<1>4. ASSUME NEW p \in Pages, NEW q \in Queues, PerformSync(p, q)
      PROVE  PageTypes'
  <2>1. <<p, q>> \in Pages \X Queues
    OBVIOUS
  <2>2. queue[<<p, q>>] \in Seq(BOOLEAN) /\ queue[<<p, q>>] # <<>>
    BY <1>4, <2>1 DEF PerformSync
  <2>3. Tail(queue[<<p, q>>]) \in Seq(BOOLEAN)
    <3>1. \A s \in Seq(BOOLEAN) : s # <<>> => Tail(s) \in Seq(BOOLEAN)
      OBVIOUS
    <3> QED
      BY <2>2, <3>1
  <2>4. queue' \in [Pages \X Queues -> Seq(BOOLEAN)]
    BY <1>4, <2>1, <2>3 DEF PerformSync
  <2> QED
    BY <1>4, <2>4 DEF PerformSync
<1>5. ASSUME NEW p \in Pages, NEW q \in Queues, Saved(p, q)
      PROVE  PageTypes'
  <2>1. request[<<p, q>>].hash \in Graphs
    BY PlaceParts, RequestParts DEF RequestTypes
  <2> QED
    BY <1>5, <2>1 DEF Saved
<1>6. ASSUME NEW p \in Pages, NEW q \in Queues, Refused(p, q)
      PROVE  PageTypes'
  BY <1>6 DEF Refused, Note
<1>7. ASSUME NEW p \in Pages, NEW q \in Queues, SaveFails(p, q)
      PROVE  PageTypes'
  BY <1>7 DEF SaveFails, Note, pageVars
<1>8. ASSUME NEW p \in Pages, RefreshAfterConflict(p)
      PROVE  PageTypes'
  BY <1>8 DEF RefreshAfterConflict, RefreshDraft
<1>9. ASSUME NEW p \in Pages, NEW i \in 1..MaxRefreshes, GetDraft(p, i)
      PROVE  PageTypes'
  BY <1>9 DEF GetDraft
<1>10. ASSUME NEW p \in Pages, NEW i \in 1..MaxRefreshes, Refreshed(p, i)
      PROVE  PageTypes'
  <2>1. refresh[p] \in Seq(Fetches) /\ i \in DOMAIN refresh[p]
    BY <1>10 DEF Refreshed, RefreshTypes
  <2>2. refresh[p][i] \in Fetches
    BY <2>1
  <2>3. refresh[p][i].graph \in Graphs
    BY <2>2 DEF Fetches
  <2> QED
    BY <1>10, <2>3 DEF Refreshed
<1>11. ASSUME NEW p \in Pages, NEW i \in 1..MaxRefreshes, RefreshFails(p, i)
      PROVE  PageTypes'
  BY <1>11 DEF RefreshFails, Note
<1>12. ASSUME NEW p \in Pages, Hide(p)
      PROVE  PageTypes'
  BY <1>12 DEF Hide, Note
<1>13. ASSUME NEW p \in Pages, Show(p)
      PROVE  PageTypes'
  BY <1>13 DEF Show
<1>14. ASSUME NEW p \in Pages, RefreshAfterShow(p)
      PROVE  PageTypes'
  BY <1>14 DEF RefreshAfterShow, RefreshDraft
<1>15. ASSUME NEW k \in Places, Compare(k)
      PROVE  PageTypes'
  BY <1>15 DEF Compare, pageVars
<1>16. ASSUME NEW k \in Places, Write(k)
      PROVE  PageTypes'
  BY <1>16 DEF Write, pageVars
<1>17. ASSUME NEW k \in Places, Respond(k)
      PROVE  PageTypes'
  BY <1>17 DEF Respond, Note, pageVars
<1>18. ASSUME NEW p \in Pages, NEW l \in Loose, Lose(p, l)
      PROVE  PageTypes'
  BY <1>18 DEF Lose, pageVars
<1>19. CASE UNCHANGED vars
  BY <1>19 DEF vars, pageVars
<1> QED
  BY <1>1, <1>2, <1>3, <1>4, <1>5, <1>6, <1>7, <1>8, <1>9, <1>10,
     <1>11, <1>12, <1>13, <1>14, <1>15, <1>16, <1>17, <1>18, <1>19
     DEF Next, Fetch, Answer, Server

LEMMA DraftTypesKept ==
    ASSUME DraftTypes, RequestTypes, [Next]_vars
    PROVE  DraftTypes'
<1> USE DraftSyncAssumption DEF DraftTypes, Events
<1>1. ASSUME NEW e \in Edits, Edit(e)
      PROVE  DraftTypes'
  BY <1>1 DEF Edit, Enqueue
<1>2. ASSUME NEW p \in Pages, Debounce(p)
      PROVE  DraftTypes'
  BY <1>2 DEF Debounce, Enqueue
<1>3. ASSUME NEW p \in Pages, Run(p)
      PROVE  DraftTypes'
  BY <1>3 DEF Run, Enqueue
<1>4. ASSUME NEW p \in Pages, NEW q \in Queues, PerformSync(p, q)
      PROVE  DraftTypes'
  BY <1>4 DEF PerformSync, Note
<1>5. ASSUME NEW p \in Pages, NEW q \in Queues, Saved(p, q)
      PROVE  DraftTypes'
  BY <1>5 DEF Saved
<1>6. ASSUME NEW p \in Pages, NEW q \in Queues, Refused(p, q)
      PROVE  DraftTypes'
  BY <1>6 DEF Refused, Note
<1>7. ASSUME NEW p \in Pages, NEW q \in Queues, SaveFails(p, q)
      PROVE  DraftTypes'
  BY <1>7 DEF SaveFails, Note, pageVars
<1>8. ASSUME NEW p \in Pages, RefreshAfterConflict(p)
      PROVE  DraftTypes'
  BY <1>8 DEF RefreshAfterConflict, RefreshDraft
<1>9. ASSUME NEW p \in Pages, NEW i \in 1..MaxRefreshes, GetDraft(p, i)
      PROVE  DraftTypes'
  BY <1>9 DEF GetDraft
<1>10. ASSUME NEW p \in Pages, NEW i \in 1..MaxRefreshes, Refreshed(p, i)
      PROVE  DraftTypes'
  BY <1>10 DEF Refreshed
<1>11. ASSUME NEW p \in Pages, NEW i \in 1..MaxRefreshes, RefreshFails(p, i)
      PROVE  DraftTypes'
  BY <1>11 DEF RefreshFails, Note
<1>12. ASSUME NEW p \in Pages, Hide(p)
      PROVE  DraftTypes'
  BY <1>12 DEF Hide, Note
<1>13. ASSUME NEW p \in Pages, Show(p)
      PROVE  DraftTypes'
  BY <1>13 DEF Show
<1>14. ASSUME NEW p \in Pages, RefreshAfterShow(p)
      PROVE  DraftTypes'
  BY <1>14 DEF RefreshAfterShow, RefreshDraft
<1>15. ASSUME NEW k \in Places, Compare(k)
      PROVE  DraftTypes'
  BY <1>15 DEF Compare, pageVars
<1>16. ASSUME NEW k \in Places, Write(k)
      PROVE  DraftTypes'
  <2>1. request[k].graph \in Graphs /\ k[1] \in Pages
    BY RequestParts, PlaceParts DEF RequestTypes
  <2>2. saved \cup request[k].graph \in Graphs
    BY <2>1 DEF Graphs
  <2>3. OvertakenBy(k) \subseteq Pages
    BY PlaceParts DEF OvertakenBy
  <2> QED
    BY <1>16, <2>1, <2>2, <2>3 DEF Write
<1>17. ASSUME NEW k \in Places, Respond(k)
      PROVE  DraftTypes'
  <2>1. k[1] \in Pages
    BY PlaceParts
  <2> QED
    BY <1>17, <2>1 DEF Respond, Note, pageVars
<1>18. ASSUME NEW p \in Pages, NEW l \in Loose, Lose(p, l)
      PROVE  DraftTypes'
  BY <1>18 DEF Lose, pageVars
<1>19. CASE UNCHANGED vars
  BY <1>19 DEF vars, pageVars
<1> QED
  BY <1>1, <1>2, <1>3, <1>4, <1>5, <1>6, <1>7, <1>8, <1>9, <1>10,
     <1>11, <1>12, <1>13, <1>14, <1>15, <1>16, <1>17, <1>18, <1>19
     DEF Next, Fetch, Answer, Server

LEMMA RequestTypesKept ==
    ASSUME PageTypes, DraftTypes, RequestTypes, [Next]_vars
    PROVE  RequestTypes'
<1> USE DraftSyncAssumption DEF RequestTypes
<1>1. ASSUME NEW e \in Edits, Edit(e)
      PROVE  RequestTypes'
  BY <1>1 DEF Edit, Enqueue
<1>2. ASSUME NEW p \in Pages, Debounce(p)
      PROVE  RequestTypes'
  BY <1>2 DEF Debounce, Enqueue
<1>3. ASSUME NEW p \in Pages, Run(p)
      PROVE  RequestTypes'
  BY <1>3 DEF Run, Enqueue
<1>4. ASSUME NEW p \in Pages, NEW q \in Queues, PerformSync(p, q)
      PROVE  RequestTypes'
  <2>1. Head(queue[<<p, q>>]) \in BOOLEAN
    BY <1>4, PlaceParts DEF PageTypes, PerformSync
  <2>2. PostParams(p, Head(queue[<<p, q>>])) \in Requests /\ <<p, q>> \in Places
    BY <2>1, NewRequests, PlaceParts
  <2> QED
    BY <1>4, <2>2 DEF PerformSync
<1>5. ASSUME NEW p \in Pages, NEW q \in Queues, Saved(p, q)
      PROVE  RequestTypes'
  BY <1>5, NewRequests DEF Saved
<1>6. ASSUME NEW p \in Pages, NEW q \in Queues, Refused(p, q)
      PROVE  RequestTypes'
  BY <1>6, NewRequests DEF Refused, Note
<1>7. ASSUME NEW p \in Pages, NEW q \in Queues, SaveFails(p, q)
      PROVE  RequestTypes'
  <2>1. NoRequest \in Requests /\ request[<<p, q>>] \in Requests
    BY NewRequests, PlaceParts
  <2> QED
    BY <1>7, <2>1 DEF SaveFails
<1>8. ASSUME NEW p \in Pages, RefreshAfterConflict(p)
      PROVE  RequestTypes'
  BY <1>8 DEF RefreshAfterConflict, RefreshDraft
<1>9. ASSUME NEW p \in Pages, NEW i \in 1..MaxRefreshes, GetDraft(p, i)
      PROVE  RequestTypes'
  BY <1>9 DEF GetDraft
<1>10. ASSUME NEW p \in Pages, NEW i \in 1..MaxRefreshes, Refreshed(p, i)
      PROVE  RequestTypes'
  BY <1>10 DEF Refreshed
<1>11. ASSUME NEW p \in Pages, NEW i \in 1..MaxRefreshes, RefreshFails(p, i)
      PROVE  RequestTypes'
  BY <1>11 DEF RefreshFails, Note
<1>12. ASSUME NEW p \in Pages, Hide(p)
      PROVE  RequestTypes'
  BY <1>12, NewRequests DEF Hide, Note
<1>13. ASSUME NEW p \in Pages, Show(p)
      PROVE  RequestTypes'
  BY <1>13 DEF Show
<1>14. ASSUME NEW p \in Pages, RefreshAfterShow(p)
      PROVE  RequestTypes'
  BY <1>14 DEF RefreshAfterShow, RefreshDraft
<1>15. ASSUME NEW k \in Places, Compare(k)
      PROVE  RequestTypes'
  <2>1. CompareHash(request[k]) \in Requests /\ NoRequest \in Requests
    BY Compared, NewRequests
  <2> QED
    BY <1>15, <2>1 DEF Compare, HeardOf
<1>16. ASSUME NEW k \in Places, Write(k)
      PROVE  RequestTypes'
  <2>1. request[k] \in Requests /\ "written" \in Stages /\ NoRequest \in Requests
    BY NewRequests DEF Stages
  <2>2. [request[k] EXCEPT !.stage = "written"] \in Requests
    BY <2>1, Staged
  <2> QED
    BY <1>16, <2>1, <2>2 DEF Write, HeardOf
<1>17. ASSUME NEW k \in Places, Respond(k)
      PROVE  RequestTypes'
  <2>1. [request[k] EXCEPT !.stage = "answered", !.hash = draft] \in Requests
    BY Answered DEF DraftTypes
  <2> QED
    BY <1>17, <2>1 DEF Respond
<1>18. ASSUME NEW p \in Pages, NEW l \in Loose, Lose(p, l)
      PROVE  RequestTypes'
  BY <1>18, NewRequests DEF Lose, pageVars
<1>19. CASE UNCHANGED vars
  BY <1>19 DEF vars, pageVars
<1> QED
  BY <1>1, <1>2, <1>3, <1>4, <1>5, <1>6, <1>7, <1>8, <1>9, <1>10,
     <1>11, <1>12, <1>13, <1>14, <1>15, <1>16, <1>17, <1>18, <1>19
     DEF Next, Fetch, Answer, Server

LEMMA RefreshTypesKept ==
    ASSUME PageTypes, DraftTypes, RefreshTypes, [Next]_vars
    PROVE  RefreshTypes'
<1> USE DraftSyncAssumption DEF RefreshTypes
<1>1. ASSUME NEW e \in Edits, Edit(e)
      PROVE  RefreshTypes'
  BY <1>1 DEF Edit, Enqueue
<1>2. ASSUME NEW p \in Pages, Debounce(p)
      PROVE  RefreshTypes'
  BY <1>2 DEF Debounce, Enqueue
<1>3. ASSUME NEW p \in Pages, Run(p)
      PROVE  RefreshTypes'
  BY <1>3 DEF Run, Enqueue
<1>4. ASSUME NEW p \in Pages, NEW q \in Queues, PerformSync(p, q)
      PROVE  RefreshTypes'
  BY <1>4 DEF PerformSync, Note
<1>5. ASSUME NEW p \in Pages, NEW q \in Queues, Saved(p, q)
      PROVE  RefreshTypes'
  BY <1>5 DEF Saved
<1>6. ASSUME NEW p \in Pages, NEW q \in Queues, Refused(p, q)
      PROVE  RefreshTypes'
  BY <1>6 DEF Refused, Note
<1>7. ASSUME NEW p \in Pages, NEW q \in Queues, SaveFails(p, q)
      PROVE  RefreshTypes'
  BY <1>7 DEF SaveFails, Note, pageVars
<1>8. ASSUME NEW p \in Pages, RefreshAfterConflict(p)
      PROVE  RefreshTypes'
  <2>1. [served |-> FALSE, keep |-> TRUE, was |-> loaded[p], graph |-> {}] \in Fetches
    BY DEF PageTypes, Fetches, Graphs
  <2> QED
    BY <1>8, <2>1 DEF RefreshAfterConflict, RefreshDraft
<1>9. ASSUME NEW p \in Pages, NEW i \in 1..MaxRefreshes, GetDraft(p, i)
      PROVE  RefreshTypes'
  <2>1. refresh[p] \in Seq(Fetches) /\ i \in DOMAIN refresh[p]
    BY <1>9 DEF GetDraft
  <2>2. refresh[p][i] \in Fetches
    BY <2>1
  <2> DEFINE f == [refresh[p][i] EXCEPT !.served = TRUE, !.graph = draft]
  <2>3. f \in Fetches
    BY <2>2 DEF Fetches, DraftTypes
  <2>4. refresh' = [refresh EXCEPT ![p] = [@ EXCEPT ![i] = f]]
    BY <1>9, <2>1 DEF GetDraft
  <2> HIDE DEF f
  <2>5. [refresh[p] EXCEPT ![i] = f] \in Seq(Fetches)
    BY <2>1, <2>3
  <2> QED
    BY <2>4, <2>5
<1>10. ASSUME NEW p \in Pages, NEW i \in 1..MaxRefreshes, Refreshed(p, i)
      PROVE  RefreshTypes'
  <2>1. refresh[p] \in Seq(Fetches) /\ i \in DOMAIN refresh[p]
    BY <1>10 DEF Refreshed
  <2>2. Without(refresh[p], i) \in Seq(Fetches)
    BY <2>1, WithoutType
  <2> QED
    BY <1>10, <2>2 DEF Refreshed
<1>11. ASSUME NEW p \in Pages, NEW i \in 1..MaxRefreshes, RefreshFails(p, i)
      PROVE  RefreshTypes'
  <2>1. refresh[p] \in Seq(Fetches) /\ i \in DOMAIN refresh[p]
    BY <1>11 DEF RefreshFails
  <2>2. Without(refresh[p], i) \in Seq(Fetches)
    BY <2>1, WithoutType
  <2> QED
    BY <1>11, <2>2 DEF RefreshFails
<1>12. ASSUME NEW p \in Pages, Hide(p)
      PROVE  RefreshTypes'
  BY <1>12 DEF Hide, Note
<1>13. ASSUME NEW p \in Pages, Show(p)
      PROVE  RefreshTypes'
  BY <1>13 DEF Show
<1>14. ASSUME NEW p \in Pages, RefreshAfterShow(p)
      PROVE  RefreshTypes'
  <2>1. [served |-> FALSE, keep |-> FALSE, was |-> loaded[p], graph |-> {}] \in Fetches
    BY DEF PageTypes, Fetches, Graphs
  <2> QED
    BY <1>14, <2>1 DEF RefreshAfterShow, RefreshDraft
<1>15. ASSUME NEW k \in Places, Compare(k)
      PROVE  RefreshTypes'
  BY <1>15 DEF Compare, pageVars
<1>16. ASSUME NEW k \in Places, Write(k)
      PROVE  RefreshTypes'
  BY <1>16 DEF Write, pageVars
<1>17. ASSUME NEW k \in Places, Respond(k)
      PROVE  RefreshTypes'
  BY <1>17 DEF Respond, Note, pageVars
<1>18. ASSUME NEW p \in Pages, NEW l \in Loose, Lose(p, l)
      PROVE  RefreshTypes'
  BY <1>18 DEF Lose, pageVars
<1>19. CASE UNCHANGED vars
  BY <1>19 DEF vars, pageVars
<1> QED
  BY <1>1, <1>2, <1>3, <1>4, <1>5, <1>6, <1>7, <1>8, <1>9, <1>10,
     <1>11, <1>12, <1>13, <1>14, <1>15, <1>16, <1>17, <1>18, <1>19
     DEF Next, Fetch, Answer, Server

-----------------------------------------------------------------------------
(* Pages, the draft, and a page alone.                                     *)

LEMMA PastGrows == [Next]_vars => past \subseteq past'
<1> SUFFICES ASSUME [Next]_vars
             PROVE  past \subseteq past'
  OBVIOUS
<1>1. ASSUME NEW e \in Edits, Edit(e)
      PROVE  past \subseteq past'
  BY <1>1 DEF Edit, Enqueue
<1>2. ASSUME NEW p \in Pages, Debounce(p)
      PROVE  past \subseteq past'
  BY <1>2 DEF Debounce, Enqueue
<1>3. ASSUME NEW p \in Pages, Run(p)
      PROVE  past \subseteq past'
  BY <1>3 DEF Run, Enqueue
<1>4. ASSUME NEW p \in Pages, NEW q \in Queues, PerformSync(p, q)
      PROVE  past \subseteq past'
  BY <1>4 DEF PerformSync, Note
<1>5. ASSUME NEW p \in Pages, NEW q \in Queues, Saved(p, q)
      PROVE  past \subseteq past'
  BY <1>5 DEF Saved
<1>6. ASSUME NEW p \in Pages, NEW q \in Queues, Refused(p, q)
      PROVE  past \subseteq past'
  BY <1>6 DEF Refused, Note
<1>7. ASSUME NEW p \in Pages, NEW q \in Queues, SaveFails(p, q)
      PROVE  past \subseteq past'
  BY <1>7 DEF SaveFails, Note, pageVars
<1>8. ASSUME NEW p \in Pages, RefreshAfterConflict(p)
      PROVE  past \subseteq past'
  BY <1>8 DEF RefreshAfterConflict, RefreshDraft
<1>9. ASSUME NEW p \in Pages, NEW i \in 1..MaxRefreshes, GetDraft(p, i)
      PROVE  past \subseteq past'
  BY <1>9 DEF GetDraft
<1>10. ASSUME NEW p \in Pages, NEW i \in 1..MaxRefreshes, Refreshed(p, i)
      PROVE  past \subseteq past'
  BY <1>10 DEF Refreshed
<1>11. ASSUME NEW p \in Pages, NEW i \in 1..MaxRefreshes, RefreshFails(p, i)
      PROVE  past \subseteq past'
  BY <1>11 DEF RefreshFails, Note
<1>12. ASSUME NEW p \in Pages, Hide(p)
      PROVE  past \subseteq past'
  BY <1>12 DEF Hide, Note
<1>13. ASSUME NEW p \in Pages, Show(p)
      PROVE  past \subseteq past'
  BY <1>13 DEF Show
<1>14. ASSUME NEW p \in Pages, RefreshAfterShow(p)
      PROVE  past \subseteq past'
  BY <1>14 DEF RefreshAfterShow, RefreshDraft
<1>15. ASSUME NEW k \in Places, Compare(k)
      PROVE  past \subseteq past'
  BY <1>15 DEF Compare, pageVars
<1>16. ASSUME NEW k \in Places, Write(k)
      PROVE  past \subseteq past'
  BY <1>16 DEF Write, pageVars
<1>17. ASSUME NEW k \in Places, Respond(k)
      PROVE  past \subseteq past'
  BY <1>17 DEF Respond, Note, pageVars
<1>18. ASSUME NEW p \in Pages, NEW l \in Loose, Lose(p, l)
      PROVE  past \subseteq past'
  BY <1>18 DEF Lose, pageVars
<1>19. CASE UNCHANGED vars
  BY <1>19 DEF vars, pageVars
<1> QED
  BY DraftSyncAssumption, <1>1, <1>2, <1>3, <1>4, <1>5, <1>6, <1>7, <1>8, <1>9, <1>10,
     <1>11, <1>12, <1>13, <1>14, <1>15, <1>16, <1>17, <1>18, <1>19
     DEF Next, Fetch, Answer, Server

\* The requests that an action leaves as they are.
LEMMA OtherRequests ==
    ASSUME RequestTypes
    PROVE  /\ \A p \in Pages, q \in Queues :
                  PerformSync(p, q) \/ Saved(p, q) \/ Refused(p, q) =>
                      \A k \in Places \ {<<p, q>>} : request'[k] = request[k]
           /\ \A p \in Pages, q \in Queues : SaveFails(p, q) =>
                  \A k \in Places :
                      \/ request'[k] = request[k]
                      \/ request'[k] = NoRequest
                      \/ k[1] = p /\ request'[k] = request[<<p, q>>]
           /\ \A p \in Pages : Hide(p) =>
                  \A k \in Places : k[1] = p \/ request'[k] = request[k]
           /\ \A p \in Pages, l \in Loose : Lose(p, l) =>
                  \A k \in Places : request'[k] = NoRequest \/ request'[k] = request[k]
           /\ \A k \in Places : Compare(k) \/ Write(k) \/ Respond(k) =>
                  \A j \in Places \ {k} : request'[j] = request[j]
<1> USE DEF RequestTypes
<1>1. ASSUME NEW p \in Pages, NEW q \in Queues, PerformSync(p, q) \/ Saved(p, q) \/ Refused(p, q)
      PROVE  \A k \in Places \ {<<p, q>>} : request'[k] = request[k]
  BY <1>1 DEF PerformSync, Saved, Refused
<1>2. ASSUME NEW p \in Pages, NEW q \in Queues, SaveFails(p, q), NEW k \in Places
      PROVE  \/ request'[k] = request[k]
             \/ request'[k] = NoRequest
             \/ k[1] = p /\ request'[k] = request[<<p, q>>]
  <2>1. CASE request' = [request EXCEPT ![<<p, q>>] = NoRequest]
    BY <2>1
  <2>2. ASSUME NEW l \in Loose,
               request' = [request EXCEPT ![<<p, q>>] = NoRequest, ![<<p, l>>] = request[<<p, q>>]]
        PROVE  \/ request'[k] = request[k]
               \/ request'[k] = NoRequest
               \/ k[1] = p /\ request'[k] = request[<<p, q>>]
    BY <2>2
  <2> QED
    BY <1>2, <2>1, <2>2 DEF SaveFails
<1>3. ASSUME NEW p \in Pages, Hide(p), NEW k \in Places
      PROVE  k[1] = p \/ request'[k] = request[k]
  <2>1. CASE request' = request
    BY <2>1
  <2>2. ASSUME NEW l \in Loose, request' = [request EXCEPT ![<<p, l>>] = PostParams(p, TRUE)]
        PROVE  k[1] = p \/ request'[k] = request[k]
    <3>1. CASE k = <<p, l>>
      BY <3>1
    <3>2. CASE k # <<p, l>>
      BY <2>2, <3>2
    <3> QED
      BY <3>1, <3>2
  <2> QED
    BY <1>3, <2>1, <2>2 DEF Hide
<1>4. ASSUME NEW p \in Pages, NEW l \in Loose, Lose(p, l), NEW k \in Places
      PROVE  request'[k] = NoRequest \/ request'[k] = request[k]
  BY <1>4 DEF Lose
<1>5. ASSUME NEW k \in Places, Compare(k) \/ Write(k) \/ Respond(k)
      PROVE  \A j \in Places \ {k} : request'[j] = request[j]
  BY <1>5 DEF Compare, Write, Respond
<1> QED
  BY <1>1, <1>2, <1>3, <1>4, <1>5

\* A request that nobody waits for begins when its page is hidden or gives a save up.
LEMMA LooseBegins ==
    ASSUME RequestTypes, [Next]_vars, NEW r \in Pages, NEW l \in Loose,
           request[<<r, l>>] = NoRequest
    PROVE  request'[<<r, l>>] = NoRequest \/ Happened("hid", r)' \/ Happened("failed", r)'
<1> DEFINE kept == request'[<<r, l>>] = NoRequest \/ Happened("hid", r)' \/ Happened("failed", r)'
<1>a. <<r, l>> \in Places /\ \A p \in Pages, q \in Queues : <<p, q>> # <<r, l>>
  BY DraftSyncAssumption, PlaceParts
<1>1. ASSUME NEW e \in Edits, Edit(e)
      PROVE  kept
  BY <1>1 DEF Edit, Enqueue
<1>2. ASSUME NEW p \in Pages, Debounce(p)
      PROVE  kept
  BY <1>2 DEF Debounce, Enqueue
<1>3. ASSUME NEW p \in Pages, Run(p)
      PROVE  kept
  BY <1>3 DEF Run, Enqueue
<1>4. ASSUME NEW p \in Pages, NEW q \in Queues, PerformSync(p, q)
      PROVE  kept
  BY <1>4, <1>a, OtherRequests
<1>5. ASSUME NEW p \in Pages, NEW q \in Queues, Saved(p, q)
      PROVE  kept
  BY <1>5, <1>a, OtherRequests
<1>6. ASSUME NEW p \in Pages, NEW q \in Queues, Refused(p, q)
      PROVE  kept
  BY <1>6, <1>a, OtherRequests
<1>7. ASSUME NEW p \in Pages, NEW q \in Queues, SaveFails(p, q)
      PROVE  kept
  <2>1. <<"failed", p>> \in past'
    BY <1>7 DEF SaveFails, Note
  <2>2. request'[<<r, l>>] = NoRequest \/ p = r
    <3>1. \/ request'[<<r, l>>] = request[<<r, l>>]
          \/ request'[<<r, l>>] = NoRequest
          \/ <<r, l>>[1] = p
      BY <1>7, <1>a, OtherRequests
    <3> QED
      BY <3>1
  <2> QED
    BY <2>1, <2>2 DEF Happened
<1>8. ASSUME NEW p \in Pages, RefreshAfterConflict(p)
      PROVE  kept
  BY <1>8 DEF RefreshAfterConflict, RefreshDraft
<1>9. ASSUME NEW p \in Pages, NEW i \in 1..MaxRefreshes, GetDraft(p, i)
      PROVE  kept
  BY <1>9 DEF GetDraft
<1>10. ASSUME NEW p \in Pages, NEW i \in 1..MaxRefreshes, Refreshed(p, i)
      PROVE  kept
  BY <1>10 DEF Refreshed
<1>11. ASSUME NEW p \in Pages, NEW i \in 1..MaxRefreshes, RefreshFails(p, i)
      PROVE  kept
  BY <1>11 DEF RefreshFails, Note
<1>12. ASSUME NEW p \in Pages, Hide(p)
      PROVE  kept
  <2>1. <<"hid", p>> \in past'
    BY <1>12 DEF Hide, Note
  <2>2. request'[<<r, l>>] = NoRequest \/ p = r
    BY <1>12, <1>a, OtherRequests
  <2> QED
    BY <2>1, <2>2 DEF Happened
<1>13. ASSUME NEW p \in Pages, Show(p)
      PROVE  kept
  BY <1>13 DEF Show
<1>14. ASSUME NEW p \in Pages, RefreshAfterShow(p)
      PROVE  kept
  BY <1>14 DEF RefreshAfterShow, RefreshDraft
<1>15. ASSUME NEW k \in Places, Compare(k)
      PROVE  kept
  <2>1. request[k] # NoRequest
    BY <1>15, NewRequests DEF Compare
  <2> QED
    BY <1>15, <1>a, <2>1, OtherRequests
<1>16. ASSUME NEW k \in Places, Write(k)
      PROVE  kept
  <2>1. request[k] # NoRequest
    BY <1>16, NewRequests DEF Write
  <2> QED
    BY <1>16, <1>a, <2>1, OtherRequests
<1>17. ASSUME NEW k \in Places, Respond(k)
      PROVE  kept
  <2>1. request[k] # NoRequest
    BY <1>17, NewRequests DEF Respond
  <2> QED
    BY <1>17, <1>a, <2>1, OtherRequests
<1>18. ASSUME NEW p \in Pages, NEW j \in Loose, Lose(p, j)
      PROVE  kept
  BY <1>18, <1>a, OtherRequests
<1>19. CASE UNCHANGED vars
  BY <1>19 DEF vars, pageVars
<1> QED
  BY DraftSyncAssumption, <1>1, <1>2, <1>3, <1>4, <1>5, <1>6, <1>7, <1>8, <1>9, <1>10,
     <1>11, <1>12, <1>13, <1>14, <1>15, <1>16, <1>17, <1>18, <1>19
     DEF Next, Fetch, Answer, Server

LEMMA PageKept ==
    ASSUME PageTypes, RequestTypes, RefreshTypes, NEW r \in Pages, PageHolds(r), [Next]_vars
    PROVE  PageHolds(r)'
<1> USE DEF PageHolds, Happened, PageTypes, RefreshTypes
<1>a. past \subseteq past'
  BY PastGrows
<1>b. ~Happened("hid", r)' /\ ~Happened("failed", r)' =>
          \A l \in Loose : request'[<<r, l>>] = NoRequest
  BY <1>a, LooseBegins
<1>1. ASSUME NEW e \in Edits, Edit(e)
      PROVE  PageHolds(r)'
  BY <1>1, <1>a, <1>b DEF Edit, Enqueue
<1>2. ASSUME NEW p \in Pages, Debounce(p)
      PROVE  PageHolds(r)'
  BY <1>2, <1>a, <1>b DEF Debounce, Enqueue
<1>3. ASSUME NEW p \in Pages, Run(p)
      PROVE  PageHolds(r)'
  BY <1>3, <1>a, <1>b DEF Run, Enqueue
<1>4. ASSUME NEW p \in Pages, NEW q \in Queues, PerformSync(p, q)
      PROVE  PageHolds(r)'
  BY <1>4, <1>a, <1>b DEF PerformSync, Note
<1>5. ASSUME NEW p \in Pages, NEW q \in Queues, Saved(p, q)
      PROVE  PageHolds(r)'
  BY <1>5, <1>a, <1>b DEF Saved
<1>6. ASSUME NEW p \in Pages, NEW q \in Queues, Refused(p, q)
      PROVE  PageHolds(r)'
  BY <1>6, <1>a, <1>b DEF Refused, Note
<1>7. ASSUME NEW p \in Pages, NEW q \in Queues, SaveFails(p, q)
      PROVE  PageHolds(r)'
  BY <1>7, <1>a, <1>b DEF SaveFails, Note, pageVars
<1>8. ASSUME NEW p \in Pages, RefreshAfterConflict(p)
      PROVE  PageHolds(r)'
  BY <1>8, <1>a, <1>b DEF RefreshAfterConflict, RefreshDraft
<1>9. ASSUME NEW p \in Pages, NEW i \in 1..MaxRefreshes, GetDraft(p, i)
      PROVE  PageHolds(r)'
  BY <1>9, <1>a, <1>b DEF GetDraft
<1>10. ASSUME NEW p \in Pages, NEW i \in 1..MaxRefreshes, Refreshed(p, i)
      PROVE  PageHolds(r)'
  BY <1>10, <1>a, <1>b DEF Refreshed
<1>11. ASSUME NEW p \in Pages, NEW i \in 1..MaxRefreshes, RefreshFails(p, i)
      PROVE  PageHolds(r)'
  BY <1>11, <1>a, <1>b DEF RefreshFails, Note
<1>12. ASSUME NEW p \in Pages, Hide(p)
      PROVE  PageHolds(r)'
  BY <1>12, <1>a, <1>b DEF Hide, Note
<1>13. ASSUME NEW p \in Pages, Show(p)
      PROVE  PageHolds(r)'
  BY <1>13, <1>a, <1>b DEF Show
<1>14. ASSUME NEW p \in Pages, RefreshAfterShow(p)
      PROVE  PageHolds(r)'
  BY <1>14, <1>a, <1>b DEF RefreshAfterShow, RefreshDraft
<1>15. ASSUME NEW k \in Places, Compare(k)
      PROVE  PageHolds(r)'
  BY <1>15, <1>a, <1>b DEF Compare, pageVars
<1>16. ASSUME NEW k \in Places, Write(k)
      PROVE  PageHolds(r)'
  BY <1>16, <1>a, <1>b DEF Write, pageVars
<1>17. ASSUME NEW k \in Places, Respond(k)
      PROVE  PageHolds(r)'
  BY <1>17, <1>a, <1>b DEF Respond, Note, pageVars
<1>18. ASSUME NEW p \in Pages, NEW l \in Loose, Lose(p, l)
      PROVE  PageHolds(r)'
  BY <1>18, <1>a, <1>b DEF Lose, pageVars
<1>19. CASE UNCHANGED vars
  BY <1>19, <1>a, <1>b DEF vars, pageVars
<1> QED
  BY DraftSyncAssumption, <1>1, <1>2, <1>3, <1>4, <1>5, <1>6, <1>7, <1>8, <1>9, <1>10,
     <1>11, <1>12, <1>13, <1>14, <1>15, <1>16, <1>17, <1>18, <1>19
     DEF Next, Fetch, Answer, Server

\* A request that stays or ends carries what it should.
LEMMA StillCarries ==
    ASSUME NEW k \in Places, Carries(k), canvas[k[1]] \subseteq canvas'[k[1]], draft' = draft,
           request'[k] = request[k] \/ request'[k] = NoRequest
    PROVE  Carries(k)'
BY NewRequests DEF Carries

\* A step that touches neither the requests nor the draft.
LEMMA DraftUntouched ==
    ASSUME DraftKeeps, UNCHANGED <<canvas, hash, request, draft, saved>>
    PROVE  DraftKeeps'
BY DEF DraftKeeps, Carries

LEMMA DraftKept ==
    ASSUME PageTypes, DraftTypes, RequestTypes, PageInv,
           Undisturbed, Undisturbed', DraftKeeps, [Next]_vars
    PROVE  DraftKeeps'
<1>a. saved \subseteq draft
  BY DEF DraftKeeps
<1>b. \A r \in Pages : hash[r] \subseteq canvas[r]
  BY DEF DraftKeeps
<1>c. \A k \in Places : Carries(k)
  BY DEF DraftKeeps
<1>d. \A k \in Places : k[1] \in Pages
  BY PlaceParts
<1>1. ASSUME NEW e \in Edits, Edit(e)
      PROVE  DraftKeeps'
  <2>1. /\ \A r \in Pages : canvas[r] \subseteq canvas'[r]
        /\ UNCHANGED <<hash, request, draft, saved>>
    BY <1>1 DEF Edit, PageTypes
  <2>2. \A r \in Pages : hash'[r] \subseteq canvas'[r]
    BY <1>b, <2>1
  <2>3. \A k \in Places : Carries(k)'
    BY <1>c, <1>d, <2>1, StillCarries
  <2> QED
    BY <1>a, <2>1, <2>2, <2>3 DEF DraftKeeps
<1>2. ASSUME NEW p \in Pages, Debounce(p)
      PROVE  DraftKeeps'
  BY <1>2, DraftUntouched DEF Debounce, Enqueue
<1>3. ASSUME NEW p \in Pages, Run(p)
      PROVE  DraftKeeps'
  BY <1>3, DraftUntouched DEF Run, Enqueue
<1>4. ASSUME NEW p \in Pages, NEW q \in Queues, PerformSync(p, q)
      PROVE  DraftKeeps'
  <2>1. <<p, q>> \in Places /\ Head(queue[<<p, q>>]) \in BOOLEAN
    BY <1>4, PlaceParts DEF PerformSync, PageTypes
  <2>2. UNCHANGED <<hash, canvas, draft, saved>>
    BY <1>4 DEF PerformSync
  <2>3. Carries(<<p, q>>)'
    <3>1. CASE request' = request
      BY <1>c, <1>d, <2>1, <2>2, <3>1, StillCarries
    <3>2. CASE request' # request
      <4>1. request'[<<p, q>>] = PostParams(p, Head(queue[<<p, q>>]))
        BY <1>4, <2>1, <3>2 DEF PerformSync, RequestTypes
      <4>2. /\ request'[<<p, q>>].stage = "sent" /\ request'[<<p, q>>].graph = canvas[p]
            /\ request'[<<p, q>>].hash = hash[p]
        BY <2>1, <4>1, NewRequests
      <4> QED
        BY <1>b, <2>2, <4>2 DEF Carries
    <3> QED
      BY <3>1, <3>2
  <2>4. \A k \in Places \ {<<p, q>>} : Carries(k)'
    BY <1>4, <1>c, <1>d, <2>2, OtherRequests, StillCarries
  <2> QED
    BY <1>a, <1>b, <2>2, <2>3, <2>4 DEF DraftKeeps
<1>5. ASSUME NEW p \in Pages, NEW q \in Queues, Saved(p, q)
      PROVE  DraftKeeps'
  <2>1. <<p, q>> \in Places /\ Carries(<<p, q>>)
    BY <1>c, PlaceParts
  <2>2. /\ request[<<p, q>>].stage = "answered"
        /\ request'[<<p, q>>] = NoRequest
        /\ hash' = [hash EXCEPT ![p] = request[<<p, q>>].hash]
        /\ UNCHANGED <<canvas, draft, saved>>
    BY <1>5, <2>1 DEF Saved, RequestTypes
  <2>3. \A r \in Pages : hash'[r] \subseteq canvas'[r]
    BY <1>b, <2>1, <2>2 DEF Carries, PageTypes
  <2>4. \A k \in Places : request'[k] = request[k] \/ request'[k] = NoRequest
    BY <1>5, <2>2, OtherRequests
  <2>5. \A k \in Places : Carries(k)'
    BY <1>c, <1>d, <2>2, <2>4, StillCarries
  <2> QED
    BY <1>a, <2>2, <2>3, <2>5 DEF DraftKeeps
<1>6. ASSUME NEW p \in Pages, NEW q \in Queues, Refused(p, q)
      PROVE  DraftKeeps'
  <2>1. <<"refused", p>> \in past'
    BY <1>6 DEF Refused, Note
  <2> QED
    BY <2>1 DEF Undisturbed, Disturbing, Happened
<1>7. ASSUME NEW p \in Pages, NEW q \in Queues, SaveFails(p, q)
      PROVE  DraftKeeps'
  <2>1. UNCHANGED <<hash, canvas, draft, saved>>
    BY <1>7 DEF SaveFails, pageVars
  <2>2. <<p, q>> \in Places /\ Carries(<<p, q>>)
    BY <1>c, PlaceParts
  <2>3. ASSUME NEW k \in Places
        PROVE  Carries(k)'
    <3>1. CASE request'[k] = request[k] \/ request'[k] = NoRequest
      BY <1>c, <1>d, <2>1, <3>1, StillCarries
    <3>2. CASE k[1] = p /\ request'[k] = request[<<p, q>>]
      BY <2>1, <2>2, <3>2 DEF Carries
    <3> QED
      BY <1>7, <3>1, <3>2, OtherRequests
  <2> QED
    BY <1>a, <1>b, <2>1, <2>3 DEF DraftKeeps
<1>8. ASSUME NEW p \in Pages, RefreshAfterConflict(p)
      PROVE  DraftKeeps'
  BY <1>8, DraftUntouched DEF RefreshAfterConflict, RefreshDraft
<1>9. ASSUME NEW p \in Pages, NEW i \in 1..MaxRefreshes, GetDraft(p, i)
      PROVE  DraftKeeps'
  BY <1>9, DraftUntouched DEF GetDraft
<1>10. ASSUME NEW p \in Pages, NEW i \in 1..MaxRefreshes, Refreshed(p, i)
      PROVE  DraftKeeps'
  <2>1. refresh[p] # <<>>
    BY <1>10 DEF Refreshed
  <2> QED
    BY <2>1 DEF PageInv, PageHolds, Undisturbed, Disturbing, Happened
<1>11. ASSUME NEW p \in Pages, NEW i \in 1..MaxRefreshes, RefreshFails(p, i)
      PROVE  DraftKeeps'
  BY <1>11, DraftUntouched DEF RefreshFails, Note
<1>12. ASSUME NEW p \in Pages, Hide(p)
      PROVE  DraftKeeps'
  <2>1. <<"hid", p>> \in past'
    BY <1>12 DEF Hide, Note
  <2> QED
    BY <2>1 DEF Undisturbed, Disturbing, Happened
<1>13. ASSUME NEW p \in Pages, Show(p)
      PROVE  DraftKeeps'
  BY <1>13, DraftUntouched DEF Show
<1>14. ASSUME NEW p \in Pages, RefreshAfterShow(p)
      PROVE  DraftKeeps'
  BY <1>14, DraftUntouched DEF RefreshAfterShow, RefreshDraft
<1>15. ASSUME NEW k \in Places, Compare(k)
      PROVE  DraftKeeps'
  <2>1. /\ request[k].stage = "sent"
        /\ request'[k] = NoRequest \/ request'[k] = CompareHash(request[k])
        /\ UNCHANGED <<hash, canvas, draft, saved>>
    BY <1>15 DEF Compare, HeardOf, pageVars, RequestTypes
  <2>2. Carries(k)'
    <3>1. CASE request'[k] = NoRequest
      BY <1>c, <1>d, <2>1, <3>1, StillCarries
    <3>2. CASE request'[k] = CompareHash(request[k])
      <4>1. /\ request'[k].graph = request[k].graph /\ request'[k].hash = request[k].hash
            /\ request'[k].stage = IF draft = request[k].hash THEN "compared" ELSE "refused"
        BY <3>2, Compared DEF RequestTypes
      <4> QED
        BY <1>c, <2>1, <4>1 DEF Carries
    <3> QED
      BY <2>1, <3>1, <3>2
  <2>3. \A j \in Places \ {k} : Carries(j)'
    BY <1>15, <1>c, <1>d, <2>1, OtherRequests, StillCarries
  <2> QED
    BY <1>a, <1>b, <2>1, <2>2, <2>3 DEF DraftKeeps
<1>16. ASSUME NEW k \in Places, Write(k)
      PROVE  DraftKeeps'
  <2>1. \A j \in Places \ {k} : request[j].stage # "compared"
    <3>1. SUFFICES ASSUME NEW j \in Places \ {k}, request[j].stage = "compared"
                   PROVE  FALSE
      OBVIOUS
    <3>2. j[1] \in OvertakenBy(k) /\ j[1] \in Pages
      BY <3>1, PlaceParts DEF OvertakenBy
    <3>3. <<"overtaken", j[1]>> \in past'
      BY <1>16, <3>2 DEF Write
    <3> QED
      BY <3>2, <3>3 DEF Undisturbed, Disturbing, Happened
  <2>2. request[k] \in Requests /\ "written" \in Stages /\ Carries(k)
    BY <1>c DEF Stages, RequestTypes
  <2>3. /\ request[k].stage = "compared"
        /\ request'[k] = NoRequest \/ request'[k] = [request[k] EXCEPT !.stage = "written"]
        /\ draft' = request[k].graph /\ saved' = saved \cup request[k].graph
        /\ UNCHANGED <<hash, canvas>>
    BY <1>16 DEF Write, HeardOf, pageVars, RequestTypes
  <2>4. saved' \subseteq draft'
    BY <1>a, <2>2, <2>3 DEF Carries
  <2>5. Carries(k)'
    <3>1. CASE request'[k] = NoRequest
      BY <3>1, NewRequests DEF Carries
    <3>2. CASE request'[k] = [request[k] EXCEPT !.stage = "written"]
      <4>1. request'[k].stage = "written" /\ request'[k].graph = request[k].graph
        BY <2>2, <3>2, Staged
      <4> QED
        BY <2>2, <2>3, <4>1 DEF Carries
    <3> QED
      BY <2>3, <3>1, <3>2
  <2>6. ASSUME NEW j \in Places \ {k}
        PROVE  Carries(j)'
    <3>1. Carries(j) /\ request'[j] = request[j] /\ request[j].stage # "compared"
      BY <1>16, <1>c, <2>1, OtherRequests
    <3> QED
      BY <2>3, <3>1 DEF Carries
  <2> QED
    BY <1>b, <2>3, <2>4, <2>5, <2>6 DEF DraftKeeps
<1>17. ASSUME NEW k \in Places, Respond(k)
      PROVE  DraftKeeps'
  <2>1. k[1] \in Pages /\ request[k] \in Requests /\ draft \in Graphs /\ Carries(k)
    BY <1>c, PlaceParts DEF RequestTypes, DraftTypes
  <2>2. draft = request[k].graph
    BY <1>17, <2>1 DEF Respond, Note, Undisturbed, Disturbing, Happened
  <2>3. /\ request[k].stage = "written"
        /\ request'[k] = [request[k] EXCEPT !.stage = "answered", !.hash = draft]
        /\ UNCHANGED <<hash, canvas, draft, saved>>
    BY <1>17 DEF Respond, pageVars, RequestTypes
  <2>4. /\ request'[k].stage = "answered" /\ request'[k].graph = request[k].graph
        /\ request'[k].hash = draft
    BY <2>1, <2>3 DEF Requests
  <2>5. Carries(k)'
    BY <2>1, <2>2, <2>3, <2>4 DEF Carries
  <2>6. \A j \in Places \ {k} : Carries(j)'
    BY <1>17, <1>c, <1>d, <2>3, OtherRequests, StillCarries
  <2> QED
    BY <1>a, <1>b, <2>3, <2>5, <2>6 DEF DraftKeeps
<1>18. ASSUME NEW p \in Pages, NEW l \in Loose, Lose(p, l)
      PROVE  DraftKeeps'
  <2>1. /\ \A k \in Places : request'[k] = request[k] \/ request'[k] = NoRequest
        /\ UNCHANGED <<hash, canvas, draft, saved>>
    BY <1>18, OtherRequests DEF Lose, pageVars
  <2>2. \A k \in Places : Carries(k)'
    BY <1>c, <1>d, <2>1, StillCarries
  <2> QED
    BY <1>a, <1>b, <2>1, <2>2 DEF DraftKeeps
<1>19. CASE UNCHANGED vars
  BY <1>19, DraftUntouched DEF vars, pageVars
<1> QED
  BY DraftSyncAssumption, <1>1, <1>2, <1>3, <1>4, <1>5, <1>6, <1>7, <1>8, <1>9, <1>10,
     <1>11, <1>12, <1>13, <1>14, <1>15, <1>16, <1>17, <1>18, <1>19
     DEF Next, Fetch, Answer, Server

\* A page that is alone has no request that nobody waits for.
LEMMA AloneWaits ==
    ASSUME PageInv, NEW r \in Pages, Alone(r), KnowsDraft(r)
    PROVE  /\ \A l \in Loose : request[<<r, l>>] = NoRequest
           /\ r \notin conflict /\ refresh[r] = <<>>
BY DEF PageInv, PageHolds, Alone, KnowsDraft

\* ... and nothing beside the save that is under way.
LEMMA OnlySave ==
    ASSUME NEW r \in Pages, KnowsDraft(r), NEW q \in Queues, request[<<r, q>>] # NoRequest
    PROVE  \A h \in Queues \ {q} : request[<<r, h>>] = NoRequest
BY DEF KnowsDraft

\* A step that touches neither the page's saves nor the draft.
LEMMA StillKnows ==
    ASSUME NEW r \in Pages, KnowsDraft(r),
           \A h \in Queues : request'[<<r, h>>] = request[<<r, h>>],
           hash'[r] = hash[r], draft' = draft,
           <<"refused", r>> \in past' => <<"refused", r>> \in past
    PROVE  KnowsDraft(r)'
BY DEF KnowsDraft, Happened

\* A step after which one save is under way at most.
LEMMA KnowsByOne ==
    ASSUME NEW r \in Pages, NEW q \in Queues,
           \A h \in Queues \ {q} : request'[<<r, h>>] = NoRequest,
           <<"refused", r>> \notin past',
           request'[<<r, q>>].stage # "refused",
           request'[<<r, q>>].stage \in {"sent", "compared", "answered"} =>
               request'[<<r, q>>].hash = draft',
           request'[<<r, q>>].stage \in {"idle", "sent"} => hash'[r] = draft'
    PROVE  KnowsDraft(r)'
<1>1. \A h, i \in Queues :
          request'[<<r, h>>] # NoRequest /\ request'[<<r, i>>] # NoRequest => h = i
  OBVIOUS
<1>2. \A h \in Queues :
          /\ request'[<<r, h>>].stage # "refused"
          /\ request'[<<r, h>>].stage \in {"sent", "compared", "answered"} =>
                 request'[<<r, h>>].hash = draft'
  BY NewRequests
<1> QED
  BY <1>1, <1>2 DEF KnowsDraft, Happened

LEMMA AloneKept ==
    ASSUME PageTypes, DraftTypes, RequestTypes, PageInv,
           NEW r \in Pages, Alone(r), Alone(r)', KnowsDraft(r), [Next]_vars
    PROVE  KnowsDraft(r)'
<1>w. /\ \A l \in Loose : request[<<r, l>>] = NoRequest
      /\ r \notin conflict /\ refresh[r] = <<>>
  BY AloneWaits
<1>1. ASSUME NEW e \in Edits, Edit(e)
      PROVE  KnowsDraft(r)'
  BY <1>1, StillKnows DEF Edit, Enqueue
<1>2. ASSUME NEW p \in Pages, Debounce(p)
      PROVE  KnowsDraft(r)'
  BY <1>2, StillKnows DEF Debounce, Enqueue
<1>3. ASSUME NEW p \in Pages, Run(p)
      PROVE  KnowsDraft(r)'
  BY <1>3, StillKnows DEF Run, Enqueue
<1>4. ASSUME NEW p \in Pages, NEW q \in Queues, PerformSync(p, q)
      PROVE  KnowsDraft(r)'
  <2>1. CASE r = p
    <3>1. <<r, q>> \in Places /\ Head(queue[<<r, q>>]) \in BOOLEAN /\ request[<<r, q>>] = NoRequest
      BY <1>4, <2>1, PlaceParts DEF PerformSync, PageTypes
    <3>2. <<"overlapped", r>> \notin past' /\ UNCHANGED <<hash, draft>>
      BY <1>4 DEF PerformSync, Alone, Happened
    <3>3. UNCHANGED past /\ ~Overlapping(r)
      BY <1>4, <2>1, <3>2 DEF PerformSync, Note
    <3>4. CASE request' = request
      BY <3>2, <3>3, <3>4, StillKnows
    <3>5. CASE request' # request
      <4>1. request'[<<r, q>>] = PostParams(r, Head(queue[<<r, q>>]))
        BY <1>4, <2>1, <3>1, <3>5 DEF PerformSync, RequestTypes
      <4>2. /\ request'[<<r, q>>].stage = "sent" /\ request'[<<r, q>>].hash = hash[r]
            /\ request'[<<r, q>>] # NoRequest
        BY <3>1, <4>1, NewRequests
      <4>3. \A h \in Queues \ {q} : request'[<<r, h>>] = NoRequest
        BY <3>3, <4>2 DEF Overlapping
      <4>4. \A h \in Queues \ {q} : request[<<r, h>>] = NoRequest
        <5>1. \A h \in Queues \ {q} : <<r, h>> \in Places \ {<<p, q>>}
          BY PlaceParts
        <5> QED
          BY <1>4, <4>3, <5>1, OtherRequests
      <4>5. \A h \in Queues : request[<<r, h>>].stage = "idle"
        BY <3>1, <4>4, NewRequests
      <4>6. hash[r] = draft /\ <<"refused", r>> \notin past'
        BY <3>3, <4>5 DEF KnowsDraft, Happened
      <4> QED
        BY <3>2, <4>2, <4>3, <4>6, KnowsByOne
    <3> QED
      BY <3>4, <3>5
  <2>2. CASE r # p
    <3>1. \A h \in Queues : request'[<<r, h>>] = request[<<r, h>>]
      <4>1. \A h \in Queues : <<r, h>> # <<p, q>>
        BY <2>2
      <4> QED
        BY <1>4, <4>1, PlaceParts, OtherRequests
    <3>2. hash'[r] = hash[r] /\ draft' = draft
          /\ (<<"refused", r>> \in past' => <<"refused", r>> \in past)
      BY <1>4, <2>2 DEF PerformSync, Note, pageVars, PageTypes
    <3> QED
      BY <3>1, <3>2, StillKnows
  <2> QED
    BY <2>1, <2>2
<1>5. ASSUME NEW p \in Pages, NEW q \in Queues, Saved(p, q)
      PROVE  KnowsDraft(r)'
  <2>1. CASE r = p
    <3>1. /\ request[<<r, q>>].stage = "answered" /\ request[<<r, q>>] # NoRequest
          /\ hash'[r] = request[<<r, q>>].hash
          /\ request'[<<r, q>>] = NoRequest
          /\ UNCHANGED <<draft, past>>
      BY <1>5, <2>1, NewRequests, PlaceParts DEF Saved, PageTypes, RequestTypes
    <3>2. \A h \in Queues \ {q} : request'[<<r, h>>] = NoRequest
      <4>1. \A h \in Queues \ {q} : <<r, h>> \in Places \ {<<p, q>>}
        BY PlaceParts
      <4> QED
        BY <1>5, <3>1, <4>1, OnlySave, OtherRequests
    <3>3. request[<<r, q>>].hash = draft /\ <<"refused", r>> \notin past'
      BY <3>1 DEF KnowsDraft, Happened
    <3> QED
      BY <3>1, <3>2, <3>3, NewRequests, KnowsByOne
  <2>2. CASE r # p
    <3>1. \A h \in Queues : request'[<<r, h>>] = request[<<r, h>>]
      <4>1. \A h \in Queues : <<r, h>> # <<p, q>>
        BY <2>2
      <4> QED
        BY <1>5, <4>1, PlaceParts, OtherRequests
    <3>2. hash'[r] = hash[r] /\ draft' = draft
          /\ (<<"refused", r>> \in past' => <<"refused", r>> \in past)
      BY <1>5, <2>2 DEF Saved, Note, pageVars, PageTypes
    <3> QED
      BY <3>1, <3>2, StillKnows
  <2> QED
    BY <2>1, <2>2
<1>6. ASSUME NEW p \in Pages, NEW q \in Queues, Refused(p, q)
      PROVE  KnowsDraft(r)'
  <2>1. CASE r = p
    BY <1>6, <2>1 DEF Refused, KnowsDraft
  <2>2. CASE r # p
    <3>1. \A h \in Queues : request'[<<r, h>>] = request[<<r, h>>]
      <4>1. \A h \in Queues : <<r, h>> # <<p, q>>
        BY <2>2
      <4> QED
        BY <1>6, <4>1, PlaceParts, OtherRequests
    <3>2. hash'[r] = hash[r] /\ draft' = draft
          /\ (<<"refused", r>> \in past' => <<"refused", r>> \in past)
      BY <1>6, <2>2 DEF Refused, Note, pageVars, PageTypes
    <3> QED
      BY <3>1, <3>2, StillKnows
  <2> QED
    BY <2>1, <2>2
<1>7. ASSUME NEW p \in Pages, NEW q \in Queues, SaveFails(p, q)
      PROVE  KnowsDraft(r)'
  <2>1. CASE r = p
    BY <1>7, <2>1 DEF SaveFails, Note, Alone, Happened
  <2>2. CASE r # p
    <3>1. \A h \in Queues : request'[<<r, h>>] = request[<<r, h>>]
      <4>1. \A h \in Queues, m \in Queues \cup Loose :
                <<r, h>> # <<p, m>> /\ <<r, h>> \in Places
        BY <2>2, PlaceParts
      <4>2. CASE request' = [request EXCEPT ![<<p, q>>] = NoRequest]
        BY <4>1, <4>2 DEF RequestTypes
      <4>3. ASSUME NEW l \in Loose,
                   request' = [request EXCEPT ![<<p, q>>] = NoRequest,
                                              ![<<p, l>>] = request[<<p, q>>]]
            PROVE  \A h \in Queues : request'[<<r, h>>] = request[<<r, h>>]
        BY <4>1, <4>3 DEF RequestTypes
      <4> QED
        BY <1>7, <4>2, <4>3 DEF SaveFails
    <3>2. hash'[r] = hash[r] /\ draft' = draft
          /\ (<<"refused", r>> \in past' => <<"refused", r>> \in past)
      BY <1>7, <2>2 DEF SaveFails, Note, pageVars, PageTypes
    <3> QED
      BY <3>1, <3>2, StillKnows
  <2> QED
    BY <2>1, <2>2
<1>8. ASSUME NEW p \in Pages, RefreshAfterConflict(p)
      PROVE  KnowsDraft(r)'
  BY <1>8, StillKnows DEF RefreshAfterConflict, RefreshDraft
<1>9. ASSUME NEW p \in Pages, NEW i \in 1..MaxRefreshes, GetDraft(p, i)
      PROVE  KnowsDraft(r)'
  BY <1>9, StillKnows DEF GetDraft
<1>10. ASSUME NEW p \in Pages, NEW i \in 1..MaxRefreshes, Refreshed(p, i)
      PROVE  KnowsDraft(r)'
  <2>1. CASE r = p
    BY <1>10, <1>w, <2>1 DEF Refreshed
  <2>2. CASE r # p
    <3>1. \A h \in Queues : request'[<<r, h>>] = request[<<r, h>>]
      BY <1>10 DEF Refreshed
    <3>2. hash'[r] = hash[r] /\ draft' = draft
          /\ (<<"refused", r>> \in past' => <<"refused", r>> \in past)
      BY <1>10, <2>2 DEF Refreshed, Note, pageVars, PageTypes
    <3> QED
      BY <3>1, <3>2, StillKnows
  <2> QED
    BY <2>1, <2>2
<1>11. ASSUME NEW p \in Pages, NEW i \in 1..MaxRefreshes, RefreshFails(p, i)
      PROVE  KnowsDraft(r)'
  BY <1>11, StillKnows DEF RefreshFails, Note
<1>12. ASSUME NEW p \in Pages, Hide(p)
      PROVE  KnowsDraft(r)'
  <2>1. CASE r = p
    BY <1>12, <2>1 DEF Hide, Note, Alone, Happened
  <2>2. CASE r # p
    <3>1. \A h \in Queues : request'[<<r, h>>] = request[<<r, h>>]
      BY <1>12, <2>2, PlaceParts, OtherRequests
    <3>2. hash'[r] = hash[r] /\ draft' = draft
          /\ (<<"refused", r>> \in past' => <<"refused", r>> \in past)
      BY <1>12, <2>2 DEF Hide, Note, pageVars, PageTypes
    <3> QED
      BY <3>1, <3>2, StillKnows
  <2> QED
    BY <2>1, <2>2
<1>13. ASSUME NEW p \in Pages, Show(p)
      PROVE  KnowsDraft(r)'
  BY <1>13, StillKnows DEF Show
<1>14. ASSUME NEW p \in Pages, RefreshAfterShow(p)
      PROVE  KnowsDraft(r)'
  BY <1>14, StillKnows DEF RefreshAfterShow, RefreshDraft
<1>15. ASSUME NEW k \in Places, Compare(k)
      PROVE  KnowsDraft(r)'
  <2>1. CASE k[1] # r
    <3>1. \A h \in Queues : <<r, h>> \in Places \ {k}
      BY <2>1, PlaceParts
    <3>2. \A h \in Queues : request'[<<r, h>>] = request[<<r, h>>]
      BY <1>15, <3>1, OtherRequests
    <3>3. hash'[r] = hash[r] /\ draft' = draft
          /\ (<<"refused", r>> \in past' => <<"refused", r>> \in past)
      BY <1>15, <2>1 DEF Compare, Note, pageVars
    <3> QED
      BY <3>2, <3>3, StillKnows
  <2>2. CASE k[1] = r
    <3>1. request[k].stage = "sent" /\ request[k] # NoRequest /\ request[k] \in Requests
      BY <1>15, NewRequests DEF Compare, RequestTypes
    <3>2. k[2] \in Queues
      <4>1. k \in Places /\ k = <<r, k[2]>>
        BY <2>2, PlaceParts
      <4>2. k[2] \in Loose => request[k] = NoRequest
        BY <1>w, <4>1
      <4> QED
        BY <3>1, <4>1, <4>2, PlaceParts
    <3>3. PICK q \in Queues : k = <<r, q>>
      BY <2>2, <3>2, PlaceParts
    <3>4. \A h \in Queues \ {q} :
              request[<<r, h>>] = NoRequest /\ request'[<<r, h>>] = NoRequest
      <4>1. \A h \in Queues \ {q} : request[<<r, h>>] = NoRequest
        BY <3>1, <3>3, OnlySave
      <4>2. \A h \in Queues \ {q} : <<r, h>> \in Places \ {k}
        BY <3>3, PlaceParts
      <4> QED
        BY <1>15, <4>1, <4>2, OtherRequests
    <3>5. request[k].hash = draft /\ <<"refused", r>> \notin past
      BY <3>1, <3>3 DEF KnowsDraft, Happened
    <3>6. CompareHash(request[k]).stage = "compared" /\ CompareHash(request[k]).hash = draft
      BY <3>1, <3>5, Compared
    <3>7. request'[<<r, q>>] = CompareHash(request[k]) /\ UNCHANGED <<draft, past>>
      BY <1>15, <3>3, <3>6 DEF Compare, RequestTypes
    <3> QED
      BY <3>4, <3>5, <3>6, <3>7, KnowsByOne
  <2> QED
    BY <2>1, <2>2
<1>16. ASSUME NEW k \in Places, Write(k)
      PROVE  KnowsDraft(r)'
  <2>1. k[1] = r
    <3>1. <<"wrote", k[1]>> \in past' /\ k[1] \in Pages
      BY <1>16, PlaceParts DEF Write
    <3> QED
      BY <3>1 DEF Alone, Happened
  <2>2. CASE k[1] = r
    <3>1. request[k].stage = "compared" /\ request[k] # NoRequest /\ request[k] \in Requests
      BY <1>16, NewRequests DEF Write, RequestTypes
    <3>2. k[2] \in Queues
      <4>1. k \in Places /\ k = <<r, k[2]>>
        BY <2>2, PlaceParts
      <4>2. k[2] \in Loose => request[k] = NoRequest
        BY <1>w, <4>1
      <4> QED
        BY <3>1, <4>1, <4>2, PlaceParts
    <3>3. PICK q \in Queues : k = <<r, q>>
      BY <2>2, <3>2, PlaceParts
    <3>4. \A h \in Queues \ {q} :
              request[<<r, h>>] = NoRequest /\ request'[<<r, h>>] = NoRequest
      <4>1. \A h \in Queues \ {q} : request[<<r, h>>] = NoRequest
        BY <3>1, <3>3, OnlySave
      <4>2. \A h \in Queues \ {q} : <<r, h>> \in Places \ {k}
        BY <3>3, PlaceParts
      <4> QED
        BY <1>16, <4>1, <4>2, OtherRequests
    <3>5. <<"refused", r>> \notin past'
      BY <1>16 DEF Write, KnowsDraft, Happened
    <3>6. request'[<<r, q>>] = [request[k] EXCEPT !.stage = "written"]
      <4>1. k[2] \notin Loose
        BY <3>2, DraftSyncAssumption
      <4> QED
        BY <1>16, <3>3, <4>1 DEF Write, HeardOf, RequestTypes
    <3>7. request'[<<r, q>>].stage = "written"
      BY <3>1, <3>6, Staged DEF Stages
    <3> QED
      BY <3>4, <3>5, <3>7, KnowsByOne
  <2> QED
    BY <2>1, <2>2
<1>17. ASSUME NEW k \in Places, Respond(k)
      PROVE  KnowsDraft(r)'
  <2>1. CASE k[1] # r
    <3>1. \A h \in Queues : <<r, h>> \in Places \ {k}
      BY <2>1, PlaceParts
    <3>2. \A h \in Queues : request'[<<r, h>>] = request[<<r, h>>]
      BY <1>17, <3>1, OtherRequests
    <3>3. hash'[r] = hash[r] /\ draft' = draft
          /\ (<<"refused", r>> \in past' => <<"refused", r>> \in past)
      BY <1>17, <2>1 DEF Respond, Note, pageVars
    <3> QED
      BY <3>2, <3>3, StillKnows
  <2>2. CASE k[1] = r
    <3>1. request[k].stage = "written" /\ request[k] # NoRequest /\ request[k] \in Requests
      BY <1>17, NewRequests DEF Respond, RequestTypes
    <3>2. k[2] \in Queues
      <4>1. k \in Places /\ k = <<r, k[2]>>
        BY <2>2, PlaceParts
      <4>2. k[2] \in Loose => request[k] = NoRequest
        BY <1>w, <4>1
      <4> QED
        BY <3>1, <4>1, <4>2, PlaceParts
    <3>3. PICK q \in Queues : k = <<r, q>>
      BY <2>2, <3>2, PlaceParts
    <3>4. \A h \in Queues \ {q} :
              request[<<r, h>>] = NoRequest /\ request'[<<r, h>>] = NoRequest
      <4>1. \A h \in Queues \ {q} : request[<<r, h>>] = NoRequest
        BY <3>1, <3>3, OnlySave
      <4>2. \A h \in Queues \ {q} : <<r, h>> \in Places \ {k}
        BY <3>3, PlaceParts
      <4> QED
        BY <1>17, <4>1, <4>2, OtherRequests
    <3>5. /\ request'[<<r, q>>] = [request[k] EXCEPT !.stage = "answered", !.hash = draft]
          /\ draft' = draft
      BY <1>17, <3>3 DEF Respond, RequestTypes
    <3>6. <<"refused", r>> \notin past'
      BY <1>17 DEF Respond, Note, KnowsDraft, Happened
    <3>7. request'[<<r, q>>].stage = "answered" /\ request'[<<r, q>>].hash = draft'
      BY <3>1, <3>5 DEF DraftTypes, Requests
    <3> QED
      BY <3>4, <3>5, <3>6, <3>7, KnowsByOne
  <2> QED
    BY <2>1, <2>2
<1>18. ASSUME NEW p \in Pages, NEW l \in Loose, Lose(p, l)
      PROVE  KnowsDraft(r)'
  <2>1. CASE r = p
    BY <1>18, <1>w, <2>1, NewRequests DEF Lose
  <2>2. CASE r # p
    <3>1. \A h \in Queues : request'[<<r, h>>] = request[<<r, h>>]
      BY <1>18, <2>2, PlaceParts DEF Lose, RequestTypes
    <3>2. hash'[r] = hash[r] /\ draft' = draft
          /\ (<<"refused", r>> \in past' => <<"refused", r>> \in past)
      BY <1>18, <2>2 DEF Lose, Note, pageVars, PageTypes
    <3> QED
      BY <3>1, <3>2, StillKnows
  <2> QED
    BY <2>1, <2>2
<1>19. CASE UNCHANGED vars
  BY <1>19, StillKnows DEF vars, pageVars
<1> QED
  BY DraftSyncAssumption, <1>1, <1>2, <1>3, <1>4, <1>5, <1>6, <1>7, <1>8, <1>9, <1>10,
     <1>11, <1>12, <1>13, <1>14, <1>15, <1>16, <1>17, <1>18, <1>19
     DEF Next, Fetch, Answer, Server

-----------------------------------------------------------------------------
(* The results.                                                            *)

LEMMA Initially == Init => IInv
<1> SUFFICES ASSUME Init
             PROVE  IInv
  OBVIOUS
<1> USE DraftSyncAssumption DEF Init
<1>1. TypeOK
  BY NewRequests DEF TypeOK, Graphs
<1>2. PageInv
  BY PlaceParts DEF PageInv, PageHolds, Happened
<1>3. DraftInv
  BY PlaceParts, NewRequests DEF DraftInv, DraftKeeps, Carries
<1>4. AloneInv
  BY PlaceParts, NewRequests DEF AloneInv, KnowsDraft, Happened
<1> QED
  BY <1>1, <1>2, <1>3, <1>4 DEF IInv

LEMMA Step == IInv /\ [Next]_vars => IInv'
<1> SUFFICES ASSUME IInv, [Next]_vars
             PROVE  IInv'
  OBVIOUS
<1>1. PageTypes /\ DraftTypes /\ RequestTypes /\ RefreshTypes /\ PageInv
  BY TypeParts DEF IInv
<1>2. TypeOK'
  <2>1. PageTypes' /\ DraftTypes' /\ RequestTypes' /\ RefreshTypes'
    BY <1>1, PageTypesKept, DraftTypesKept, RequestTypesKept, RefreshTypesKept
  <2> QED
    BY <2>1 DEF TypeOK, PageTypes, DraftTypes, RequestTypes, RefreshTypes, Fetches
<1>3. PageInv'
  BY <1>1, PageKept DEF PageInv
<1>4. DraftInv'
  <2>1. Undisturbed' => Undisturbed
    BY PastGrows DEF Undisturbed, Happened
  <2>2. Undisturbed => DraftKeeps
    BY DEF IInv, DraftInv
  <2> QED
    BY <1>1, <2>1, <2>2, DraftKept DEF DraftInv
<1>5. AloneInv'
  <2> SUFFICES ASSUME NEW p \in Pages, Alone(p)'
               PROVE  KnowsDraft(p)'
    BY DEF AloneInv
  <2>1. Alone(p)
    BY PastGrows DEF Alone, Happened
  <2>2. KnowsDraft(p)
    BY <2>1 DEF IInv, AloneInv
  <2> QED
    BY <1>1, <2>1, <2>2, AloneKept
<1> QED
  BY <1>2, <1>3, <1>4, <1>5 DEF IInv

\* The invariant: types, hidden and refused pages, what requests carry, a page alone.
THEOREM Invariance == Spec => []IInv
<1>1. Init => IInv
  BY Initially
<1>2. IInv /\ [Next]_vars => IInv'
  BY Step
<1> QED
  BY <1>1, <1>2, PTL DEF Spec

\* Every variable of the model of draft saving stays in its type.
THEOREM TypeCorrect == Spec => []TypeOK
<1>1. IInv => TypeOK
  BY DEF IInv
<1> QED
  BY <1>1, Invariance, PTL

\* performSync and sync_draft_workflow: an edit leaves the draft only after a
\* refusal, a write between a comparison and its write or between a write and its
\* answer, or the hiding of a page.
THEOREM OverwrittenExplained == Spec => []OverwrittenOnlyAfter
<1>1. IInv => OverwrittenOnlyAfter
  BY DEF IInv, DraftInv, DraftKeeps, Undisturbed, Disturbing, Happened,
         OverwrittenOnlyAfter
<1> QED
  BY <1>1, Invariance, PTL

\* The queues of a page: one that lost no answer, whose saves did not overlap and
\* that nobody wrote beside is never refused.
THEOREM SelfConflictFree == Spec => []NoSelfConflict
<1>1. IInv => NoSelfConflict
  BY DEF IInv, AloneInv, Alone, KnowsDraft, Happened, NoSelfConflict
<1> QED
  BY <1>1, Invariance, PTL
=============================================================================
