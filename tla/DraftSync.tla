------------------------------ MODULE DraftSync ------------------------------
(***************************************************************************)
(* Saving a workflow's draft from the canvas, without collaboration        *)
(* (dify, web/app/components/workflow-app/hooks/use-nodes-sync-draft.ts    *)
(* and use-workflow-refresh-draft.ts), and the server's comparison of      *)
(* hashes (api/services/workflow_service.py).                              *)
(*                                                                         *)
(* Several pages show the same workflow.  Each use of the hook in a page   *)
(* has a queue of its own: the saves of one queue follow one another,      *)
(* those of two overlap.  A graph is the set of the edits in it, and a     *)
(* hash, which covers the whole graph, is the graph itself.                *)
(* Edits only add, so that an edit missing from a graph was lost on the    *)
(* way.  A step is what a page does between two awaits, or one access to   *)
(* the draft's row by the server, whose requests run beside one another.   *)
(***************************************************************************)
EXTENDS Naturals, Sequences

CONSTANTS
    Pages,        \* pages with the workflow open
    Queues,       \* the uses of the hook in a page, each with its queue
    Canvas,       \* the one that the canvas saves by; the others save for a run
    Edits,        \* what users do on the canvas
    EditedOn,     \* the page of an edit
    SaveMode,     \* how an edit asks to be saved: later, now, now_quiet
    Hiding,       \* bound: the pages that are hidden, each at most once
    Failing,      \* bound: the pages whose saves may fail to be answered
    Running,      \* bound: the pages where a run is started, each at most once
    Loose,        \* bound: places for the requests of a page that nobody waits for
    MaxRefreshes  \* bound: fetches of the draft a page has under way

ASSUME DraftSyncAssumption ==
    /\ EditedOn \in [Edits -> Pages]
    /\ SaveMode \in [Edits -> {"later", "now", "now_quiet"}]
    /\ Hiding \subseteq Pages /\ Failing \subseteq Pages /\ Running \subseteq Pages
    /\ Canvas \in Queues /\ Queues \cap Loose = {}
    /\ MaxRefreshes \in Nat \ {0}

VARIABLES
    canvas,    \* the graph a page shows
    hash,      \* syncWorkflowDraftHash
    loaded,    \* isWorkflowDataLoaded
    debounced, \* pages whose debounced save is pending
    queue,     \* saves that wait in a queue: notRefreshWhenSyncError
    request,   \* the request of a queue's save that is under way, or a loose one
    ran,       \* pages where a run was started
    conflict,  \* pages that are reading the body of a 409
    refresh,   \* fetches of the draft under way
    view,      \* visible, hidden, or shown again with the timer running
    made,      \* edits that users have made
    draft,     \* the graph in the row of the draft
    saved,     \* history: edits that were in the draft once
    past       \* history: what happened to which page

pageVars == <<canvas, hash, loaded, debounced, queue, conflict, refresh, view, made, ran>>
vars == <<pageVars, request, draft, saved, past>>

Graphs == SUBSET Edits
Stages == {"idle", "sent", "compared", "written", "answered", "refused"}
Requests == [stage : Stages, graph : Graphs, hash : Graphs, quiet : BOOLEAN]
NoRequest == [stage |-> "idle", graph |-> {}, hash |-> {}, quiet |-> FALSE]
Events == {"refused", "failed", "hid", "wrote", "overtaken", "misled", "overlapped"}
Places == Pages \X (Queues \cup Loose)

TypeOK ==
    /\ canvas \in [Pages -> Graphs] /\ hash \in [Pages -> Graphs]
    /\ loaded \in [Pages -> BOOLEAN]
    /\ debounced \subseteq Pages /\ conflict \subseteq Pages
    /\ queue \in [Pages \X Queues -> Seq(BOOLEAN)]
    /\ request \in [Places -> Requests] /\ ran \subseteq Pages
    /\ refresh \in [Pages -> Seq([served : BOOLEAN, keep : BOOLEAN,
                                  was : BOOLEAN, graph : Graphs])]
    /\ view \in [Pages -> {"visible", "hidden", "timer", "shown"}]
    /\ made \in Graphs /\ draft \in Graphs /\ saved \in Graphs
    /\ past \subseteq Events \X Pages

\* Every page has loaded the empty draft.
Init ==
    /\ canvas = [p \in Pages |-> {}] /\ hash = [p \in Pages |-> {}]
    /\ loaded = [p \in Pages |-> TRUE]
    /\ debounced = {} /\ conflict = {}
    /\ queue = [k \in Pages \X Queues |-> <<>>]
    /\ request = [k \in Places |-> NoRequest] /\ ran = {}
    /\ refresh = [p \in Pages |-> <<>>]
    /\ view = [p \in Pages |-> "visible"]
    /\ made = {} /\ draft = {} /\ saved = {} /\ past = {}

Note(event, p) == past' = past \cup {<<event, p>>}

\* getPostParams
PostParams(p, quiet) ==
    [stage |-> "sent", graph |-> canvas[p], hash |-> hash[p], quiet |-> quiet]

-----------------------------------------------------------------------------
(* Edits and saves.                                                        *)

\* Mutation: the debounced call passes the page on as the flag.
Enqueue_Page(p, q, quiet) == queue' = [queue EXCEPT ![<<p, q>>] = Append(@, p)]

Enqueue(p, q, quiet) == queue' = [queue EXCEPT ![<<p, q>>] = Append(@, quiet)]

\* A change of the canvas and handleSyncWorkflowDraft: each edit happens once.
Edit(e) ==
    LET p == EditedOn[e] IN
    /\ view[p] # "hidden"
    /\ e \notin made
    /\ made' = made \cup {e}
    /\ canvas' = [canvas EXCEPT ![p] = @ \cup {e}]
    /\ IF SaveMode[e] = "later"
       THEN debounced' = debounced \cup {p} /\ UNCHANGED queue
       ELSE Enqueue(p, Canvas, SaveMode[e] = "now_quiet") /\ UNCHANGED debounced
    /\ UNCHANGED <<hash, loaded, request, conflict, refresh, view, ran, draft, saved, past>>

\* Mutation: no save is queued while one is under way.
Debounce_SkipWhileSaving(p) ==
    /\ p \in debounced
    /\ debounced' = debounced \ {p}
    /\ IF \A q \in Queues : request[<<p, q>>] = NoRequest
       THEN Enqueue(p, Canvas, FALSE) ELSE UNCHANGED queue
    /\ UNCHANGED <<canvas, hash, loaded, request, conflict, refresh, view, made, ran, draft,
                   saved, past>>

\* Five seconds after the last edit.
Debounce(p) ==
    /\ p \in debounced
    /\ debounced' = debounced \ {p}
    /\ Enqueue(p, Canvas, FALSE)
    /\ UNCHANGED <<canvas, hash, loaded, request, conflict, refresh, view, made, ran, draft,
                   saved, past>>

\* A run is started: the draft is saved before it, by another use of the hook.
Run(p) ==
    /\ view[p] # "hidden"
    /\ p \notin ran
    /\ ran' = ran \cup {p}
    /\ \E q \in Queues \ {Canvas} : Enqueue(p, q, FALSE)
    /\ UNCHANGED <<canvas, hash, loaded, debounced, request, conflict, refresh, view, made, draft,
                   saved, past>>

\* Two saves of a page are under way at once.
Overlapping(p) ==
    \E q, r \in Queues :
        q # r /\ request'[<<p, q>>] # NoRequest /\ request'[<<p, r>>] # NoRequest

\* performSync up to its request, when the save before it in its queue is over.
\* While the draft is fetched it returns, and what it was to save is not saved.
PerformSync(p, q) ==
    /\ queue[<<p, q>>] # <<>> /\ request[<<p, q>>] = NoRequest
    /\ queue' = [queue EXCEPT ![<<p, q>>] = Tail(@)]
    /\ request' = IF loaded[p]
                  THEN [request EXCEPT ![<<p, q>>] = PostParams(p, Head(queue[<<p, q>>]))]
                  ELSE request
    /\ IF Overlapping(p) THEN Note("overlapped", p) ELSE UNCHANGED past
    /\ UNCHANGED <<canvas, hash, loaded, debounced, conflict, refresh, view, made, ran, draft,
                   saved>>

\* Mutation: the hash of the answer is not taken.
Saved_KeepHash(p, q) ==
    /\ request[<<p, q>>].stage = "answered"
    /\ request' = [request EXCEPT ![<<p, q>>] = NoRequest]
    /\ UNCHANGED <<pageVars, draft, saved, past>>

\* The answer: the page takes the hash in it.
Saved(p, q) ==
    /\ request[<<p, q>>].stage = "answered"
    /\ hash' = [hash EXCEPT ![p] = request[<<p, q>>].hash]
    /\ request' = [request EXCEPT ![<<p, q>>] = NoRequest]
    /\ UNCHANGED <<canvas, loaded, debounced, queue, conflict, refresh, view, made, ran, draft,
                   saved, past>>

\* A 409.  Its body is read while the queue goes on.
Refused(p, q) ==
    /\ request[<<p, q>>].stage = "refused"
    /\ request' = [request EXCEPT ![<<p, q>>] = NoRequest]
    /\ conflict' = IF request[<<p, q>>].quiet THEN conflict ELSE conflict \cup {p}
    /\ Note("refused", p)
    /\ UNCHANGED <<canvas, hash, loaded, debounced, queue, refresh, view, made, ran, draft, saved>>

\* The page gives a save up: the request or the answer is lost, or it took too long,
\* and the server still carries it out.  Nobody sends it again.
SaveFails(p, q) ==
    /\ request[<<p, q>>] # NoRequest
    /\ \/ /\ request[<<p, q>>].stage # "compared"
          /\ request' = [request EXCEPT ![<<p, q>>] = NoRequest]
       \/ /\ request[<<p, q>>].stage \in {"sent", "compared"}
          /\ \E l \in Loose :
                /\ request[<<p, l>>] = NoRequest
                /\ request' = [request EXCEPT ![<<p, q>>] = NoRequest,
                                              ![<<p, l>>] = request[<<p, q>>]]
    /\ Note("failed", p)
    /\ UNCHANGED <<pageVars, draft, saved>>

-----------------------------------------------------------------------------
(* Fetching the draft.                                                     *)

\* handleRefreshWorkflowDraft(keep) up to its fetch.
RefreshDraft(p, keep) ==
    /\ Len(refresh[p]) < MaxRefreshes
    /\ debounced' = debounced \ {p}
    /\ loaded' = [loaded EXCEPT ![p] = FALSE]
    /\ refresh' = [refresh EXCEPT ![p] = Append(@,
           [served |-> FALSE, keep |-> keep, was |-> loaded[p], graph |-> {}])]

\* After draft_workflow_not_sync the canvas stays.
RefreshAfterConflict(p) ==
    /\ p \in conflict
    /\ conflict' = conflict \ {p}
    /\ RefreshDraft(p, TRUE)
    /\ UNCHANGED <<canvas, hash, queue, request, view, made, ran, draft, saved, past>>

GetDraft(p, i) ==
    /\ i \in DOMAIN refresh[p] /\ ~refresh[p][i].served
    /\ refresh' = [refresh EXCEPT ![p][i] = [@ EXCEPT !.served = TRUE, !.graph = draft]]
    /\ UNCHANGED <<canvas, hash, loaded, debounced, queue, request, conflict, view,
                   made, ran, draft, saved, past>>

Without(s, i) == SubSeq(s, 1, i - 1) \o SubSeq(s, i + 1, Len(s))

\* The page takes the hash of the graph, and the graph unless it keeps its own.
Refreshed(p, i) ==
    /\ i \in DOMAIN refresh[p] /\ refresh[p][i].served
    /\ canvas' = IF refresh[p][i].keep
                 THEN canvas ELSE [canvas EXCEPT ![p] = refresh[p][i].graph]
    /\ hash' = [hash EXCEPT ![p] = refresh[p][i].graph]
    /\ loaded' = [loaded EXCEPT ![p] = TRUE]
    /\ refresh' = [refresh EXCEPT ![p] = Without(@, i)]
    /\ UNCHANGED <<debounced, queue, request, conflict, view, made, ran, draft, saved, past>>

\* Mutation: the flag is not restored.
RefreshFails_NotRestored(p, i) ==
    /\ i \in DOMAIN refresh[p] /\ ~refresh[p][i].served
    /\ refresh' = [refresh EXCEPT ![p] = Without(@, i)]
    /\ Note("failed", p)
    /\ UNCHANGED <<canvas, hash, loaded, debounced, queue, request, conflict, view,
                   made, ran, draft, saved>>

RefreshFails(p, i) ==
    /\ i \in DOMAIN refresh[p] /\ ~refresh[p][i].served
    /\ loaded' = [loaded EXCEPT ![p] = @ \/ refresh[p][i].was]
    /\ refresh' = [refresh EXCEPT ![p] = Without(@, i)]
    /\ Note("failed", p)
    /\ UNCHANGED <<canvas, hash, debounced, queue, request, conflict, view, made, ran, draft, saved>>

-----------------------------------------------------------------------------
(* Leaving a page and coming back.                                         *)

\* visibilitychange to hidden, or beforeunload: the graph is sent, beside what is
\* under way, unless the draft is being fetched.  Nobody waits for the answer.
Hide(p) ==
    /\ view[p] = "visible"
    /\ view' = [view EXCEPT ![p] = "hidden"]
    /\ IF loaded[p]
       THEN \E l \in Loose : /\ request[<<p, l>>] = NoRequest
                            /\ request' = [request EXCEPT ![<<p, l>>] = PostParams(p, TRUE)]
       ELSE UNCHANGED request
    /\ Note("hid", p)
    /\ UNCHANGED <<canvas, hash, loaded, debounced, queue, conflict, refresh, made, ran, draft, saved>>

Show(p) ==
    /\ view[p] = "hidden"
    /\ view' = [view EXCEPT ![p] = "timer"]
    /\ UNCHANGED <<canvas, hash, loaded, debounced, queue, request, conflict, refresh,
                   made, ran, draft, saved, past>>

\* Half a second later the draft is fetched and will replace the canvas.
RefreshAfterShow(p) ==
    /\ view[p] = "timer"
    /\ view' = [view EXCEPT ![p] = "shown"]
    /\ RefreshDraft(p, FALSE)
    /\ UNCHANGED <<canvas, hash, queue, request, conflict, made, ran, draft, saved, past>>

-----------------------------------------------------------------------------
(* The server: sync_draft_workflow for a request of a page.                *)

\* Mutation: the hashes are not compared.
CompareHash_Never(r) == [r EXCEPT !.stage = "compared"]

\* The draft is read and its hash compared ...
CompareHash(r) == [r EXCEPT !.stage = IF draft = r.hash THEN "compared" ELSE "refused"]

\* The answer to a loose request goes nowhere.
HeardOf(k, r) == IF k[2] \in Loose THEN NoRequest ELSE r

Compare(k) ==
    LET compared == CompareHash(request[k]) IN
    /\ request[k].stage = "sent"
    /\ request' = [request EXCEPT ![k] =
           IF compared.stage = "refused" THEN HeardOf(k, compared) ELSE compared]
    /\ UNCHANGED <<pageVars, draft, saved, past>>

\* Pages with another request that was compared and will overwrite what k writes.
OvertakenBy(k) == {j[1] : j \in {i \in Places \ {k} : request[i].stage = "compared"}}

\* ... then it is written, with no lock in between ...
Write(k) ==
    /\ request[k].stage = "compared"
    /\ draft' = request[k].graph
    /\ saved' = saved \cup request[k].graph
    /\ past' = past \cup {<<"wrote", k[1]>>} \cup ({"overtaken"} \X OvertakenBy(k))
    /\ request' = [request EXCEPT ![k] = HeardOf(k, [@ EXCEPT !.stage = "written"])]
    /\ UNCHANGED pageVars

\* ... and after the commit the row is read again for the answer's hash: it may be
\* what another request has written by now.
Respond(k) ==
    /\ request[k].stage = "written"
    /\ request' = [request EXCEPT ![k].stage = "answered", ![k].hash = draft]
    /\ IF draft = request[k].graph THEN UNCHANGED past ELSE Note("misled", k[1])
    /\ UNCHANGED <<pageVars, draft, saved>>

\* A loose request may be lost.
Lose(p, l) ==
    /\ request[<<p, l>>].stage = "sent"
    /\ request' = [request EXCEPT ![<<p, l>>] = NoRequest]
    /\ UNCHANGED <<pageVars, draft, saved, past>>

-----------------------------------------------------------------------------
Fetch(p) == \E i \in 1..MaxRefreshes : Refreshed(p, i) \/ RefreshFails(p, i)
Answer(p, q) == Saved(p, q) \/ Refused(p, q)
Server(k) == Compare(k) \/ Write(k) \/ Respond(k)

Next ==
    \/ \E e \in Edits : Edit(e)
    \/ \E p \in Pages :
        \/ Debounce(p) \/ RefreshAfterConflict(p) \/ Fetch(p)
        \/ \E q \in Queues : PerformSync(p, q) \/ Answer(p, q)
        \/ \E i \in 1..MaxRefreshes : GetDraft(p, i)
        \/ \E l \in Loose : Lose(p, l)
        \/ Show(p) \/ RefreshAfterShow(p)
    \/ \E k \in Places : Server(k)
    \/ \E p \in Running : Run(p)
    \/ \E p \in Hiding : Hide(p)
    \/ \E p \in Failing, q \in Queues : SaveFails(p, q)

Spec == Init /\ [][Next]_vars

\* Timers run out, the event loop runs what is due, and a request that is sent
\* is answered or fails in the end (ky's timeout).
Fairness == \A p \in Pages :
    /\ WF_vars(Debounce(p)) /\ WF_vars(RefreshAfterConflict(p)) /\ WF_vars(Fetch(p))
    /\ \A q \in Queues :
        /\ WF_vars(PerformSync(p, q)) /\ WF_vars(Answer(p, q)) /\ WF_vars(Server(<<p, q>>))

FairSpec == Spec /\ Fairness

-----------------------------------------------------------------------------
(* Properties.                                                             *)

\* "Workflow graph might have been modified, please refresh and resubmit."
\* (controllers/console/app/error.py:90): the graph a page sends has in it the
\* graph whose hash it sends, where the server did not carry out another request in
\* the middle of one.  A refused page takes the hash and not the graph.
BuiltOnItsHash ==
    ({"overtaken", "misled"} \X Pages) \cap past = {} =>
        \A k \in Places : request[k].stage \in {"sent", "compared"} =>
            request[k].hash \subseteq request[k].graph

\* No edit vanishes from the draft until a save was refused, two requests were
\* compared before either was written (workflow_service.py:291, 337), a request was
\* answered with the hash of what another one wrote (workflow.py:540), or a page was
\* hidden and its canvas replaced while a save was under way (index.tsx:408).
OverwrittenOnlyAfter ==
    ~ saved \subseteq draft =>
        \E p \in Pages, event \in {"refused", "overtaken", "misled", "hid"} : <<event, p>> \in past

\* A queue keeps a page from refusing itself: the hash of a save is read when the
\* answer before it is in (use-nodes-sync-draft.ts:164, 194).  There is a queue for
\* each use of the hook, and the saves of two, when they overlap, do refuse one
\* another (workflow-main.tsx:153, use-workflow-start-run.tsx:67).
NoSelfConflict ==
    \A p \in Pages : <<"refused", p>> \in past =>
        \/ \E q \in Pages \ {p} : <<"wrote", q>> \in past
        \/ \E event \in {"overlapped", "failed", "hid"} : <<event, p>> \in past

\* Every edit gets into the draft in the end, unless a save of its page was refused
\* or failed or its page was hidden: after those, nothing saves again by itself.
EditsAreSaved ==
    <>[] \A e \in made :
        \/ e \in saved
        \/ \E event \in {"refused", "failed", "hid"} : <<event, EditedOn[e]>> \in past

\* A page does not stay unable to save because of a fetch that fails, or of two
\* fetches that end in either order (use-workflow-refresh-draft.ts:30-32, 48-51).
PageCanSaveAgain == \A p \in Pages : []<>loaded[p]
=============================================================================
