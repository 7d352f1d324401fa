# Verification of the Zhongfangtang AI assistant

TLA+ models of the concurrent parts of this repository, checked by TLC on small
instances and proved about with TLAPS. The repository holds two programs of its
own: `src/dify-on-wechat`, a Python server that connects chat channels (WeChat
official accounts, WeCom, Feishu, DingTalk, web and others) to bots (Dify and
others), and `src/zhongfangtang-ai`, a Next.js application with a chat page,
knowledge base and webhooks. `src/dify` is a copy of the Dify platform, of which
three protocols are modelled: the renewal of the console's token, the saving of a
workflow's draft, and the choice of the tab that saves in a collaboration.

Contents: [inventory](#inventory), [modules](#modules), [runs](#runs),
[fairness and deadlock](#fairness-and-deadlock), [proofs](#proofs),
[findings](#findings), [further configurations](#further-configurations),
[not modelled](#what-is-not-modelled), [plan](#plan).

## Inventory

### The dispatcher: `channel/chat_channel.py`, `common/dequeue.py`

*State.* `sessions`: session id → (`Dequeue`, `BoundedSemaphore`); `futures`:
session id → futures submitted; one `lock`; a thread pool of eight workers. All of
it belongs to the class and is shared by every channel object of the process.

*Operations.* `produce` (any channel thread) makes a session if need be and puts
a message in its queue, on the left if it starts with `#`. `consume` (one thread
for ever) walks over the sessions, takes a permit and a message, submits the
handler, registers a done-callback and records the future, or deletes a session
it finds empty and idle. The callback gives the permit back and calls
`_success_callback` or `_fail_callback`. `cancel_session` and
`cancel_all_session`, called by plugins inside a handler (`#reset`, `#resetall`),
cancel pending futures and replace queues.

*Hard.* Queue, semaphore and futures are read under the lock and used after its
release; callbacks run in the worker, in the consumer, or in the canceller while
it holds the lock; the semaphore is taken by one thread and released by another
through the dictionary.

*Correct means.* No permit leaks or is given back twice; never more than
`concurrency_in_session` tasks of a session; the consumer thread never dies;
commands overtake chat; a message is handled at most once and in order; every
queued message is handled or given up; cancelled messages are not handled.

### Passive replies: `channel/wechatmp/passive_reply.py`, `wechatmp_channel.py`

*State.* `cache_dict` (user → list of reply parts, a `defaultdict`), `running`
(users whose message is being processed), `request_cnt` (message id → requests
so far). No lock.

*Operations.* `Query.POST` (one thread per HTTP request: start a task, wait up to
four seconds, sleep or answer "thinking", collect a part), `send` (a worker
uploads and appends parts; `_send` calls it up to three times when it raises),
`_success_callback` and `_fail_callback`. WeChat posts a message up to three times.

*Hard.* Three requests per message race with the worker and with one another; each
dictionary operation is a step of its own; an upload fails between two parts.

*Correct means.* Each message starts one task; no part that was cached is lost, handed
out twice or delivered before its predecessor; no stale key or user in `running` blocks a
user. The code keeps this in part only: see [findings](#findings).

### Dify sessions: `bot/dify/dify_bot.py`, `dify_session.py`, `common/expired_dict.py`

*State.* `sessions` (an `ExpiredDict` when `expires_in_seconds` is set), and in each
`DifySession` a message counter and a conversation id.

*Operations.* `get_session`, `count_user_message`, the request with the
conversation id, the recording of the id after the answer, `clear_session`,
`clear_all_session`, expiry.

*Hard.* Handlers of a session share the object; they keep it after a reset; the
dictionary is tested and read in two steps, and an `ExpiredDict` writes back, to renew
it, what it has read.

*Correct means.* A conversation does not exceed its limit; what a reset dropped takes no
further query; the next query continues the conversation answered.

### Zhongfangtang chat: `app/chat/page.tsx`, `app/api/chat`, `app/api/wecom`, `lib/rag.ts`

*State.* In the page, `messages` and `loading`; in the database, the table
`conversations`. The routes keep nothing.

*Operations.* `sendMessage`, both POST handlers, `ragChat` (embedding, knowledge
search, DeepSeek, insert).

*Hard.* Each `await` may fail or never be seen by the page; WeCom posts again;
the history comes from a rendering that is older than the update just queued.

*Correct means.* Transcript and prompt alternate and are the page's own; a page never
stays disabled. Nothing can be said of the table `conversations` beyond what is in it:
its rows have random ids, no conversation, and one time for question and answer.

### Zhongfangtang knowledge administration: `app/admin/page.tsx`, `app/api/knowledge`

*State.* In a page, the list shown, the fields of a new item and `loadingKn`; in the
database, the table `knowledge_base`.

*Operations.* Logging in, adding (embedding, insert), deleting, and loading the list,
which follows every addition and deletion and does not wait for an earlier load.

*Hard.* Requests and answers overtake one another or get lost; the form is emptied
when the answer comes, whatever has been typed by then; POST is not idempotent.

*Correct means.* The answer to the newest load shows what the page itself did; of two
rows of one item the page never heard of one; what was sent is cleared only when it is
in the table.

### Renewal of the token: `web/service/refresh-token.ts` of Dify

*State.* In each tab the module variable `isRefreshing` and a listener; in
`localStorage`, shared by all tabs, `is_other_tab_refreshing` and
`last_refresh_time`; the cookie; in Redis the refresh tokens the server accepts.

*Operations.* `refreshAccessTokenOrReLogin` and its timer, `getNewAccessToken`,
`waitUntilTokenRefreshed`, `releaseRefreshLock`, `beforeunload`; on the server
`AccountService.refresh_token`, which deletes the old token and makes another.

*Hard.* The lock is tested and set in two steps between tabs; the timer is never
cleared; a tab crashes with the lock in its hand; an answer is lost after the
server has exchanged the token.

*Correct means.* A tab has one renewal under way; the session survives races of
tabs; a refusal comes of such a race only; no call waits for ever.

### Saving a draft: `use-nodes-sync-draft.ts`, `use-workflow-refresh-draft.ts`, `workflow_service.py` of Dify

*State.* In a page the canvas, `syncWorkflowDraftHash`, `isWorkflowDataLoaded`, the
debounced call, a queue of saves for each use of the hook (the canvas, a run that
is started) and fetches of the draft; on the server one row.

*Operations.* An edit asks for a save, at once or five seconds later, a run that is started
for another; the saves of one queue wait for one another, those of two do not; the server
compares the hash, writes, and reads the row again for the answer; a refused page fetches
the draft and takes its hash; a page that is hidden sends its graph without waiting, and
fetches the draft when it is shown again.

*Hard.* Compare and write are two steps without a lock; several pages; the canvas
is replaced while saves wait; two fetches end in either order; lost requests.

*Correct means.* No edit leaves the draft without somebody being told; a queue keeps a
page from refusing itself; edits get saved; a page does not stay unable to save.

### Which tab saves: `workflow_collaboration_service.py`, `collaboration-manager.ts` of Dify

*State.* In Redis the sessions of a room, the map of sessions and the leader; in each
tab `isLeader`; messages on their way.

*Operations.* Joining, leaving, the roll call that removes what looks dead, the
election, its announcement, and a follower's request to save, which the server
forwards to the leader. Sessions expire after an hour without a call.

*Hard.* Handlers overlap at every call to Redis; the outcome is announced later than
it is decided; a tab goes without a word.

*Correct means.* When all is quiet, exactly the tab that Redis names thinks it
leads; every request to save reaches a tab that thinks so.

### Parts with state of their own that are not modelled yet

| Part | State | Operations | Hard, and what would make it correct |
|---|---|---|---|
| `bot/session_manager.py` | messages per session | query, reply, `discard_exceeding`, clear | handlers append to one list: prompts alternate, the system prompt stays first |
| Plugin manager, `common/sorted_dict.py` | plugins, priorities, listeners | register, enable, `emit_event` | enabling during an event: order by priority, BREAK ends the chain |
| `common/token_bucket.py` | tokens, condition | generate, `get_token` | waits with a timeout: at most capacity, everybody gets one in the end |
| Duplicate filters (`wechat_channel`, `dingtalk_channel`) | `ExpiredDict` of message ids | test, set | tested and set in two steps: a message is processed once |
| Web channel | a queue per user | send, poll | the stream drains what workers put |
| WeCom customer service | token, cursor | refresh, `sync_msg` | the cursor neither skips nor repeats |

### How the parts interact

```
 channel thread --produce--> queue --consumer--> pool --handler--> plugins, bot
      ^                                             |                  |
 WeChat, WeCom ...                    done-callback (permit, running)  Dify, DeepSeek
      ^                                             |
      +---- response <--- cache_dict <--- send -----+        page --> /api/chat --> ragChat
                                                             WeCom -> /api/wecom --^
```

The passive channel and the Dify bot depend on the dispatcher only through the
number of messages of a session in handling. That interface is
`SessionLimiter`, which `ChatDispatch` is shown to implement (`ImplementsLimiter`).
`PassiveReply` and `DifyConversation` take it for granted: it is the guard of their
`StartTask` and `Begin`. The admin page writes the
table that `ragChat` reads; `ZftChat` takes whatever it finds there, so that the two
have no state in common. The three protocols of Dify's console share no state
either: while several tabs collaborate the leader's saves go the way `DraftSync`
models for one page, and a call that meets an expired token is an event of `TokenRefresh`.

## Modules

| Module | Models | One step is |
|---|---|---|
| `SessionLimiter` | what the dispatcher promises: handled at most once, at most `Limit` at a time | arrival, begin, end, giving up |
| `ChatDispatch` | the dispatcher | a critical section, or one use of a shared object outside the lock |
| `PassiveReply` | requests, tasks, uploads, WeChat's retries and those of `_send` | one operation on `cache_dict`, `running` or `request_cnt` |
| `DifyConversation` | sessions of the Dify bot | one operation on the dictionary or the session object; a lookup that renews is two |
| `ZftChat` | chat pages, WeCom posts, runs of `ragChat` | what happens between two awaits |
| `ZftAdmin` | admin pages, requests to `/api/knowledge`, the table | what a page does between two awaits, or one request does to the table |
| `TokenRefresh` | calls of several tabs, timers, the server's tokens | a piece of synchronous code up to its next access to `localStorage` |
| `DraftSync` | pages that edit one draft, the server's comparison | what a page does between two awaits, or one access to the draft's row |
| `CollabLeader` | sessions of a room, the handlers, Redis | about one call to Redis, or the arrival of a message |
| `ChatDispatch_proofs`, `PassiveReply_proofs`, `DifyConversation_proofs`, `TokenRefresh_proofs`, `ZftAdmin_proofs`, `ZftChat_proofs`, `DraftSync_proofs`, `CollabLeader_proofs` | theorems | |
| `MC...` | instances for TLC | |

Each module also holds, beside an action, one or two operators whose comment begins
"Mutation": plausible bugs of that action. They are not part of `Next`; putting one in
the action's place makes TLC report the property it was written for.

**ChatDispatch.** `status[m]` is where a message is: `new`, `queued`, `pending` in
the pool, `running`, `callback`, `done`; `discarded` by a reset, `lost` with its
session, `cancelled`, or `stuck` waiting for the lock. `pc` is the consumer's
position: `each` (365), `acquire` (366-368), `register` (371-372), `append`
(373-375), `check` (376), `delete` (377-380); `dead` after an exception. `slots`
counts permits *taken*. When a reset replaces a queue the consumer has just read,
`ref` and `held` keep the old one. `cancel_session` is one step unless it cancels
a task: that runs the callback, which waits for the lock its own thread holds
(`CancelPending`). `cancel_all_session` keeps the lock over its loop, which is
several steps since workers go on without it. The handler of a chat message is
abstract: it starts and it ends, by return or exception alike.

**PassiveReply.** `pc[m]` is the position of the thread that serves the current
request for message `m`. The two reads in the test for a new request (52-58) and
in the test for nothing to collect (129) are separate steps, as are `pop`, the
test for an empty list and `del` (134-136); reading the `defaultdict` creates the
key. A task is one run of the handler; which reply it comes to is a choice from
`Replies` of its message. A *sending* `<<t, n>>` is the n-th time that `_send` calls `send`
for the task `t` (`tries`): the entries it caches are its own, so that a part cached again
by the next one is another entry. An upload comes before each part but a text's; for
messages in `Fragile` it may be refused, and `send` returns with what it has cached
(`SendLess`), or raise, and `_send` begins again (`SendAgain`) while tries are left.
`Reply` has no branch for a video, like the code: the entry that was popped is gone
and the answer is a bare "success". `stored` is a history of the parts ever cached,
videos apart. The dispatcher behind it is reduced to `SessionLimiter`'s phases.

**DifyConversation.** An object and a conversation are named for the message that
made them, so equal names mean the same object. `Respond` chooses between failure,
an empty answer, and an answer that reaches the recording of the conversation id.
A lookup of the `ExpiredDict` is `Find` or `Fetch`, which read the entry, and then `Drop`,
if it is too old (`expired`), or `WriteBack`, which stores what was read over whatever
is there by then; without an expiry (`Expiry` FALSE) it is one step. `#reset` looks,
and then deletes (`Delete`); `#resetall` clears at once. `forgotten` is a history of the
objects a reset has dropped while no handler was about to write them back.
`MaxMessages` is positive; the setting that turns the limit off is not modelled.

**ZftChat.** A run is one call of `ragChat`. A lost connection ends the page's
wait while the run goes on. The table `conversations` is a set of rows.

**ZftAdmin.** `made` is the history of the table and `table` the rows that are left. A
load is a member of the page's sequence `loads`, and `shown` the number of the load
whose answer the page shows. `unheard` are rows whose insertion the page never
learned of. A lost connection ends the page's wait and not the request: it may never have
reached the server, or be *adrift* and carried out at any later time (`PostAdrift`,
`ServeDelete`), after what the page has sent since. A deletion may be refused, for
whatever reason.

**TokenRefresh.** A token is named for the call whose request made it. `pc` is where
a call is: between two accesses to `localStorage` (one of `Sync`, which nothing
else of the tab interrupts), polling, waiting for the answer, or done. `key` and `fresh`
are the two entries of `localStorage`; that the time there becomes stale is the
action `TurnStale`, possible at any time, since there is no clock. A tab unloads in
two steps (each removes one entry) or crashes in none.

**DraftSync.** A graph is the set of the edits in it and a hash is the graph itself, so
that equal hashes mean equal graphs. `request` has a place for the save under way of each
queue of a page, and for those that nobody waits for (`Loose`): the keep-alive save of a page
that is hidden, and a save that was given up while the server works on it. A request
goes from `sent` over `compared` and `written` to `answered` or `refused`. `Canvas` is the
queue of the canvas; the others serve `Run`, the save before a run. `past` records which
page was refused, failed, hidden or wrote, had two queues saving at once
(`overlapped`), was compared before another write that it then overwrites (`overtaken`),
or was answered with the hash of what another one wrote (`misled`).

**CollabLeader.** `job[h]` is a handler: its position, what it read (`seen`, `users`), whom
it chose, and, in a join, the verdict `leads` that is announced at the end. A tab's belief
`isLeader` changes when an announcement arrives. Joining writes the hash and the key in two
steps, between which a roll call may take the session out of the hash again. `lapsed` is a
history of open tabs that the server has dropped: their key expired, or another tab's
handler removed them; nobody tells them anything, and one that led goes on believing it
until it joins again. `unheard` are the sessions whose request to save has not come to a tab
that thinks it leads; one forwarded to a tab that has not heard yet of its election is
ignored there, and stays in it. `replaced` is a history: the leader went, or lost its
session, while a handler ran, or was gone before it was appointed, or another came while one
was about to announce its own.

## Runs

| Run | Instance | Shows |
|---|---|---|
| `dispatch_safety` | 2 users, 4 messages with `#reset` and `#resetall`, 2 workers, 2 permits | permits accounted, consumer lives, commands first, implements `SessionLimiter` |
| `dispatch_order` | 2 users, 5 messages with `#reset`, 1 permit, fair | order of handling, every message settles, sessions are deleted again |
| `passive_patient` | 1 user, 3 messages (a long text or voices that may fail to upload; one without a context; nothing or a video), 3 requests each, 2 tries to send, fair | a patient user without commands loses nothing that was cached but videos, gets the parts in order, and always an answer |
| `passive_overlap` | 1 user, 2 messages (voices or an exception; a command that raises), 2 requests, 2 permits, 2 tries to send, dropped tasks | no entry twice; who is left in `running`, and by what |
| `dify` | 2 users, 6 messages with `#reset` and `#resetall`, limit 2, expiry, one message of a user at a time | the limit holds, a query finds its session and continues the conversation answered, what a reset dropped takes no further query |
| `zft_chat` | 1 page asking twice, 1 WeCom customer posted up to twice, history 2, fair | transcripts, prompts, recovery |
| `zft_admin` | 2 pages, 2 items typed on one, 2 rows, lists of 1, 3 loads and 1, an addition adrift | the newest list shows a page's own writes, of two rows of an item one was never heard of, what is cleared was inserted |
| `token_refresh` | 2 tabs with 2 calls and 1, one tab closes or crashes, fair | one renewal per tab, the session survives, refusals explained, every call ends |
| `draft_sync` | 2 pages with 2 queues, an edit on each, one page starts a run, hides and may lose requests, 2 fetches, fair | edits vanish only in four ways, a page refuses itself only with two queues at once, edits are saved, saving is possible again |
| `collab_leader` | 3 tabs, one edits, one closes or expires, 2 handlers at once, fair | unless the leader goes under a handler: of the tabs the server has not dropped one leads and knows it; requests are heard |
| `dispatch_cancel_returns`, `collab_leader_knows` | as above, one property each | the [findings](#findings) |

`TypeOK` is a theorem in each of these modules; runs check it too in `passive_overlap`,
`draft_sync` and `collab_leader`.
`BoundedConcurrency` is a theorem, and a consequence of `ImplementsLimiter`, which a run checks.

*Why these bounds.* Two sessions show what one may do to another (they share the lock, the
pool and the consumer); two workers and two permits are the least with which tasks of a
session overlap, and the pool of two is full with tasks waiting, which a reset needs to
meet. Eight workers, the real number, would only make that rarer. With two permits the model
covers `concurrency_in_session` above one (its default is four); the order run uses one,
with which alone order can be promised. Users of the passive channel share no key, so one is
enough; its three requests per message are the real number, and two in the overlap run leave
room for commands, drops and exceptions. Two tries to send (`MaxSends`, three in the code)
repeat a reply once, after nothing or one part of it was cached; `Replies` gives each
message of a run the kinds that are hard where it stands: two parts first, whose uploads may
fail (`Fragile`), then a refusal, then silence or a video. A limit of two (default 5) lets a
conversation be filled and another one begun by three queries of one user, while the other
one resets everybody. A history of two (6 in the code) is shorter than a transcript of two
questions, so that the slice cuts. `MaxPosts` bounds WeCom's posts at two: a third would
repeat the second's race. One page is enough since pages share only the table, where WeCom
is the other writer. In `zft_admin` a list of one row (100 in the code) makes newer rows
displace older ones, two rows make a duplicate possible, and three loads let two answers
overtake one another with a third to come; the other page is there to delete. One addition
of an item adrift (`MaxAdrift`) is enough to come before or after the one sent next. In
`token_refresh` two calls of one tab meet the flag, a call of the other one meets the lock;
`Closing` is the tab that leaves, by unloading or by a crash. In `draft_sync` one edit asks
for a save later and the other at once, quietly (the third way, at once and aloud, differs
from the debounced one by its time only); two queues are the least that overlap; `Running`,
`Hiding` and `Failing` name the page where a run is started, that is hidden and that loses
requests, the other page being the undisturbed witness; one place for a request that nobody
waits for (`Loose`); two fetches are the least that end in either order. In `collab_leader`
two handlers at once (`MaxHandlers`) are enough for every pair to overlap, and the third tab
is the one that must be told of an election it has no part in; `Editing`, `Closing` and
`Expiring` name the tab each thing may happen to.

## Fairness and deadlock

Weak fairness on the consumer, on the pool and on every worker's step: they are
threads, each enabled step of theirs is taken, and a handler returns because the
requests it makes have timeouts. Request threads likewise; WeChat does retry an
unanswered request. A run of `ragChat` goes on, and the browser delivers a
response that exists. In `TokenRefresh` each tab's event loop is fair, for what it runs
without the network, timers included: a call must end though neither the server nor
the network answers. In `DraftSync` the debounce timer, the queue of saves,
the answer to a refusal, the arrival of answers, the server, and the end of a fetch
are fair for each page; the request library ends a request after its timeout.
In `CollabLeader` messages that were sent arrive, the server notices a closed socket
(by ping), and each handler runs on, the one of a session's call and the one of its
disconnect separately, since each is started on its own. There is no fairness on what
nobody owes: a user's writing or editing, a lost connection, expiry, hiding a page,
a post by WeCom. No strong fairness is used.

`CHECK_DEADLOCK FALSE` stands where the system may stop: in `dispatch_safety` a `#resetall`
may wait for ever for its own lock (finding 1), and in the others all messages, edits and
calls may have been made. In the dispatcher's other runs the consumer keeps walking, so
deadlock is checked.

## Proofs

All theorems hold for every value of the constants under the named assumption of their
module (`DispatchAssumption`, `PassiveAssumption`, `ConversationAssumption`,
`ZftChatAssumption`, `ZftAdminAssumption`, `TokenRefreshAssumption`, `DraftSyncAssumption`,
`CollabLeaderAssumption`), which TLC evaluates in the runs: any set of messages, sessions,
pages, tabs or edits, any positive number of workers, permits or fetches. Where a theorem
assumes more of the constants it says so in its ASSUME, and the premise is told below. In
each module but `CollabLeader_proofs` a theorem `Invariance` states that the inductive
invariant `IInv` holds, and the others follow from it. TLC checked each inductive invariant
on the instance of a run before it was proved.

`ChatDispatch_proofs`:

- The parts of `IInv` are `TypeOK`; `ConsumerInv` (what
  the consumer knows at each position, above all that it alone deletes sessions,
  so the one it visits exists); `QueueInv` and `HeldInv` (a queue holds messages
  of its session, each once); `FuturesInv`; `TrackedInv` (a session without
  recorded futures still has its first message queued, so that the read in 378
  finds a key); `SlotsBound`; `PermitAccounting`; `ResetReachesPending`.
  The strengthening is needed because the promise about permits depends on the
  consumer's own permit: with exactly one permit taken and the consumer holding
  it, no task of the session is in flight, so deleting the session loses no permit,
  the assertion "thread pool error" holds and a later callback finds the semaphore
  of its own task.
- `CommandsGoFirst`: a task that is submitted while a command of its session waits is a
  command itself. From `OrderInvariance`: `Enqueued` (a queued message is in its
  queue), `QueueOrder` (commands first, then chat messages in order), `ArrivedInOrder` and
  `LeftInOrder`. The queue the consumer read (`held`) needs no part: its messages count
  as discarded.
- `InOrder`: with one permit (`Concurrency = 1`) the chat messages of a session are handled
  in the order they arrived. The permit is what orders the tasks: they leave the
  queue in order, and while one is in flight no other of its session is submitted.
- `TypeCorrect`, `PermitsAccounted`, `ConcurrencyBounded`, `ConsumerLives`,
  `PendingRecorded` follow from it.
- `LimiterImplemented`: `Spec => ImplementsLimiter`, by a refinement mapping that
  reads the phase off the status (a discarded message at the head of a queue the
  consumer still refers to counts as waiting). Every step is one of
  `SessionLimiter` or leaves the phases alone.

`PassiveReply_proofs`:

- `IInv`: the types (`ScalarTypes`, `DataInv`: only a first part is long, and an entry lies
  with its task's user); `CountInv` and `FreshInv` (a message is counted once in each of its
  requests, and a request that has not come to `Begin` has produced nothing); `TriesInv`
  (nothing is sent before a task begins); `PlacesInv`.
- `NothingTwice`: a part of what a sending caches is still to be cached, or in the list of
  `cache_dict`, or in one thread's hand, or delivered, and in none of these twice. That is
  `PlacesInv`; its last conjunct, nothing anywhere for a sending later than the one the task
  is at, makes it inductive. It holds for impatient users, dropped tasks, and
  handlers and uploads that raise alike.
- `StrandedExplained`: a task that ends in another way than the two that `StrandedOnly` names
  takes its user out of `running`; a request that puts its user there produces a task in
  the same step, which is not live yet by `FreshInv`.
- For patient users without commands (`Patient`: `~Overlap` and no `Commands`), tasks that
  are dropped or raise included: `NothingLost`, `ReplyInOrder`, `NoOrphan`, `SuccessMeant`.
  `PatientInv` adds to `IInv`: `ExchangeInv` (the exchange about a message is over when the
  next one begins), `LiveInv` (a user has one live task at most, is in `running` while it
  lives, and has no request that acts), `CacheInv` (so what a request read in `cache_dict`
  is still true when it acts on it), `LostInv` and `OrderInv` (every part that was cached is
  somewhere, and the first part of a sending nearer to the user than the second). The
  premise is needed: `PassiveReplyNoOrphanEntry` breaks it by `Overlap`, and a command is
  what loses a part (see [findings](#findings)).
- `RunningIsReal`: where no task is dropped and no handler raises (`Reliable`), a user in
  `running` has a task that lives, however impatient the users and with commands.

`DifyConversation_proofs`:

- `IInv`: `TypeOK`; `ObjInv` (a handler past `fetch` has an object);
  `RememberedInv`, `SentInv` and `UsedInv` (each conversation id belongs to the object of
  the message it is named for); `ProgressInv`.
- `TypeCorrect`, with any number of concurrent handlers.
- `ResetIsForgotten`, likewise, from `OwnInv` (an object serves one session) and
  `ForgottenInv`: no object that was forgotten is in the dictionary, or read by a handler
  that is about to write it back.
- With `Concurrency = 1`, from a second invariant `OneInv` (at most one handler of a
  session is past its beginning, and what it knows of its object's counter and
  conversation): `SessionIsFound` and `ConversationBounded`. The premise is needed:
  see [further configurations](#further-configurations).
- `AnswerIsRemembered`, with the same premise: an answer that is recorded makes its
  session go on with the conversation it came from. `AnswerInv`: from the answer to
  line 212 nobody gives the object another conversation.

`TokenRefresh_proofs`:

- `TabSends`: the flag of a tab is set while one of its calls sends, and only that
  call or a timer of the tab clears it; the lock in `localStorage` plays no part.
- `SessionKept` and `RefusalExplained`: a token is made once and accepted until it is
  used once, so that the last token made is in the jar, in an answer on its way, or in
  one that nobody will hear; a refused request has a rival with the same token.

`ZftAdmin_proofs`:

- `ListAgrees`: a load served after an insertion or deletion contains, or lacks, the row;
  what a page has heard of was done before its newest load was sent. The difficulty
  is the limit on the list: a row among the newest now was so at every earlier time
  (`Newest` is antitone in what was inserted), a fact about cardinalities.
- `TwiceExplained` and `TypedKept`: what is sent stands in the fields or was replaced
  there, and an item whose insertion was heard has left them (`HeardInv`), so that any
  insertion of it afterwards is of a request adrift, which nobody hears of.

`ZftChat_proofs`:

- `IInv`: `TypeOK`; `AskedInv` (a question belongs to one page or to WeCom, and is asked
  once); and the two properties. `TranscriptsPaired` and `PromptsWellFormed` hold for every
  length of history and number of posts.

`DraftSync_proofs`:

- `OverwrittenExplained`: while nobody was refused, overtaken, misled or hidden (`DraftInv`),
  each request carries the hash of a part of its graph, so that what is written has in it
  the draft that passed the comparison.
- `SelfConflictFree`: a page that is alone and whose queues have not overlapped (`AloneInv`)
  has one save under way at most, knows the draft's hash before it and gets it with the
  answer.

`CollabLeader_proofs`, for any number of sessions and of handlers at once:

- `TypeCorrect` needs `PhaseOK` beside the types: a handler that elects or announces knows
  on whose behalf, else the CASE of `Announce` would have no arm.
- `OneLeaderElected`: `OneLeader`, from `LeaderInvariance`, of the open tabs that the server
  has not dropped (a tab that has `lapsed` hears nothing, so nothing can be promised of what
  it believes). The invariant says, per handler
  and position, what its last reads of Redis are still good for (`JoinOK`,
  `EventOK`, `LeaveOK`): a join evicts only the leader it found gone, and never elects, since
  from its roll call on there is a leader; a disconnect elects in its own place, or in
  the place of a leader that was not called. `Known`: the tabs will believe what Redis
  holds once they have heard what is on its way (`Believes` reads the last announcement in
  an inbox), or a handler is about to announce it. `Mended`: a room without a leader has a
  handler under way that will find one (`Fixing`). All of it is promised while `replaced` is
  false, and `replaced` never becomes false again.
- A first attempt failed at a step `Appoint`: a session that was elected and expired
  before `set_leader`. Another handler finds it gone, deposes it and announces that nobody
  leads; if the session joins again meanwhile it leads, but hears that announcement last,
  and nobody saves. TLC finds it with four sessions and three handlers, more
  than the run has. `OneLeader` does not cover that case any more (`replaced`).

Of the 39 properties of the passing runs 31 are stated by a theorem. Only model-checked are the
eight that promise progress under fairness, which is outside the prover's reach:
`EveryMessageSettles`, `SessionsRetire`, `EveryRequestAnswered`, `PageRecovers`,
`EveryCallSettles`, `EditsAreSaved`, `PageCanSaveAgain` and `RequestIsHeard`.

## Findings

Each of these runs finds a behaviour that a comment of the repository rules out.

| # | Run | What happens |
|---|---|---|
| 1 | `dispatch_cancel_returns` | `future.cancel()` under `lock` runs a callback that takes `lock`: the process stops handling messages |
| 2 | `collab_leader_knows` | the leader leaves while another tab joins: the older verdict is announced last, Redis names a tab as leader that was told it follows, and nobody saves |

The models have these behaviours too, which are explained here and have no run:

- *A message cancelled by `#reset` is handled* when the consumer read the queue
  before the reset replaced it (chat_channel.py 365, 394). `held` in `ChatDispatch`
  is that queue; at most its first message gets through, which is why the
  refinement counts exactly that one as waiting.
- *A `#reset` ends in a KeyError* and leaves the queue when no future of the session
  was recorded yet (389): the last disjunct of `ResetSession`.
- *More than one message of a session at a time* (the comment of line 28 says one):
  `concurrency_in_session` is four unless configured. `BoundedConcurrency` is
  therefore stated with the number of permits.
- *A part of a reply is lost* when it is appended between the test for an empty list
  and `del` (passive_reply.py 135-136). It takes a second task of the user (a
  command), whose end clears `running` while the first is still sending:
  `passive_patient` has no commands, and there `NoReplyLost` holds.
- *A video is lost*: `send` caches it (wechatmp_channel.py 161, 177), a request pops it
  (passive_reply.py 134), no branch knows it, and the user gets the bare "success" of line
  208. `NoReplyLost` and `SuccessMeansNothing` leave videos out for that reason.
- *A part reaches the user twice* when the upload of a later one raises: `_send`
  (chat_channel.py 298-308) begins with the first part again. An upload that WeChat
  refuses ends `send` instead (wechatmp_channel.py 104), and the rest is never sent.
  `DeliveredOnce` speaks of cached entries, of which the repetition makes new ones.
- *A user stays in `running`* when the dispatcher gives its task up (`Drop`), or when a
  command raises while an earlier reply is cached, since the assertion of
  `_fail_callback` (wechatmp_channel.py 303) then skips the removal. `StrandedOnly` says that
  there is no third way; `RunningMeansTask` holds where neither happens.
- *A `#reset` is undone* when it comes between a handler's reading the session from the
  `ExpiredDict` and writing it back (expired_dict.py 10, 14): the old conversation goes on.
  `ResetForgets` leaves out the objects that a handler is about to write back.
- *A page refuses itself* when two uses of the hook save at once, say the debounced save of
  the canvas and the save before a run: each has a queue of its own
  (use-serial-async-callback.ts 10), both send the same hash, and the second is refused.
  `NoSelfConflict` says that it takes two queues, a failed save or a hidden page.
- *Two open tabs think they lead* when the leader's session has expired: the next tab to
  join removes it and leads, and nobody tells the old one, which saves beside the new leader
  until it joins again (workflow_collaboration_service.py 166-173, 197-203). `OneLeader`
  leaves out such tabs (`lapsed`).
- *A request to save comes to nothing* when its forwarding overtakes the announcement to a
  leader just elected, or when the leader's nodes are read-only or its graph is not loaded
  (use-serial-async-callback.ts 13, use-nodes-sync-draft.ts 154-156): nobody asks again.
  `RequestIsHeard` counts requests of a settled room, and says that a leader hears them.
- *An item is in the table twice* although the page has heard of one insertion, when
  the server carries out a request that the page had given up (admin/page.tsx 85-87).
- *A handler raises a KeyError* when `#resetall` comes between the test for a
  session and its read (dify_session.py 78-80), even with one message of each session at
  a time: `SessionFound` says so unless somebody resets everybody meanwhile.
- *Two tabs send the same refresh token* when both test the flag before either sets it
  (refresh-token.ts 31-35). The server accepts one; the other tab is refused, but the
  cookie of the first is good, which `SessionSurvives` states.
- *A tab leads and was told that nobody does*: its session expired between its election
  and `set_leader`, and it joined again before the announcement of its going
  (workflow_collaboration_service.py); see `CollabLeader_proofs` above.
- *An edit made in the half second after a page is shown again is lost*: the fetch
  cancels the debounced save and replaces the canvas (index.tsx 408-419). The
  properties of `DraftSync` name the hiding of a page as a way to lose an edit.
- *The form is emptied of what was typed while an addition was under way*
  (admin/page.tsx 78-79): the second way `TypedIsKept` allows.

## Further configurations

These are kept beside the runs. Each checks one property that does not hold, and TLC
finds the counterexample told here:
`tlc -config <name>.cfg MC<module>.tla`.

| Configuration | Property | Counterexample |
|---|---|---|
| `ChatDispatchNothingLost` | `NothingLost` | a message put between the empty test (376) and the deletion of the session (380) is lost |
| `PassiveReplyProducedOnce` | `ProducedOnce` | a retry that reads `cache_dict` before and `running` after the end of the task starts it again |
| `PassiveReplyNoOrphanEntry` | `NoOrphanEntry` | with overlapping requests an empty list stays in the `defaultdict` and blocks its user |
| `DifyConversationBounded` | `BoundedConversation` | with two messages of a user at a time a late answer puts the full conversation back |
| `TokenRefreshOnlyOne` | `OnlyOneSends` | "only one request can send" (refresh-token.ts 31): two tabs send beside one another |
| `DraftSyncBuiltOn` | `BuiltOnItsHash` | a refused page takes the server's hash and keeps its canvas: its next save passes the comparison and drops the other page's edits |

The code is exposed to these hazards too, which no module covers: `request_cnt`, which keeps
an entry of each message answered with "thinking" (passive_reply.py 96); an answer without
text that returns before the conversation id is stored (dify_bot.py 188) and a failed upload
of an image (353); the error of an insert that is not looked at (rag.ts 78), and rows of
many writers that cannot be told apart (schema.sql 20-27); the same post of WeCom twice
(api/wecom/route.ts 58), which `ZftChat` allows and counts as two turns; the retry of a call
after a renewal in `base.ts` 553, with the old token if the renewal that it waited for
failed (refresh-token.ts 36); a waiter that is woken and finds no token (token_bucket.py
29); handlers that append to one list (session_manager.py 66).

## What is not modelled

- Inside the modelled parts: composing, decorating and formatting messages and
  replies; the deletion of uploaded media; events,
  encryption and the active mode of the official account; the image cache, the
  workflow type and answer parsing of the Dify bot; the URL check of the WeCom
  route; the text of prompts. None of them touches the state modelled, except
  the image cache, which is planned.
- Of the admin page, the video tab, which shows what a route returns. Of the token renewal,
  logging out and its page. Of drafts, what a graph consists of, its validation, restoring
  and publishing, and the time during which a run makes the nodes read-only, when edits and
  saves are skipped. Of collaboration, what a leader does with a request it hears
  (`DraftSync` has the saves of a page), the shared document itself (a CRDT library),
  presence, cursors, comments, and the first synchronisation.
- The six parts of the table above: planned, see below.
- Remaining channels, bots and voices convert data and call remote services.
  The Douyin routes, the schema and the Supabase client keep no state. The rest of
  `src/dify` is some two million lines, most of them pages, generated contracts,
  migrations and adapters of services; its other stateful parts (the workflow
  engine, the queue of runs, indexing) call for projects of their own.
  `lib/itchat` is third-party code; deployment scripts and documents have no behaviour to check.

## Plan

Done: `SessionLimiter`, `ChatDispatch`, `PassiveReply`, `DifyConversation`, `ZftChat`,
`ZftAdmin`, `TokenRefresh`, `DraftSync`, `CollabLeader`; proofs about all of them.
Next, in this order:

1. `SessionMemory` (`bot/session_manager.py`): lists shared by handlers,
   `discard_exceeding`, clearing. Runs with one and two handlers at a time, behind the same
   limiter.
2. The image cache in `DifyConversation`.
3. `PluginChain`: the order of `SortedDict` as an operator checked against a sorted
   reference, `emit_event` with enabling and disabling in between.
4. `TokenBucket`: condition variable with timeout; bound and liveness.
5. `Receipts`: the duplicate filters over `ExpiredDict`; an abstract set of
   processed ids as specification.
6. `WebStream`, `KfCursor`; `DraftSync` behind `CollabLeader`, with a leader that saves
   for the room.
7. Proofs: an abstract election (a room names one leader, tabs hear of it late) that
   `CollabLeader` implements while nobody is replaced; the same for `TokenRefresh` and a
   lock per tab.
