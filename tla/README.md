# A TLA+ model of Codex Mobile Web

Codex Mobile Web lets a phone and Codex Desktop work on the same Codex
app-server.  This directory holds TLA+ modules for the parts of it in which
the order of events matters, the TLC configurations that check them on small
instances, and proofs for TLAPS of the properties that matter most.  Paths below
are relative to the repository's root.

    tlc -workers 2 -config MuxRpc.cfg MCMux
    tlapm MuxProofs.tla

## 1. The system

Processes: Codex Desktop; the real Codex **app-server** (external); the **mux**
between them and everybody else; the **web server** (`server.js` with
`adapters/`, `services/`, `server-routes/`); **browser pages**
(`frontend/native/`); VoxSpark **Bridge/BOX** (external); **remote nodes** that
run task cards.  They talk in JSON lines, HTTP and server-sent events; each is
single-threaded, so a handler runs alone up to its next `await`, and everything
between two awaits can be interleaved with anything.

| Component | State | Operations | What is hard | What makes it correct |
|---|---|---|---|---|
| **Mux** `codex-app-server-mux.js` | clients, pending requests, the app-server's own requests, replay buffer, active turns, mobile turn/starts, cached initialize result | lines from clients and from the child, connect, disconnect, child exit, timers | ids shared by clients, writes that throw, questions that race with connections, replay limits | answers reach their askers; nothing is lost or shown twice; each question is answered once |
| **VoxSpark queue** `services/runtime/voxspark-surface-host-service.js`, its executor `frontend/native/voxspark-surface-host-runtime.mjs`, the ledger in `adapters/media-file-service.js`, the route `server-routes/thread-message-route-service.js` | queue entries with leases, in memory and encrypted on disk; the target page; the ledger of submissions, in memory and on disk; what each page is doing | enqueue, claim, complete, cancel, retry, reconcile, publish; POST /messages; restart | leases that run out under a slow send, failed saves, lost answers, restarts between effect and receipt | a draft is sent at most once, never dropped, never called sent before it is |
| **App-server client** `services/runtime/codex-app-server-client-service.js` | connection, pending RPCs with timers, `ready`, `resetting`, profile binding | ensure, initialize, request with retry, reset, dynamic tool answers | state kept over awaits, timers of old connections, swallowed resets | every RPC settles; an answer goes out on the connection that asked |
| **Task cards** `services/task-cards/thread-task-card-service.js` | cards in a JSON store under a directory lock, execution leases | create, approve, execute, return, revoke, watchdog | effects between two store transactions, stale locks, watchdog against late return | a card starts at most one turn per approval; terminal states are final |
| **Remote workspaces** `services/remote-managed-workspaces/` | control plane: cards and leases; node: remembered keys, queued returns | poll, lease, execute, return, flush | crash between remembering and running, lost and repeated returns | a card reported as completed was run; no return is lost |
| **@loop runtime** `services/at-loop/` | loop tasks over cards | start, step, judge, stop | built on task cards | one step at a time, bounded |
| **Coalescers** `services/thread-detail/…coalescer…`, `services/thread-list/…coalescer…` | reads in flight | begin, join, settle, evict | an evicted flight settling late, a leader that hangs | followers get an answer; a successor is not evicted |
| **Restart drain** `services/runtime/server-restart-drain-service.js` | drain with a deadline | begin, admit, finish | deadline against active turns | no turn admitted while draining |
| Job scheduler, self-checks | timers and last runs | periodic jobs | | diagnostics only |
| Thread list and detail read models | caches, merged summaries | fetch, merge, project | large records | stable order, nothing regresses |
| Pending echo, stale turns | optimistic messages | remember, match, forget | matching without ids | no message shown twice |
| Notifications and push | subscribers | publish | | best effort |
| Profiles, rate limits | account binding | switch | rebinding under way | belongs with the client |
| Media, uploads | files | read, write | | I/O |
| Hermes, Home AI, ChatGPT Pro | adapters | | services outside the repository | |
| Browser user interface | DOM, stores; `public/` is generated from it | | rendering | |

Interaction.  A page calls the web server over HTTP; the web server's
app-server client is one of the mux's TCP clients; the mux forwards its requests
to the app-server and broadcasts notifications, which the server projects and
pushes to pages.  VoxSpark Bridge sends commands through the server to the page
in focus; a draft that cannot be sent at once goes into the queue and is sent
later by whichever page is the target.  Task cards, loops and remote workspaces
end in `turn/start` requests on the same app-server client.

## 2. Modules

| Module | What it is |
|---|---|
| `SharedAppServer` | abstract: what the mux promises to the two sides, without transports |
| `Mux` | the mux, one action per handler branch; refines `SharedAppServer` |
| `MCMux` | constants for TLC |
| `MuxProofs` | theorems about `Mux`: requests, questions, the refinement |
| `MuxNotesProofs` | theorems about its notifications; extends `MuxProofs` |
| `MuxEndpoint` | mux processes of several profiles around their `endpoint.json`; what the client may do to them |
| `AppServerClient` | the web server's client; extends `MuxEndpoint` and implements it |
| `MCClient`, `MCClientRebind` | constants for TLC; the second adds history variables |
| `AppServerClientProofs` | theorems about both modules |
| `TaskCards`, `MCTaskCards` | task cards, returns, execution leases; constants |
| `TaskCardsProofs` | theorems about `TaskCards` |
| `CardExecution` | abstract: what node and control plane promise about a card, without requests, keys and files |
| `RemoteWorkspace`, `MCRemoteWorkspace` | runner of a remote node and its control plane, refining `CardExecution`; constants |
| `RemoteWorkspaceProofs` | theorems about `RemoteWorkspace` |
| `RemoteCardProofs` | its refinement of `CardExecution`; extends `RemoteWorkspaceProofs` |
| `DraftDelivery` | abstract: what the queue promises the author of a draft, without leases, ledger, disk and pages |
| `VoxSparkQueue` | queue, executors, ledger, turns, time, restarts; refines `DraftDelivery` |
| `MCVoxSparkQueue` | constants for TLC |
| `VoxSparkQueueProofs` | theorems about `VoxSparkQueue` |
| `VoxSparkDeliveryProofs` | its refinement of `DraftDelivery`; extends `VoxSparkQueueProofs` |

Names are the source's where TLA+ allows it.  A definition called
`Mut...` is a plausible wrong version of the definition after it; no behaviour
uses it.  Each property fails with at least one of them.

### Mux

| In the model | In the code |
|---|---|
| `clients`, `pending`, `serverRequests`, `activeTurns`, `starts`, `replayBuffer`, `cachedInit` | the maps and variables at the top of the file (`activeTurnsByThread`, `pendingMobileTurnStarts`, `initializeResult`) |
| `Connect`, `Disconnect`, `WriteFails` | `startTcpServer`, `attachStdioClient`, the catch of `sendToClient` |
| `Initialize`, `Request`, `AnswerQuestion`, `UserMessage` | the branches of `handleClientLine` and `handleMuxMethod` |
| `AnswerUnknown`, `AnswerRequest`, `AnswerInitialize`, `AskQuestion`, `Resolved`, `Notification`, `TurnStarted`, `TurnCompleted` | the branches of `handleChildLine` with everything they call |
| `StartExpires`, `NoteAges` | the 120 s timer, `REPLAY_BUFFER_MAX_AGE_MS` |
| `ChildDies`, `ChildExits` | the child's end and its `exit` event |

Data are reduced to what the properties tell apart.  A request id is a pair of
client and number; a notification is its kind, thread and turn; the replay
buffer is a set of sequence numbers, since notifications are numbered in the
order they are broadcast.  The child is modelled from outside: it holds
requests, answers them in any order and with any outcome, asks questions,
settles them, starts and completes turns, dies.  `replies`, `live`, `replayed`,
`shown` and `answersOf` record what has happened; no guard reads them, except
that a client answers only questions it has been shown and a turn is started
once.

A client whose write has thrown is removed from `clients` but still read from
until its socket closes, as in the code.

### VoxSparkQueue

| In the model | In the code |
|---|---|
| `queue`, `disk` | `queueEntries` and the encrypted store |
| `target` | `target`: the page that published last and the turn state it saw |
| `ledger`, `ledgerDisk` | `durableMessageSubmissions` and its store |
| `attempts`, `page` | POSTs on their way, and the local state of `flushQueuedDrafts` or `steerQueuedDraft` between its awaits |
| `Enqueue`, `Claim`, `Complete`, `Recover`, `Cancel`, `Publish`, `Refused` | `enqueueQueue`, `claimQueue`, `completeQueue`, `retryQueue`/`reconcileQueue`, `cancelQueue`, `publish`, any refused call; each begins with `trimQueue` |
| `Send`, `Abandon`, `Receive`, `NetError`, `Reload` | what a page does between two awaits |
| `Reject`, `Join`, `Recall`, `Begin`, `Perform`, `Succeed`, `Fail` | POST /messages up to, in and after `runMessageSubmissionOnce`; the refusal of a strict steer is a case of `Fail`, as in the code |
| `LeaseRunsOut`, `EntryAges`, `TargetExpires`, `Restart` | the clock; the process ending anywhere and starting again |

`persistQueue` and the ledger's `save` may fail at each call, and each operation
then does what its rollback does: `NotSaved` leaves memory at the trimmed queue
and the disk either as it was or at the trimmed queue.  A POST may arrive at any
time after it was sent, even after the page has given up and after a restart.
`sent` counts how often Codex took the text; nothing reads it.

Under the mapping to `DraftDelivery` a draft is `delivered` while its entry is
submitted, processing or completed, and `claimed` is the set of drafts some lease
was granted for.  A cancelled draft may still be taken if it was claimed before:
it had failed for its page while its POST was on the way, and the code has no
means to call that back.  One that was never claimed is never taken.

### MuxEndpoint and AppServerClient

| In the model | In the code |
|---|---|
| `phase`, `saw`, `file` | where each mux process is; the endpoint it has read and is connecting to; what the endpoint file of each profile names |
| `Launch`, `Attach`, `Detach` | `main`, `tryAttachToExistingMux`, `attachDesktopToExistingMux` |
| `Listen`, `Publish` | `startTcpServer` up to and after the probe of `shouldPublishEndpoint` |
| `Stop`, `Exit`, `Crash` | `shutdown`; the exit handler; a killed process |
| `attempt` | `this.connecting`: the `startAndConnect` under way and where it awaits |
| `ws`, `ready`, `resetting`, `requireShared`, `bound`, `child`, `muxChild`, `pending` | the fields of the client |
| `stage` | where each caller of `request()` is |
| `Request`, `Retry` | `request`, `ensure`, `sendRpc` |
| `Begin` ... `Fail` | `startAndConnect` between its awaits, `initialize`, `refreshRateLimits`; `SpawnChild` is `startManagedChild` after `getFreePort`, `ReadFile` the loop of `waitForMuxEndpointAndConnect` |
| `Lost`, `Closed`, `Timeout`, `Reconnect`, `ResetOver`, `ChildExit`, `Select` | events: transport, timers, `/api/app-server/reconnect`, child processes, a profile selected |

The endpoint an attempt waits for is the one it last read from the file, up to
15 s ago; by now the file may name another mux or none.
A mux value is a pid; it may be used again once nothing names it.  Node runs
all promise continuations before the next event, so no event is handled while
one is due (`Running`); other processes move meanwhile.  `pending` distinguishes
RPCs of the current connection from those left over by `closeTransportOnly`,
which detaches the handlers and leaves the timers.

### TaskCards

| In the model | In the code |
|---|---|
| `card`, `injected`, `replied`, `autoReplied`, `activated`, `granted`, `lease` | the cards of the store: `status`, `injectedTurnId`, `replyCardId`, `autoReplyCardId`, the activation of a terminal receipt, an active workflow, `executionLease` |
| `leases` | the order of `startedAt` |
| `op` | approvals and continuations between their transactions: a `turn/start` is on its way |
| `due` | approvals the server tries by itself after a transaction |
| `Create`, `Delete`, `Revoke`, `Reply` | the transactions of these names |
| `Approve`, `ApproveDue`, `DropDue`; `WorkApproved`, `ReceiptActivated`, `ReceiptReleased`, `WorkNotApproved` | `executeCardApproval`: first transaction; last one, for a card and for a return, after success and failure |
| `Interrupted`, `ContinueDone`, `ContinueFailed` | `maybeResumeInterruptedTaskCard` |
| `Watch`, `WatchDone`, `WatchFailed` | `resumeStaleExecutionLeases` |
| `AutoReply`, `Pause`, `Cancel` | `maybeAutoReplyCompletedTurn`, `pauseExecution`, `cancelExecution` |
| `Accept`, `OtherTurn`, `TurnEnds` | the app-server |
| `StoreFails`, `Crash` | a transaction that throws; the server restarting |

Each `withStore` is one step.  A failed `turn/start` may have been refused, or
have been taken with its answer lost or late, which counts as an upset.  A turn
completes whenever it likes, also before the answer to its own `turn/start`.
`injections[c]` counts the turns the app-server took for approvals of `c`, and is
never taken back; `lost[c]` counts those of them whose `turn/start` was answered
by an error all the same.  Nothing but properties reads either.

### RemoteWorkspace

| In the model | In the code |
|---|---|
| `arrived`, `central` | `taskCards` of the control plane, their `status` and `terminalStatus` |
| `executed`, `queue` | `executedIdempotencyKeys`, `queuedTerminalReturns` in the node's state file |
| `running`, `run` | the flag of `runOnce`, and where each call of it awaits |
| `Enqueue`, `Serve`, `ServeLate` | `enqueueTaskCard`; the four other requests, which may be served after the runner has given up on them (`late`) |
| `Start` ... `Returned` | `runOnce`, `flushQueuedTerminalReturns`, `processCard`, `executeCardWithHeartbeat` between awaits |
| `TurnEnds` | the turn of the local app-server, which ends whether the runner still waits for it or not |
| `RequestFails`, `FlushFails`, `FlushRefused`, `ReturnFails`, `Crash` | errors of requests that were served, never will be, or will be late; the node restarting |

An execution is two things: the local turn, and the runner's wait for it.  The
wait may end without the turn, by its deadline of 30 minutes, an RPC error or a
restart of the node, and the turn runs on; what the wait then reports is not
"completed".  `Executed` ends the wait, `TurnEnds` the turn.

A forced run (`Forced`: the settings page, `POST .../poll-once`, which always
passes `force: true`) starts whether or not another run is under way.
`overlapped` remembers that this has happened.  `executions` and `over` are the
local turns that were started and those that have ended, which decide what a wait
may report; `finished`, `lost`, `deferred` and `overlapped` are read by
properties only.

A suppressed card has a result at the control plane, `completed` with
`duplicateSuppressed`, but not that of its execution.  `ResultKept` therefore
accepts it in one case only, `deferred`: the queued return failed once more, so
the card was offered again and taken for a duplicate before the queue was
flushed.  The control plane keeps the first result it is given, and the real one
is flushed to no effect.

Under the mapping to `CardExecution` a card that the control plane offers is
`open` until it has a result, and it is `awaited` while a run waits for its
local turn.  A restart abandons the wait; the card is then `suppressed`, as the
code reports a key it knows, whether or not its execution was ever begun
(`ReturnedAfterExecution`, below).  Once runs have overlapped `CardExecution`
promises less: that a result is final, and an outcome that of an execution.

## 3. Runs

| Run | Instance | Shows |
|---|---|---|
| `MuxRpc` | desktop and phone, whose writes may start to throw; two requests each, one question, `KEEP_ALIVE`, fair child | `ResponsesReachAsker`, `NoRequestForgotten`, `OpenQuestionsShown`, `RequestAnswered`, `ImplementsSharedAppServer` |
| `MuxNotes` | desktop and phone, either of whose writes may start to throw, one request each, one thread and turn, two notifications, buffer of one | `NothingMissed`, `EchoesOffDesktop` |
| `MuxTurns` | standalone, one phone that initializes, sends one `turn/start` and asks for one notification, buffer of two, two turns, three notifications | `TypeOK`, `NothingMissed`, `ActiveTurnFollowsStream`, `EchoOncePerStart` |
| `VoxSparkQueue` | one draft, two pages, two leases | `TypeOK`, `AtMostOnce`, `SubmittedWasSent`, `BodyKept`, `ExclusiveExecutor`, `UnknownNotResent`, `LeaseEnds`, `ImplementsDraftDelivery` |
| `VoxSparkStuck` | one draft, one page | finds `SubmittedMovesOn` violated |
| `Client` | two callers, one retried and one not; two profiles, a desktop's mux that may crash, or be told to stop while it probes, and an owned one, both of the second profile; in the first the server runs an app-server itself | `TypeOK`, `NobodyForgotten`, `BindingTellsTheTruth`, `NoGhostEndpoint`, `CallSettles` |
| `ClientRebind` | the same without stops, with history | finds `RebindBeforeSending` violated |
| `TaskCards` | one autonomous card, both its returns, three turns, two turn/starts at once, two upsets | `TypeOK`, `OneTurnPerApproval`, `DismissedNotInjected`, `SettledStays`, `WatchdogYields` |
| `TaskCardsLost` | the same, one upset | finds `RestoredNotAccepted` violated |
| `TaskCardsCancel` | two cards of one pair of threads, no upset | finds `SuppressedStays` violated |
| `RemoteWorkspace` | two cards, room for one return and one key, three faults, the timer's run and a forced one | `TypeOK`, `ExecutedOnce`, `ResultKept`, `CardSettles`, `ImplementsCardExecution` |
| `RemoteWorkspaceReturn` | two cards, five faults, the timer's run alone | finds `ReturnedAfterExecution` violated |

Bounds and why they are enough.

- *Mux.*  Collisions of ids, disconnects and failed writes need two clients of
  different kinds, one of which breaks, and a second request to be in flight
  while the first is answered: with two ids each client has its `initialize` and
  a request that is forwarded.  In `MuxRpc` all four are made only while no
  question has been asked, and three besides one (`RequestsBound`).  Questions
  interact with clients, not with each other: one is enough.  `BufferLimit` is smaller than `NotesBound`, so the
  buffer overflows, and in `MuxTurns` the client's own limit is smaller than the
  buffer.  A turn that overtakes another needs two turns on one thread; threads
  do not interact.  `NotesBound` bounds the notifications broadcast in a
  behaviour.
- *Queue.*  Entries share the two files they are saved in and the claim
  condition.  Two leases let an entry be claimed by one page, retried while
  its POST is still under way, and claimed and posted again by the other; the
  same holds with three (1.6 million states), which takes too long for every day.  `MaxLeases` bounds the
  leases granted; without it `attempts` would grow for ever.
- *Client.*  Two calls share one attempt and one connection: one may be sent
  while the other waits, times out or is retried.  Nothing counts up in the
  client or in the muxes, so nothing bounds the run but `StopBound`.
  The second profile is reached through muxes and the first through a child, so
  that both kinds of connection and a switch between them occur.  The
  desktop's mux is told to stop only while it probes (`StopBound`), between its
  `Listen` and its `Publish`, where a stop may leave an entry behind; a stopped
  owned mux, by the client, occurs as well.
- *Task cards.*  Cards interact through the turns of the target thread, the
  workflow and the order of leases; a card and its two returns already race with
  each other.  `Turns` is the turn of the approval, one of somebody else that
  interrupts it, and the continuation.  Two upsets let an answer be lost and the
  server restart, or two answers be lost, on which counts of turns and of lost
  answers depend.  Two cards take too long with an upset; without one they are
  in `TaskCardsCancel`.
- *Remote workspaces.*  The bound of the queue is one, so that two returns overflow
  it; `MaxFaults` lets a return fail, fail again while flushing, and the node
  restart in between, while a request that failed is still on its way.  Of two
  cards one waits behind the other; only one key is kept, so that each card
  drops the key of the one before it.  The forced run starts at any time.  Once
  runs have overlapped, at most one card has arrived and two faults have
  happened (`OverlapBound`): what is still promised then is said of each card.
  What the bound cuts off are a card, a forced run or a fault, none of which is
  fair, so it does not make `CardSettles` easier.

`MuxTurns` uses the symmetry of turns, `TaskCards` that of turns and of
turn/starts; neither checks a liveness property, and no action or property tells
one turn from another.

Deadlock is checked in `Client` and `ClientRebind`, where there is always a call
to make, and not elsewhere: the mux ends when its child does, and a behaviour that
has used its notifications, requests and leases may have nothing left to do.

Fairness.

- `AppServerClient!LiveSpec`: promise continuations run; a timer that is armed
  again and again fires, and so does the deadline of what `startAndConnect`
  awaits, unless something else settles it.  Nothing is assumed of muxes,
  answers or the network: `CallSettles` rests on the timers alone.  The timers
  need strong fairness, because every event keeps them waiting for the
  continuations it caused.
- `RemoteWorkspace!FairSpec`: the timer starts runs, requests are served or
  fail, and the wait for the local turn ends (it has a deadline; the turn itself
  need not end).  A forced run that has been started goes on, but nobody has to
  start one.  Faults are not fair.
- `Mux!FairSpec`: while it lives, the child answers each request it holds (what
  an app-server is for), and once it is dead its exit event is delivered (Node
  does that).  It may die at any time, and clients, timers and the network owe
  nothing.
- `VoxSparkQueue!FairSpec`: leases run out because time passes, turns end, and
  an open page publishes again and again (the relay polls; see `start` in the
  runtime).  Pages owe no complete, no retry and no answer.
- `AttentiveSpec` (for `VoxSparkStuck` only) adds that, if turns run again and
  again, pages publish one as running.  It makes the counterexample stronger:
  the entry is stuck although the pages are attentive.

### Findings

1. `VoxSparkStuck`.  `docs/VOXSPARK_SURFACE_HOST.md` gives the lifecycle
   `queued -> leased -> submitted -> processing -> completed` and says that a
   following entry waits until the previous one is terminal.  `submitted` becomes
   `processing` only in `reconcileQueueTurnState`, when a page publishes
   "running".  If the turn is over before one does, the entry stays `submitted`.
   It blocks every claim of the session, and can be neither cancelled nor
   reconciled, until another turn is seen, the server restarts or a day passes.
2. `ClientRebind`.  A test (`codex-app-server-client-service.test.js:261`) and
   `docs/TROUBLESHOOTING.md:377` promise that a turn is sent to the profile
   selected before it.  `ensure` compares profiles only when the client is ready;
   a call made during an attempt joins it, and is sent on its connection, which
   was made for the profile selected when the attempt began.
3. `TaskCardsLost`.  `docs/CROSS_THREAD_TASK_CARDS_DESIGN.md:182` and the name of
   a test (`thread-task-card-service.test.js:1926`) let a card be pending again
   when its `turn/start` fails *before acceptance*.  The catch in
   `executeCardApproval` restores it after every error, also when the app-server
   took the turn and the answer was lost or late: a turn runs for a card that is
   offered, or that is then deleted, and the next approval starts a second one.
4. `TaskCardsCancel`.  `docs/CROSS_THREAD_TASK_CARDS_DESIGN.md:56` says that
   pause and cancel suppress continuation.  The last transaction of a
   continuation does not look at the lease again and makes it active.  The
   watchdog does look (`WatchdogYields`).
5. `RemoteWorkspaceReturn`.  `docs/REMOTE_MANAGED_WORKSPACE.md:146` says a result
   is returned after the local turn has completed, failed or timed out.  A card
   whose first heartbeat fails, or whose node restarts, is returned as completed
   by the next poll.  There are two more ways to such a return, which
   `CardExecution` therefore allows: a run forced during an execution polls the
   active card, finds its key and returns it as completed (only after an
   overlap); and a card whose queued result could not be returned is suppressed
   before its result is flushed (`deferred`).

Also seen while modelling, and given no run of their own.  Line 264 of
`docs/VOXSPARK_SURFACE_HOST.md` promises an explicit failure for a strict steer that
is stale or unsupported, and the route has an answer for each; the catch of
`runMessageSubmissionOnce` turns every error of a VoxSpark submission into
`voxspark_submission_outcome_unknown` first, so those answers are never given and
the draft cannot be retried.  Two runs of a remote node that overlap may both
execute a card, since each reads the keys before its ack, and the flush of one
replaces what the other queued; this is why `ExecutedOnce` and `ResultKept` end
with the first overlap.  Remembered keys are cut to 120 characters when read, and
longer ones not recognised.  In the client, `ready` is set although the
connection closed during the rate-limit refresh (the next call finds it closed),
and a timer of an old connection resets its successor; the child of an earlier
profile is kept and bound to the new one.  A second mux may overwrite a file that
meanwhile names a reachable mux.  A card left `approving` by a restart stays so
until it is answered.

## 4. Proofs

Every safety property of the passing runs, invariants, action properties and
refinements alike, is a theorem for every value of the constants.  The assumptions
are those the modules declare, and TLC evaluates them in the runs:

| Assumption | Says | Why the code justifies it |
|---|---|---|
| `MuxAssumption`, `QueueAssumption`, `MuxEndpointAssumption`, `ClientAssumption`, `TaskCardsAssumption`, `RemoteAssumption` | types of the constants and which sets are part of which | limits are numbers and flags are flags; the sets are roles; `TaskCardsAssumption` also says that the `turn/start`s at one time are finitely many |
| `NoTurnAssumption`, `NoMuxAssumption`, `NamesAssumption` | the value for "no turn", "no mux" is not a turn or a mux; a return card is not one of the cards it may answer | an empty id or a missing file is not one; a card is created with a fresh id |

No theorem has a further hypothesis.

**MuxProofs.**

- `TypeCorrect`: `Spec => []TypeOK`.  `TypeInv` adds that only finitely many
  requests have been asked, which the order numbers of `starts` rest on; that a
  broadcast only extends `notes` keeps every sequence number in its domain.
- `AnswersReachAsker`: `Spec => []ResponsesReachAsker`, and `RequestsUnderWay`:
  `Spec => []NoRequestForgotten`.  Neither is inductive.  `RpcInv` is: the child
  holds a request only under its asker's name, at most once and before it is
  answered; `pending` is part of what the child holds; an unanswered request of a
  connected client has an entry.  The first two parts keep an answer from being
  delivered twice or to somebody else; the last is what removal of another
  client must not break.
- `OpenQuestionsShownHolds`: `Spec => []OpenQuestionsShown`, with `ClientsKnown`:
  a client that has a result, a request or an entry has said who it is, and only
  a failed write removes a client whose socket is open.  Without it a connection
  that is new could already count as one that has been shown the questions.
- `Implements`: `Spec => ImplementsSharedAppServer`.  Of the requests a step
  moves one (`RequestsMove`: it is sent, or its first answer is delivered), and
  the others stay as they are or lose their client; `AbstractValue` reads off
  what each of these is in `SharedAppServer`, where `RpcInv` excludes the value
  "answered twice".  Questions go through `QuestionsMove`, whose `QuestionsInv`
  says that a question in the map has been asked, is not settled and has no
  answer yet.

**MuxNotesProofs.**  What a step does to the stream is said once: a broadcast puts
notes behind those there are (`Behind`) and reaches all clients that may see
them, or gives them up (`Reach`); every other step leaves the stream alone.

- `NothingMissedHolds`: `Spec => []NothingMissed`, by `BufferInv`: a replayable
  note is in the buffer, or too old, or has `BufferLimit` newer replayable notes
  behind it.  `PruneKeeps` and `NewestKeeps` count them: a cut down to the `k`
  newest leaves a note behind only if `k` newer ones exist.  A client's replay is
  a cut of a cut, which is why the invariant is about the stream and not about
  the buffer.  Replay happens in the same step as the initialize result, so no
  note can fall between the two.
- `EchoesOffDesktopHolds`: `Spec => []EchoesOffDesktop`.  It is inductive, since a
  client's `info` is set once, before anything that depends on it.
- `ActiveTurnFollowsStreamHolds`: `Spec => []ActiveTurnFollowsStream`.  Inductive;
  the work is in what notes at the end of the stream do to "the last started
  turn" (`NeutralNotes`, `EndingNotes`, `StartingNotes`).
- `EchoOncePerStartHolds`: `Spec => []EchoOncePerStart`, by `EchoInv`: entries of
  `pendingMobileTurnStarts` have keys of their own, and every echo and every
  entry is of a request that has been sent.  A request that is sent now has
  neither; an entry is removed in the step that echoes it or that delivers a
  refusal.

**VoxSparkQueueProofs.**

- `TypeCorrect`: `Spec => []TypeOK`.
- `AtMostOnceHolds`: `Spec => []AtMostOnce`, by `LedgerInv`: what was sent is
  known to the ledger in memory (`SentIsKnown`); what the ledger knows is on disk,
  though perhaps with an older phase (`KnownIsSaved`); what is under way is
  `executing` in the ledger, and not yet sent unless Codex has been called
  (`UnderWayIsKnown`); and there is at most one submission of an entry under way
  (`OneUnderWay`).  `KnownIsSaved` is what a restart needs: without writing ahead
  (`MutWrittenAhead`) the text can be sent twice.
- `UnknownNotResentHolds`: `Spec => UnknownNotResent`, an action property.  A
  restart makes memory what the disk is, so it rests on `LagInv`: the disk is
  behind memory only in ways that restoring it, which makes `leased` and
  `submitted` `unknown`, renders harmless.
- `ExclusiveExecutorHolds`: `Spec => []ExclusiveExecutor`, by `HoldInv`: an entry
  in the hands of a page is under that page's lease or past being offered, in
  memory and on disk, and no two pages are at work under one lease.
- `SubmittedWasSentHolds`: `Spec => []SubmittedWasSent`, and `BodyKeptHolds`:
  `Spec => []BodyKept`, by `ToldInv`: whatever says that Codex has the text says
  the truth: the entry, in memory and on disk; the ledger, in memory and on disk;
  the answer to a POST; and the page that was told.

**VoxSparkDeliveryProofs.**

- `Implements`: `Spec => ImplementsDraftDelivery`.  A step in which Codex takes a
  text is a `Take` (`PerformTakes`), every other step a `DraftStep`
  (`DraftSteps`).  The moves of a draft come from those of its entry
  (`EntryStatusMoves`), for which a restart needs `LagInv` and `GoneInv`: what has
  expired is past its time and known to the disk, so it expires again whatever
  the disk has of it.  That a draft is delivered only when taken is `ToldInv`, that
  it is taken once is `LedgerInv`.  `ClaimLeases` and `StepStays` say that
  nothing but a claim puts a draft into a page's hands, and only while no other
  draft is; the run has one draft, the theorem any number of them.

**AppServerClientProofs.**

- `ClientRespectsEndpoint`: `Spec => EndpointSpec`.  Every action of the client
  leaves the muxes and their files alone, or is a launch, a stop or a crash that
  `MuxEndpoint` allows.
- `NoGhostEndpointHolds`: `Spec => []NoGhostEndpoint`, from the refinement and
  `EndpointInv`: a file names a mux of its own profile that is up, stopping or
  crashed.  `stopping` is what makes it inductive: a mux told to stop may still
  publish, and only its exit handler cleans up after that.
- `TypeCorrect`, `NobodyForgottenHolds` and `BindingTellsTheTruthHolds`: `TypeOK`,
  `NobodyForgotten` and `BindingTellsTheTruth`, all from `ClientInv`.  The types
  of an attempt depend on `NobodyForgotten`, since what fails the RPCs of
  `initialize()` fails the attempt that awaits them.  `AttemptsOwnProfile` is what
  `BindingTellsTheTruth` lacks to be inductive: the mux an attempt has in mind,
  and the connection it makes, are of the profile selected when the attempt
  began, because a file names only muxes of its own profile (`Published`).  The
  property is about connections to muxes.  Of a child it would be false:
  `startManagedChild` keeps a child that was spawned for an earlier profile.

**TaskCardsProofs.**

- `TypeCorrect`: `Spec => []TypeOK`.
- `OneTurnPerApprovalHolds`: `Spec => []OneTurnPerApproval`, and
  `DismissedNotInjectedHolds`: `Spec => []DismissedNotInjected`, by `ApprovalInv`:
  a card whose approval is under way is `approving` or has been answered; the
  turns of a card (`Counted`) are those reported as failed, and one more from the
  moment the app-server takes the turn of its approval; no card has two approvals
  under way; what may be approved has no other turns than those.  A restart
  forgets the approvals and leaves the card `approving`, which may not be
  approved.  Both theorems leave out turns that were reported as failed:
  `RestoredNotAccepted`, which does not, is false.
- `SettledStaysHolds`: `Spec => SettledStays`, and `WatchdogYieldsHolds`:
  `Spec => WatchdogYields`, action properties.  The first permits the success of
  an approval under way to be recorded over an answer, as the code does.  The
  second rests on `LeaseInv`: a card
  has a lease from when its approval is recorded, only a `resuming` lease waits
  for a turn, and no card with a lease is being approved.

**RemoteWorkspaceProofs.**  Forced runs are included.

- `TypeCorrect`: `Spec => []TypeOK`.  `TypeInv` adds what a run carries to its
  next request, and that a flush holds no more returns than the queue has room
  for.
- `ExecutedOnceHolds`: `Spec => []ExecutedOnce`.  The keys are bounded, so the
  argument is about the order of cards: the poll offers the first card without
  a result, so every other card that was executed has one and needs its key no
  more (`Alone`, `Cleared`), and the key of this one is kept (`Keyed`).  As long as
  runs have not overlapped there is only one (`OneRun`), so none comes between
  the reading of the keys and the execution; `overlapped` is never taken back
  (`OverlappedStays`), so the invariant need only hold until then.

**RemoteCardProofs.**

- `ImplementsCards`: `Spec => ImplementsCardExecution`.  What it says of results
  holds with overlapping runs too and rests on `ToldInv`: a report that names an
  outcome is of an execution whose wait has ended, and one that says "completed"
  of a local turn that has.  The rest rests on `ReportsInv`, which holds until
  runs overlap.  An
  execution begins and is waited for as `Begin` and `Finish` say, a restart is
  `Abandon` or nothing (`CrashAbandons`), and what the control plane is told
  settles one card or none (`ToldSteps`).  The difficulty is a report that is
  served long after it was given up: it must not settle a card that is about to
  be executed.  `ReportsInv` says why it does not.  A duplicate is reported only
  of a card whose key is known, and the card keeps its key until it has a result
  (`KeyStays`): one is dropped only when the key of the first card without a
  result is written, and no other card without a result has a key then
  (`KeysInv`, `OneFirst`).  Hence no result of a card without a key is on its way
  (`UnknownClean`), and from the writing of the key to the end of the execution none
  can be added (`Clean`, `CleanStays`), even late (`LateInv`).
- `ResultKeptHolds`: `Spec => []ResultKept`, by `KeptInv`, until runs overlap.
  `Accounted`: while a flush is under way, what is in the queue has reached the
  control plane or is among what the flush still holds, so replacing the queue at
  its end drops nothing else.  `AllKept` and `DuplicateInv`: a card that is polled
  after its execution has lost its result or is `deferred`, since a flush that
  leaves a return in the queue has failed to return it once more; so no other
  card is suppressed when there is a result.

The inductive invariants were checked by TLC as invariants of the runs first.

**Only model-checked**: `RequestAnswered`, `LeaseEnds`, `CallSettles` and
`CardSettles`.  They are liveness properties under fairness, which is out of the
prover's reach.  The five properties of the runs that expect a violation are
false.

## 5. What is not modelled

- In `Mux`: RPC metrics, logging, truncation of payloads for mobile clients, invalid
  JSON, client notifications without an id, backpressure (logged only).  The
  answer to a `mux/userMessage` sent as a request is left out; the server sends
  it as a notification.  Ids are of one type: `1` and `"1"` would collide.
- In `VoxSparkQueue`: the Bridge's commands and their transaction store;
  sessions other than one, and so `MAX_ACTIVE_QUEUE_ENTRIES` and
  `MAX_QUEUE_RECEIPTS`; the ledger's limit of entries and its own expiry (its
  entries are younger than the drafts they are for, and both live a day);
  enqueueing an id again after it has expired; unreadable stores; approvals that
  hold a claim back; ordinary messages.  A published turn state is the true one
  at that moment; it may be stale by the time of a claim.
- In `AppServerClient`: server requests, approvals and dynamic tools; endpoints
  given by the environment; `DISABLE_MOBILE_OWNED_MUX`; a WebSocket that opens
  after its attempt was given up; notifications to pages.
- In `TaskCards`: replies that are not returns, batches of cards, heartbeats and
  their times (whether a lease is stale is left open), authority, routing and
  loop checks, side notifications, bounds on lists, and the directory lock
  between processes: each transaction is one step.
- In `RemoteWorkspace`: pairing and credentials, except that a refusal ends a
  flush; the inside of the local execution; heartbeats during the execution
  (they do not change an active card); the length of keys; summaries and
  escalations.  What holds of executions and kept results once two runs have
  overlapped is little, and no property speaks of it.
- Everything the table in section 1 lists and section 2 does not.  I/O,
  rendering, formatting and diagnostics will stay out.

The list of hazards in `PROJECT.json` names those no property covers yet.

## 6. Plan

1. An abstract specification of what the task cards promise, with a refinement
   like those of `SharedAppServer`, `DraftDelivery` and `CardExecution`.
2. `StoreLock`: the directory lock of the task-card store, with mutual exclusion
   as its abstract specification, and `TaskCards` over it.
3. Server requests of `AppServerClient`: their status, answers that are awaited,
   the 15 s after which they are forgotten.
4. The coalescers and the restart drain; `@loop` on top of `TaskCards`.
5. `VoxSparkQueue` with two drafts in a run: what a submit waits for that a steer
   does not.
