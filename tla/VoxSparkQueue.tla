---------------------------- MODULE VoxSparkQueue ----------------------------
(***************************************************************************)
(* The VoxSpark queue: drafts the backend keeps for one session and that   *)
(* the pages open on it submit one at a time.                              *)
(*                                                                         *)
(*   services/runtime/voxspark-surface-host-service.js   the queue         *)
(*   frontend/native/voxspark-surface-host-runtime.mjs   its executors     *)
(*   adapters/media-file-service.js                      the ledger that   *)
(*                                          guards POST /messages          *)
(*                                                                         *)
(* A page claims an entry under a lease, posts its text as a message, and  *)
(* reports the outcome.  Any of the three may be late, lost or repeated by *)
(* another page, the backend may restart in between, and every save to     *)
(* disk may fail.  An entry stands for its queueId and also for its        *)
(* clientSubmissionId, which is made from it.                              *)
(***************************************************************************)
EXTENDS Naturals, Sequences, FiniteSets

CONSTANTS Entries,    \* queueIds of the drafts of the session
          Pages,      \* browser pages (client ids) open on the session
          Capacity,   \* MAX_QUEUE_ENTRIES_PER_SESSION
          MaxLeases   \* bound: leases granted in a behaviour

ASSUME QueueAssumption == Capacity \in Nat /\ MaxLeases \in Nat

VARIABLES
    queue,       \* queueEntries: status, whether the text is kept, the lease
    disk,        \* the encrypted queue store
    old,         \* entries past QUEUE_ENTRY_TTL_MS
    late,        \* entries whose last lease is past QUEUE_LEASE_MS
    target,      \* the page that published last and the turn state it saw
    ledger,      \* durableMessageSubmissions: the phase of each submission
    ledgerDisk,  \* the store of that map
    attempts,    \* one record per lease granted: entry, mode, what became of its POST
    page,        \* what each page does with the entry it has claimed
    turn,        \* the session's turn: "idle" or "running"
    sent         \* history: how often Codex took the entry's text

queueVars == <<queue, disk, old, late, target>>
ledgerVars == <<ledger, ledgerDisk>>
pageVars == <<attempts, page>>
vars == <<queueVars, ledgerVars, pageVars, turn, sent>>

Leases == 1..MaxLeases
Modes == {"submit", "steer"}
NoPage == "none"

Statuses == {"absent", "queued", "leased", "submitted", "processing",
             "completed", "failed", "unknown", "cancelled", "expired"}
EntryStates == [status : Statuses, body : BOOLEAN, lease : {0} \cup Leases]
Queues == [Entries -> EntryStates]

Absent  == [status |-> "absent", body |-> FALSE, lease |-> 0]
Expired == [status |-> "expired", body |-> FALSE, lease |-> 0]

\* "missing": no entry in the map.
Phases == {"missing", "executing", "succeeded", "unknown"}

\* A POST travels to the backend, is run or joined to the one that runs, has
\* reached Codex ("called"), and is answered; a restart loses it.
Answers == {"succeeded", "failed", "unknown"}
Posts == {"none", "travelling", "running", "called", "joined", "lost"} \cup Answers
Attempts == [entry : Entries, mode : Modes, post : Posts]

PageStates == [stage : {"free"}, lease : {0}, outcome : {"none"}]
              \cup [stage : {"claimed", "sending"}, lease : Leases, outcome : {"none"}]
              \cup [stage : {"reporting"}, lease : Leases, outcome : Answers]
Free == [stage |-> "free", lease |-> 0, outcome |-> "none"]

-----------------------------------------------------------------------------
(* Helpers *)

\* Mutant: leases do not run out.
MutTrim(q) ==
    [e \in Entries |-> IF e \in old /\ q[e].status # "absent" THEN Expired ELSE q[e]]

\* Mutant: a lease that has run out puts its entry back on offer.
MutTrimOffers(q) ==
    [e \in Entries |->
        CASE e \in old /\ q[e].status # "absent" -> Expired
          [] e \notin old /\ q[e].status = "leased" /\ e \in late ->
                [q[e] EXCEPT !.status = "queued", !.lease = 0]
          [] OTHER -> q[e]]

\* trimQueue: entries past their time are dropped; a leased entry whose lease
\* has run out becomes unknown.
Trim(q) ==
    [e \in Entries |->
        CASE e \in old /\ q[e].status # "absent" -> Expired
          [] e \notin old /\ q[e].status = "leased" /\ e \in late ->
                [q[e] EXCEPT !.status = "unknown", !.lease = 0]
          [] OTHER -> q[e]]

\* queueEntriesForSession
Open(q) == {e \in Entries : q[e].status \notin {"absent", "completed", "cancelled", "expired"}}

\* persistQueue succeeds.
Saved(new) == queue' = new /\ disk' = new

\* persistQueue fails, or there is nothing to save: the operation is rolled
\* back to q, the trimmed queue, whose own save may or may not have failed.
NotSaved(q) ==
    /\ queue' = q
    /\ disk' \in (IF q = queue THEN {disk} ELSE {disk, q})

\* Statuses of other entries that forbid a claim.
Blocking(mode) == IF mode = "steer" THEN {"leased"}
                  ELSE {"leased", "submitted", "processing"}

\* reconcileQueueTurnState, for the turn state t a page has published.
Reconciled(q, t) ==
    [e \in Entries |->
        CASE t = "running" /\ q[e].status = "submitted"  -> [q[e] EXCEPT !.status = "processing"]
          [] t = "idle" /\ q[e].status = "processing"    -> [q[e] EXCEPT !.status = "completed"]
          [] OTHER -> q[e]]

\* Mutants: the outcome is taken for the status; the text is erased anyway.
MutReportedRaw(s, outcome) == [s EXCEPT !.status = outcome, !.lease = 0]
MutReportedErased(s, outcome) ==
    [status |-> IF outcome = "succeeded" THEN "submitted" ELSE outcome,
     body |-> FALSE, lease |-> 0]

\* completeQueue: what the outcome makes of the leased entry s.
Reported(s, outcome) ==
    IF outcome = "succeeded" THEN [status |-> "submitted", body |-> FALSE, lease |-> 0]
    ELSE [s EXCEPT !.status = outcome, !.lease = 0]

\* Mutants: a submission under way counts as sent; every entry the ledger does
\* not know is put back on offer.
MutRecoveredEarly(e, s, retry) ==
    CASE ledger[e] \in {"executing", "succeeded"} ->
            [s EXCEPT !.status = "submitted", !.body = FALSE]
      [] ledger[e] = "missing" /\ retry /\ s.body -> [s EXCEPT !.status = "queued"]
      [] OTHER -> [s EXCEPT !.status = "unknown"]
MutRecoveredAny(e, s, retry) ==
    CASE ledger[e] = "succeeded" -> [s EXCEPT !.status = "submitted", !.body = FALSE]
      [] ledger[e] = "missing" /\ s.body -> [s EXCEPT !.status = "queued"]
      [] OTHER -> [s EXCEPT !.status = "unknown"]

\* recoverQueue: what the ledger's receipt makes of entry e, now in state s.
Recovered(e, s, retry) ==
    CASE ledger[e] = "succeeded" -> [s EXCEPT !.status = "submitted", !.body = FALSE]
      [] ledger[e] = "missing" /\ retry /\ s.body -> [s EXCEPT !.status = "queued"]
      [] OTHER -> [s EXCEPT !.status = "unknown"]

\* Mutant: a leased entry is offered again after a restart.
MutRestoredEntry(s) ==
    IF s.status \in {"leased", "submitted"}
    THEN [s EXCEPT !.status = IF s.status = "leased" THEN "queued" ELSE "unknown",
                   !.lease = 0] ELSE s

\* markRestoredQueueUncertain, on what is read back from disk.
RestoredEntry(s) ==
    IF s.status \in {"leased", "submitted"}
    THEN [s EXCEPT !.status = "unknown", !.lease = 0] ELSE s

\* restoreDurableMessageSubmissions
RestoredPhase(phase) == IF phase = "executing" THEN "unknown" ELSE phase

\* A submission of e is under way in this process (recentMessageSubmissions).
InFlight(e) == \E k \in DOMAIN attempts :
    attempts[k].entry = e /\ attempts[k].post \in {"running", "called"}

-----------------------------------------------------------------------------
(* Operations of the queue.  One that is refused still trims: see Refused. *)

\* enqueueQueue
Enqueue(e) ==
    LET q == Trim(queue) IN
    /\ q[e].status = "absent"
    /\ Cardinality(Open(q)) < Capacity
    /\ \/ Saved([q EXCEPT ![e] = [status |-> "queued", body |-> TRUE, lease |-> 0]])
       \/ NotSaved(q)
    /\ UNCHANGED <<old, late, target, ledgerVars, pageVars, turn, sent>>

\* claimQueue, asked for by flushQueuedDrafts ("submit") or steerQueuedDraft.
Claim(p, e, mode) ==
    LET q == Trim(queue)
        k == Len(attempts) + 1
    IN  /\ page[p].stage = "free"
        /\ k \in Leases
        /\ target.page = p
        /\ target.turn = IF mode = "steer" THEN "running" ELSE "idle"
        /\ q[e].status = "queued"
        /\ \A d \in Entries \ {e} : q[d].status \notin Blocking(mode)
        /\ \/ /\ Saved([q EXCEPT ![e].status = "leased", ![e].lease = k])
              /\ attempts' = Append(attempts, [entry |-> e, mode |-> mode,
                                               post |-> "none"])
              /\ page' = [page EXCEPT ![p] = [stage |-> "claimed", lease |-> k,
                                              outcome |-> "none"]]
              /\ late' = late \ {e}
           \/ NotSaved(q) /\ UNCHANGED <<late, pageVars>>
        /\ UNCHANGED <<old, target, ledgerVars, turn, sent>>

\* completeQueue: only the lease the entry is under can report its outcome.
\* The page has done with it either way.
Complete(p) ==
    LET q == Trim(queue)
        k == page[p].lease
        e == attempts[k].entry
    IN  /\ page[p].stage = "reporting"
        /\ \/ /\ q[e].status = "leased" /\ q[e].lease = k
              /\ Saved([q EXCEPT ![e] = Reported(@, page[p].outcome)])
           \/ NotSaved(q)
        /\ page' = [page EXCEPT ![p] = Free]
        /\ UNCHANGED <<old, late, target, ledgerVars, attempts, turn, sent>>

\* The user, on the page that is the target, recovers or cancels an entry.
Manage(p) == page[p].stage = "free" /\ target.page = p

\* retryQueue and reconcileQueue
Recover(p, e, retry) ==
    LET q == Trim(queue) IN
    /\ Manage(p)
    /\ q[e].status \in IF retry THEN {"failed"} ELSE {"failed", "unknown"}
    /\ Saved([q EXCEPT ![e] = Recovered(e, q[e], retry)]) \/ NotSaved(q)
    /\ UNCHANGED <<old, late, target, ledgerVars, pageVars, turn, sent>>

\* cancelQueue: a failed entry is recovered instead when the ledger knows it.
Cancel(p, e) ==
    LET q == Trim(queue)
        cancelled == [q[e] EXCEPT !.status = "cancelled", !.body = FALSE]
    IN  /\ Manage(p)
        /\ q[e].status \in {"queued", "failed"}
        /\ \/ Saved([q EXCEPT ![e] = IF q[e].status = "failed" /\ ledger[e] # "missing"
                                     THEN Recovered(e, q[e], FALSE) ELSE cancelled])
           \/ NotSaved(q)
        /\ UNCHANGED <<old, late, target, ledgerVars, pageVars, turn, sent>>

\* publish: a page reports the turn state it shows.  (One that loses to the
\* page in focus changes nothing.)
Publish(p) ==
    LET q1 == Reconciled(queue, turn)
        q2 == Trim(q1)
    IN  /\ target' = [page |-> p, turn |-> turn]
        /\ queue' = q2
        /\ disk' \in {disk} \cup (IF q1 = queue THEN {} ELSE {q1})
                            \cup (IF q2 = q1 THEN {} ELSE {q2})
        /\ UNCHANGED <<old, late, ledgerVars, pageVars, turn, sent>>

\* queueSnapshot, or an operation that is refused.
Refused ==
    /\ NotSaved(Trim(queue))
    /\ UNCHANGED <<old, late, target, ledgerVars, pageVars, turn, sent>>

-----------------------------------------------------------------------------
(* The pages *)

SetPage(p, stage, outcome) ==
    page' = [page EXCEPT ![p].stage = stage, ![p].outcome = outcome]

\* sendDraft: the page posts the text it was given with its lease.
Send(p) ==
    /\ page[p].stage = "claimed"
    /\ SetPage(p, "sending", "none")
    /\ attempts' = [attempts EXCEPT ![page[p].lease].post = "travelling"]
    /\ UNCHANGED <<queueVars, ledgerVars, turn, sent>>

\* The page has moved to another session or turn since it asked for the claim.
Abandon(p) ==
    /\ page[p].stage = "claimed"
    /\ SetPage(p, "reporting", "failed")
    /\ UNCHANGED <<queueVars, ledgerVars, attempts, turn, sent>>

Receive(p) ==
    /\ page[p].stage = "sending"
    /\ attempts[page[p].lease].post \in Answers
    /\ SetPage(p, "reporting", attempts[page[p].lease].post)
    /\ UNCHANGED <<queueVars, ledgerVars, attempts, turn, sent>>

\* The connection breaks or the request times out: a submit is reported as
\* failed, a steer as unknown.
NetError(p) ==
    /\ page[p].stage = "sending"
    /\ SetPage(p, "reporting",
               IF attempts[page[p].lease].mode = "steer" THEN "unknown" ELSE "failed")
    /\ UNCHANGED <<queueVars, ledgerVars, attempts, turn, sent>>

\* The page is reloaded, or the answer to its claim or its complete is lost.
Reload(p) ==
    /\ page[p].stage # "free"
    /\ page' = [page EXCEPT ![p] = Free]
    /\ UNCHANGED <<queueVars, ledgerVars, attempts, turn, sent>>

-----------------------------------------------------------------------------
(* POST /messages: runMessageSubmissionOnce *)

Answered(k, answer) == attempts' = [attempts EXCEPT ![k].post = answer]

\* The route refuses the message before it reaches the ledger.
Reject(k) ==
    /\ attempts[k].post = "travelling"
    /\ Answered(k, "failed")
    /\ UNCHANGED <<queueVars, ledgerVars, page, turn, sent>>

\* While one submission runs, another with its id shares its promise, or,
\* after the dedupe window, is told that the outcome is unknown.
Join(k) ==
    /\ attempts[k].post = "travelling"
    /\ InFlight(attempts[k].entry)
    /\ Answered(k, "joined") \/ Answered(k, "unknown")
    /\ UNCHANGED <<queueVars, ledgerVars, page, turn, sent>>

\* A submission the ledger knows is answered from it.
Recall(k) ==
    LET phase == ledger[attempts[k].entry] IN
    /\ attempts[k].post = "travelling"
    /\ ~InFlight(attempts[k].entry)
    /\ phase # "missing"
    /\ Answered(k, IF phase = "succeeded" THEN "succeeded" ELSE "unknown")
    /\ UNCHANGED <<queueVars, ledgerVars, page, turn, sent>>

\* Mutant: the ledger is kept in memory until there is a receipt to save.
MutWrittenAhead(new) == ledger' = new /\ ledgerDisk' = ledgerDisk

\* The ledger's "executing" is on disk before the message goes anywhere.
WrittenAhead(new) == ledger' = new /\ ledgerDisk' = new

\* A submission the ledger does not know is run, if it can be written down.
Begin(k) ==
    LET e == attempts[k].entry IN
    /\ attempts[k].post = "travelling"
    /\ ~InFlight(e)
    /\ ledger[e] = "missing"
    /\ \/ /\ WrittenAhead([ledger EXCEPT ![e] = "executing"])
          /\ Answered(k, "running")
       \/ /\ Answered(k, "failed")
          /\ UNCHANGED ledgerVars
    /\ UNCHANGED <<queueVars, page, turn, sent>>

\* Codex takes the text: turn/start, or turn/steer of the running turn.
Perform(k) ==
    /\ attempts[k].post = "running"
    /\ attempts[k].mode = "steer" => turn = "running"
    /\ Answered(k, "called")
    /\ sent' = [sent EXCEPT ![attempts[k].entry] = @ + 1]
    /\ turn' = "running"
    /\ UNCHANGED <<queueVars, ledgerVars, page>>

\* The promise of submission k settles, for it and for those that joined it.
Settled(k, answer) ==
    [j \in DOMAIN attempts |->
        IF j = k \/ (attempts[j].entry = attempts[k].entry /\ attempts[j].post = "joined")
        THEN [attempts[j] EXCEPT !.post = answer] ELSE attempts[j]]

\* The submission failed, or its receipt could not be saved: unknown, saved or
\* not; a restart takes "executing" on disk for the same.
Uncertain(k) ==
    /\ ledger' = [ledger EXCEPT ![attempts[k].entry] = "unknown"]
    /\ ledgerDisk' \in {ledgerDisk, ledger'}

\* Codex has answered, and the receipt is saved.
Succeed(k) ==
    LET new == [ledger EXCEPT ![attempts[k].entry] = "succeeded"] IN
    /\ attempts[k].post = "called"
    /\ ledger' = new /\ ledgerDisk' = new
    /\ attempts' = Settled(k, "succeeded")
    /\ UNCHANGED <<queueVars, page, turn, sent>>

\* Codex has answered and the receipt cannot be saved, or the request to
\* Codex fails before or after it was taken; a strict steer that Codex refuses
\* is among these, for the ledger replaces the code of its error.
Fail(k) ==
    /\ attempts[k].post \in {"running", "called"}
    /\ Uncertain(k)
    /\ attempts' = Settled(k, "unknown")
    /\ UNCHANGED <<queueVars, page, turn, sent>>

-----------------------------------------------------------------------------
(* Turns, time, and restarts of the backend *)

TurnEnds ==
    /\ turn = "running"
    /\ turn' = "idle"
    /\ UNCHANGED <<queueVars, ledgerVars, pageVars, sent>>

\* Somebody starts a turn by other means than the queue.
OtherTurn ==
    /\ turn = "idle"
    /\ turn' = "running"
    /\ UNCHANGED <<queueVars, ledgerVars, pageVars, sent>>

LeaseRunsOut(e) ==
    /\ queue[e].status = "leased"
    /\ e \notin late
    /\ late' = late \cup {e}
    /\ UNCHANGED <<queue, disk, old, target, ledgerVars, pageVars, turn, sent>>

EntryAges(e) ==
    /\ queue[e].status \notin {"absent", "expired"}
    /\ e \notin old
    /\ old' = old \cup {e}
    /\ UNCHANGED <<queue, disk, late, target, ledgerVars, pageVars, turn, sent>>

\* The target's own lease runs out.
TargetExpires ==
    /\ target.page # NoPage
    /\ target' = [page |-> NoPage, turn |-> "idle"]
    /\ UNCHANGED <<queue, disk, old, late, ledgerVars, pageVars, turn, sent>>

\* The backend stops at any point and starts again from the two stores.  What
\* it was doing is lost; the pages, and POSTs not yet arrived, are not.
Restart ==
    LET q == [e \in Entries |->
                IF e \in old /\ disk[e].status # "absent" THEN Expired
                ELSE RestoredEntry(disk[e])]
        l == [e \in Entries |-> RestoredPhase(ledgerDisk[e])]
    IN  /\ queue' = q
        /\ disk' \in {disk, q}
        /\ ledger' = l
        /\ ledgerDisk' \in {ledgerDisk, l}
        /\ target' = [page |-> NoPage, turn |-> "idle"]
        /\ attempts' = [k \in DOMAIN attempts |->
                          IF attempts[k].post \in {"running", "called", "joined"}
                          THEN [attempts[k] EXCEPT !.post = "lost"] ELSE attempts[k]]
        /\ UNCHANGED <<old, late, page, turn, sent>>

-----------------------------------------------------------------------------
Init ==
    /\ queue = [e \in Entries |-> Absent]
    /\ disk = [e \in Entries |-> Absent]
    /\ old = {}
    /\ late = {}
    /\ target = [page |-> NoPage, turn |-> "idle"]
    /\ ledger = [e \in Entries |-> "missing"]
    /\ ledgerDisk = [e \in Entries |-> "missing"]
    /\ attempts = <<>>
    /\ page = [p \in Pages |-> Free]
    /\ turn = "idle"
    /\ sent = [e \in Entries |-> 0]

PageStep(p) ==
    \/ Publish(p)
    \/ \E e \in Entries :
          \/ \E mode \in Modes : Claim(p, e, mode)
          \/ \E retry \in BOOLEAN : Recover(p, e, retry)
          \/ Cancel(p, e)
    \/ Complete(p)
    \/ Send(p) \/ Abandon(p) \/ Receive(p) \/ NetError(p) \/ Reload(p)

PostStep(k) ==
    \/ Reject(k) \/ Join(k) \/ Recall(k) \/ Begin(k)
    \/ Perform(k) \/ Succeed(k) \/ Fail(k)

TimeStep ==
    \/ \E e \in Entries : LeaseRunsOut(e) \/ EntryAges(e)
    \/ TargetExpires

Next ==
    \/ \E e \in Entries : Enqueue(e)
    \/ \E p \in Pages : PageStep(p)
    \/ \E k \in DOMAIN attempts : PostStep(k)
    \/ Refused
    \/ TurnEnds \/ OtherTurn
    \/ TimeStep
    \/ Restart

Spec == Init /\ [][Next]_vars

\* Leases run out, turns end, and a page that is open keeps publishing.
Fairness ==
    /\ \A e \in Entries : WF_vars(LeaseRunsOut(e))
    /\ WF_vars(TurnEnds)
    /\ \A p \in Pages : WF_vars(Publish(p))

FairSpec == Spec /\ Fairness

\* Moreover, if turns run again and again, the pages see one.
AttentiveSpec ==
    FairSpec /\ \A p \in Pages : SF_vars(Publish(p) /\ turn = "running")

-----------------------------------------------------------------------------
(* Properties *)

\* Every variable has its type.
TypeOK ==
    /\ queue \in Queues
    /\ disk \in Queues
    /\ old \subseteq Entries
    /\ late \subseteq Entries
    /\ target \in [page : Pages \cup {NoPage}, turn : {"idle", "running"}]
    /\ ledger \in [Entries -> Phases]
    /\ ledgerDisk \in [Entries -> Phases]
    /\ attempts \in Seq(Attempts) /\ Len(attempts) <= MaxLeases
    /\ page \in [Pages -> PageStates]
    /\ \A p \in Pages : page[p].stage # "free" => page[p].lease \in DOMAIN attempts
    /\ turn \in {"idle", "running"}
    /\ sent \in [Entries -> Nat]

\* However often an entry is claimed, posted, retried and restored, Codex takes
\* its text at most once (the ledger of runMessageSubmissionOnce).
AtMostOnce == \A e \in Entries : sent[e] <= 1

\* An entry the queue calls submitted, processing or completed, in memory or on
\* disk, is one Codex has taken: by the page's report or by the ledger's receipt.
SubmittedWasSent ==
    \A e \in Entries : \A q \in {queue, disk} :
        q[e].status \in {"submitted", "processing", "completed"} => sent[e] = 1

\* The text of an entry is not erased, in memory or on disk, before Codex has
\* it, unless the user cancels the entry or its time is up.
BodyKept ==
    \A e \in Entries : \A q \in {queue, disk} :
        (~q[e].body /\ q[e].status \notin {"absent", "cancelled", "expired"}) => sent[e] = 1

\* An entry that can be claimed, or that the user has cancelled, is in nobody's
\* hands: no page is about to send it or waits for its answer; and a restart,
\* whatever the last saves left on disk, does not put it back on offer.
ExclusiveExecutor ==
    \A p \in Pages : page[p].stage \in {"claimed", "sending"} =>
        \A q \in {queue, disk} :
            q[attempts[page[p].lease].entry].status \notin {"queued", "cancelled"}

\* An entry whose outcome is unknown is never offered, leased or cancelled
\* again, by any operation or by a restart: it stays unknown until the ledger
\* proves that it was sent, or its time is up.
UnknownNotResent ==
    [][\A e \in Entries : queue[e].status = "unknown" =>
            queue'[e].status \in {"unknown", "submitted", "expired"}]_vars

\* No entry stays in the hands of a page for ever, whatever became of the page.
LeaseEnds ==
    \A e \in Entries : (queue[e].status = "leased") ~> (queue[e].status # "leased")

\* A submitted entry, as the lifecycle has it, goes on to processing and is
\* completed, unless a restart makes it unknown or its time is up.
SubmittedMovesOn ==
    \A e \in Entries : (queue[e].status = "submitted") ~> (queue[e].status # "submitted")

\* The queue implements DraftDelivery.  A submitted draft is delivered, whether
\* or not its turn has been seen to run.
Seen(status) ==
    IF status \in {"submitted", "processing", "completed"} THEN "delivered" ELSE status
Outlook == [e \in Entries |-> Seen(queue[e].status)]
Claimed == {attempts[k].entry : k \in DOMAIN attempts}

Delivery == INSTANCE DraftDelivery
            WITH Drafts <- Entries, draft <- Outlook, claimed <- Claimed, taken <- sent

\* What the author of a draft is promised holds over lost answers, failed
\* saves, late posts and restarts: Codex takes the text at most once, and never
\* that of a draft that was cancelled unclaimed; one draft is claimed at a time;
\* delivered means taken; unknown, delivered and cancelled drafts stay off offer.
ImplementsDraftDelivery == Delivery!AbsSpec
=============================================================================
