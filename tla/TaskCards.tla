----------------------------- MODULE TaskCards -----------------------------
(***************************************************************************)
(* The cross-thread task cards of thread-task-card-service.js: cards sent  *)
(* from a source thread to a target thread, the return cards that answer   *)
(* them, and the execution lease of a card whose work is under way.        *)
(*                                                                         *)
(* The cards are in a file.  Each withStore() is one step: it loads the    *)
(* file under a lock, changes it and saves it.  An approval or a           *)
(* continuation is a first such step, a turn/start sent to the app-server, *)
(* and a last such step; anything may happen in between.                   *)
(***************************************************************************)
EXTENDS FiniteSets, Sequences, Integers

CONSTANTS Work,        \* cards a source sends to a target: one pair of threads
          Autonomous,  \* those of the autonomous workflow, one id for all
          Answering,   \* those whose target answers by itself
          Turns,       \* turns of the target thread (a bound)
          Ops,         \* turn/starts under way at once (a bound)
          MaxUpsets    \* bound on crashes, failures of the store and approvals
                       \* whose turn was taken but whose answer is an error

ASSUME TaskCardsAssumption ==
    /\ Autonomous \subseteq Work /\ Answering \subseteq Work
    /\ IsFiniteSet(Ops) /\ MaxUpsets \in Nat

VARIABLES
    card,        \* the status of each card
    injected,    \* injectedTurnId
    replied,     \* cards with a replyCardId
    autoReplied, \* cards with an autoReplyCardId
    activated,   \* return cards whose terminal receipt was activated
    granted,     \* there is an active entry of store.workflows
    lease,       \* executionLease
    leases,      \* the cards with a lease, by its startedAt
    due,         \* approvals the server is about to try
    op,          \* the turn/starts under way
    turn,        \* the turns of the target thread
    upsets,
    injections,  \* injections[c]: turns the app-server took for approvals of c
    lost         \* lost[c]: those whose turn/start was answered by an error all
                 \* the same; only the properties read these two

history == <<injections, lost>>
store == <<card, injected, replied, autoReplied, activated, granted, lease,
           leases>>
vars == <<store, due, op, turn, upsets, history>>

\* The return card of reply(), and that of maybeAutoReplyCompletedTurn().
ReplyCard(c) == <<"manual", c>>
AutoReplyCard(c) == <<"auto", c>>
Returns == {ReplyCard(c) : c \in Answering} \cup {AutoReplyCard(c) : c \in Autonomous}
Cards == Work \cup Returns

\* The cards whose workflow is the autonomous one.
InWorkflow == Autonomous \cup {r \in Returns : r[2] \in Autonomous}

NoTurn == "none"
SourceTurn == "source"   \* any turn of the source thread
Watchdog == "watchdog"   \* a resumeMarker

\* Card ids are unique, and no turn has the name of none.
ASSUME NamesAssumption == Work \cap Returns = {} /\ NoTurn \notin Turns

\* turns: executionTurnIds; resumed: resumeCount > 0; paused:
\* watchdogAutoResumePausedAt is set.  resumeRequired goes with the status.
NoLease == [st |-> "none", turns |-> {}, resumeFor |-> NoTurn,
            lastInterrupted |-> NoTurn, resumed |-> FALSE, paused |-> FALSE]
Leases == [st : {"none", "active", "resuming", "paused", "cancelled",
                 "completed", "blocked"},
           turns : SUBSET Turns, resumeFor : Turns \cup {NoTurn, Watchdog},
           lastInterrupted : Turns \cup {NoTurn},
           resumed : BOOLEAN, paused : BOOLEAN]

\* got: the turn codex started for it, not yet known to the store; for: what
\* a continuation resumes from.
Modes == {"user", "automatic", "direct"}
NoOp == [kind |-> "none"]
Operations ==
    [kind : {"approve"}, card : Cards, mode : Modes,
     got : Turns \cup {NoTurn, SourceTurn}]
    \cup [kind : {"continue"}, card : Work, for : Turns, got : Turns \cup {NoTurn}]
    \cup [kind : {"watch"}, card : Work, got : Turns \cup {NoTurn}]
    \cup {NoOp}

Init ==
    /\ card = [c \in Cards |-> "none"]
    /\ injected = [c \in Work |-> NoTurn]
    /\ replied = {} /\ autoReplied = {} /\ activated = {}
    /\ granted = FALSE
    /\ lease = [c \in Work |-> NoLease]
    /\ leases = <<>>
    /\ due = {}
    /\ op = [i \in Ops |-> NoOp]
    /\ turn = [t \in Turns |-> "unused"]
    /\ upsets = 0
    /\ injections = [c \in Cards |-> 0]
    /\ lost = [c \in Cards |-> 0]

Busy == {i \in Ops : op[i].kind # "none"}
Begin(o) == \E i \in Ops \ Busy : op' = [op EXCEPT ![i] = o]

-----------------------------------------------------------------------------
(* Cards are created, dismissed and answered *)

\* create, createMany: a repeated request finds the card of its key.  direct:
\* the route then has the source approve it.
Create(c, direct) ==
    /\ card' = [card EXCEPT ![c] = IF @ = "none" THEN "pending" ELSE @]
    /\ due' = due \cup {d \in {c} \X {"automatic", "direct"} :
                           IF d[2] = "direct" THEN direct
                           ELSE c \in Autonomous /\ card'[c] = "pending"}
    /\ UNCHANGED <<injected, replied, autoReplied, activated, granted, lease,
                   leases, op, turn, upsets, history>>

\* Mutant: a card may still be dismissed while its approval is under way.
MutDismissible(c) == card[c] \in {"pending", "approving"}

\* transitionAllowed of "delete" and "revoke".
Dismissible(c) == card[c] = "pending"

Dismiss(c, status) ==
    /\ Dismissible(c)
    /\ card' = [card EXCEPT ![c] = status]
    /\ UNCHANGED <<injected, replied, autoReplied, activated, granted, lease,
                   leases, due, op, turn, upsets, history>>

Delete(c) == Dismiss(c, "deleted")   \* by the target
Revoke(c) == Dismiss(c, "revoked")   \* by the source

\* reply with returnToSource, by the target.  One key per card: a repeated
\* reply finds the return card and tries its approval again.
Reply(c) ==
    /\ card[c] \in {"pending", "approving", "approved", "replied"}
    /\ card' = [card EXCEPT ![c] = "replied",
                            ![ReplyCard(c)] = IF @ = "none" THEN "pending" ELSE @]
    /\ replied' = replied \cup {c}
    /\ lease' = [lease EXCEPT ![c] =
                    IF card[c] = "replied" \/ @.st = "none" THEN @
                    ELSE [@ EXCEPT !.st = "completed", !.resumeFor = NoTurn]]
    /\ due' = due \cup {<<ReplyCard(c), "direct">>}
    /\ UNCHANGED <<injected, autoReplied, activated, granted, leases, op, turn,
                   upsets, history>>

-----------------------------------------------------------------------------
(* executeCardApproval: its first withStore *)

\* approvedTerminalReturnReceiptNeedsActivation: the source may try again.
NeedsActivation(c) == c \in Returns \ activated /\ card[c] = "approved"

Approvable(c, mode) ==
    \/ card[c] = "pending" /\ (mode = "automatic" => granted /\ c \in InWorkflow)
    \/ mode = "direct" /\ NeedsActivation(c)

\* Mutant: the card is left as it is until its turn has started.
MutMarked(c) == card

Marked(c) == [card EXCEPT ![c] = "approving"]

BeginApproval(c, mode) ==
    /\ Approvable(c, mode)
    /\ card' = Marked(c)
    /\ Begin([kind |-> "approve", card |-> c, mode |-> mode, got |-> NoTurn])
    /\ UNCHANGED <<injected, replied, autoReplied, activated, granted, lease,
                   leases, turn, upsets, history>>

\* approve, by the target.
Approve(c) == BeginApproval(c, "user") /\ UNCHANGED due

\* maybeAutoApprovePublicCard, approveFromSource, the end of reply().
ApproveDue(d) == BeginApproval(d[1], d[2]) /\ due' = due \ {d}

\* In flight, approved or dismissed already, or not authorized.
DropDue(d) ==
    /\ ~Approvable(d[1], d[2])
    /\ due' = due \ {d}
    /\ UNCHANGED <<store, op, turn, upsets, history>>

-----------------------------------------------------------------------------
(* executeApprovedCard: the turn/start *)

\* The app-server starts the turn.
Accept(i) ==
    /\ i \in Busy /\ op[i].got = NoTurn
    /\ \/ /\ op[i].card \in Returns
          /\ op' = [op EXCEPT ![i].got = SourceTurn]
          /\ UNCHANGED turn
       \/ /\ op[i].card \in Work
          /\ \E t \in Turns :
                /\ turn[t] = "unused"
                /\ turn' = [turn EXCEPT ![t] = "running"]
                /\ op' = [op EXCEPT ![i].got = t]
    /\ injections' = IF op[i].kind # "approve" THEN injections
                     ELSE [injections EXCEPT ![op[i].card] = @ + 1]
    /\ UNCHANGED <<store, due, upsets, lost>>

Ends(i) ==
    /\ op' = [op EXCEPT ![i] = NoOp]
    /\ UNCHANGED <<due, turn>>

Finish(i) == Ends(i) /\ UNCHANGED <<upsets, history>>

\* An approval's turn/start is answered by an error: it was refused, or it was
\* taken and the answer lost or late, which the service cannot tell.
Failed(i) ==
    /\ Ends(i)
    /\ UNCHANGED injections
    /\ \/ op[i].got = NoTurn /\ UNCHANGED <<upsets, lost>>
       \/ /\ op[i].got # NoTurn /\ upsets < MaxUpsets
          /\ upsets' = upsets + 1
          /\ lost' = [lost EXCEPT ![op[i].card] = @ + 1]

-----------------------------------------------------------------------------
(* executeCardApproval: its last withStore *)

Receipt(i) == op[i].kind = "approve" /\ op[i].card \in Returns

\* The status is not read again.
Approved(i) ==
    /\ card' = [card EXCEPT ![op[i].card] = "approved"]
    /\ granted' = (granted \/ (op[i].mode = "user" /\ op[i].card \in InWorkflow))

\* leaseForApprovedCard.
StartedLease(l, t) ==
    [l EXCEPT !.st = "active", !.turns = @ \cup {t}, !.resumeFor = NoTurn]

WorkApproved(i) ==
    LET c == op[i].card  t == op[i].got IN
    /\ op[i].kind = "approve" /\ c \in Work /\ t # NoTurn
    /\ Approved(i)
    /\ injected' = [injected EXCEPT ![c] = t]
    /\ lease' = [lease EXCEPT ![c] = StartedLease(@, t)]
    /\ leases' = IF lease[c].st = "none" THEN Append(leases, c) ELSE leases
    /\ Finish(i)
    /\ UNCHANGED <<replied, autoReplied, activated>>

ReceiptActivated(i) ==
    /\ Receipt(i) /\ op[i].got # NoTurn
    /\ Approved(i)
    /\ activated' = activated \cup {op[i].card}
    /\ Finish(i)
    /\ UNCHANGED <<injected, replied, autoReplied, lease, leases>>

\* A receipt whose turn failed is approved all the same, and released.
ReceiptReleased(i) ==
    /\ Receipt(i)
    /\ Approved(i)
    /\ Failed(i)
    /\ UNCHANGED <<injected, replied, autoReplied, activated, lease, leases>>

\* Mutant: what became of the card meanwhile is not looked at.
MutRestored(c) == [card EXCEPT ![c] = "pending"]

Restored(c) == [card EXCEPT ![c] = IF @ = "approving" THEN "pending" ELSE @]

WorkNotApproved(i) ==
    /\ op[i].kind = "approve" /\ op[i].card \in Work
    /\ card' = Restored(op[i].card)
    /\ Failed(i)
    /\ UNCHANGED <<injected, replied, autoReplied, activated, granted, lease,
                   leases>>

-----------------------------------------------------------------------------
(* Execution leases *)

\* cardCanOwnExecutionLease.
CanOwn(c) == card[c] = "approved"

Answered == replied \cup autoReplied

LeaseStep(c, l) ==
    /\ lease' = [lease EXCEPT ![c] = l]
    /\ UNCHANGED <<card, injected, replied, autoReplied, activated, granted,
                   leases>>

\* pauseExecution, cancelExecution.
SetAside(c, status) ==
    /\ CanOwn(c)
    /\ LeaseStep(c, [lease[c] EXCEPT !.st = status, !.resumeFor = NoTurn])
    /\ UNCHANGED <<due, op, turn, upsets, history>>

Pause(c) == SetAside(c, "paused")
Cancel(c) == SetAside(c, "cancelled")

\* The completion of turn t reaches the service, perhaps not for the first
\* time, and perhaps before the answer of the turn/start it belongs to.
Completed(t) == turn[t] = "ended"

\* nextInterruptedExecutionCard.
Interrupts(t) ==
    {c \in Work \ Answered :
        /\ CanOwn(c)
        /\ lease[c].st \in {"active", "resuming"}
        /\ t \notin lease[c].turns
               \cup {lease[c].lastInterrupted, lease[c].resumeFor}}

\* maybeResumeInterruptedTaskCard, of the oldest lease.
Interrupted(t) ==
    /\ Completed(t)
    /\ \E k \in DOMAIN leases :
          LET c == leases[k] IN
          /\ c \in Interrupts(t) /\ \A j \in 1..k-1 : leases[j] \notin Interrupts(t)
          /\ LeaseStep(c, [lease[c] EXCEPT !.st = "resuming", !.resumeFor = t,
                                           !.lastInterrupted = t])
          /\ Begin([kind |-> "continue", card |-> c, for |-> t, got |-> NoTurn])
    /\ UNCHANGED <<due, turn, upsets, history>>

\* Mutant: only the turn that goes on is remembered.
MutContinued(l, t) == [l EXCEPT !.st = "active", !.turns = {t},
                                !.resumed = TRUE, !.resumeFor = NoTurn]

Continued(l, t) == [l EXCEPT !.st = "active", !.turns = @ \cup {t},
                             !.resumed = TRUE, !.resumeFor = NoTurn]

\* What became of the lease meanwhile is not looked at.
ContinueDone(i) ==
    LET c == op[i].card IN
    /\ op[i].kind = "continue" /\ op[i].got # NoTurn
    /\ LeaseStep(c, Continued(lease[c], op[i].got))
    /\ Finish(i)

ContinueFailed(i) ==
    LET c == op[i].card IN
    /\ op[i].kind = "continue"
    /\ LeaseStep(c, IF lease[c].resumeFor # op[i].for THEN lease[c]
                    ELSE [lease[c] EXCEPT !.st = "active", !.resumeFor = NoTurn])
    /\ Finish(i)

-----------------------------------------------------------------------------
(* resumeStaleExecutionLeases, run by a timer of server.js, one at a time *)

\* nextStaleExecutionLeaseCard; whether a heartbeat came is left open.
Stale(c) ==
    /\ c \notin Answered /\ CanOwn(c)
    /\ lease[c].st = "active" /\ ~lease[c].paused /\ ~lease[c].resumed

Watch(c) ==
    /\ \A i \in Busy : op[i].kind # "watch"
    /\ Stale(c)
    /\ LeaseStep(c, [lease[c] EXCEPT !.st = "resuming", !.resumeFor = Watchdog])
    /\ Begin([kind |-> "watch", card |-> c, got |-> NoTurn])
    /\ UNCHANGED <<due, turn, upsets, history>>

\* Mutant: the marker of the attempt is not compared.
MutStillWatched(c) == TRUE

StillWatched(c) == lease[c].resumeFor = Watchdog

WatchDone(i) ==
    LET c == op[i].card IN
    /\ op[i].kind = "watch" /\ op[i].got # NoTurn
    /\ LeaseStep(c, IF ~StillWatched(c) THEN lease[c]
                    ELSE [Continued(lease[c], op[i].got) EXCEPT !.paused = TRUE])
    /\ Finish(i)

WatchFailed(i) ==
    LET c == op[i].card IN
    /\ op[i].kind = "watch"
    /\ LeaseStep(c, IF ~StillWatched(c) THEN lease[c]
                    ELSE [lease[c] EXCEPT !.st = "blocked", !.resumeFor = NoTurn])
    /\ Finish(i)

-----------------------------------------------------------------------------
(* The turns of the target thread *)

\* maybeAutoReplyCompletedTurn.
AutoReply(t) ==
    /\ Completed(t) /\ granted
    /\ \E c \in Autonomous \ autoReplied :
          /\ card[c] = "approved" /\ injected[c] = t
          /\ card' = [card EXCEPT ![AutoReplyCard(c)] = "pending"]
          /\ autoReplied' = autoReplied \cup {c}
          /\ due' = due \cup {<<AutoReplyCard(c), "automatic">>}
    /\ UNCHANGED <<injected, replied, activated, granted, lease, leases, op,
                   turn, upsets, history>>

SetTurn(t, from, to) ==
    /\ turn[t] = from
    /\ turn' = [turn EXCEPT ![t] = to]
    /\ UNCHANGED <<store, due, op, upsets, history>>

\* A turn that is no card's: of a user, say.
OtherTurn(t) == SetTurn(t, "unused", "running")
TurnEnds(t) == SetTurn(t, "running", "ended")

-----------------------------------------------------------------------------
(* Faults *)

Upset ==
    /\ upsets < MaxUpsets
    /\ upsets' = upsets + 1
    /\ UNCHANGED <<store, history>>

\* The last withStore of an operation throws: the lock or the write failed.
StoreFails(i) ==
    /\ i \in Busy
    /\ op' = [op EXCEPT ![i] = NoOp]
    /\ Upset /\ UNCHANGED <<due, turn>>

\* The server restarts.  Completions older than its start are dropped.
Crash ==
    /\ op' = [i \in Ops |-> NoOp]
    /\ due' = {}
    /\ turn' = [t \in Turns |-> IF turn[t] = "ended" THEN "past" ELSE turn[t]]
    /\ Upset

-----------------------------------------------------------------------------
Finishes(i) ==
    \/ WorkApproved(i) \/ ReceiptActivated(i)
    \/ ReceiptReleased(i) \/ WorkNotApproved(i)
    \/ ContinueDone(i) \/ ContinueFailed(i)
    \/ WatchDone(i) \/ WatchFailed(i)

Next ==
    \/ \E c \in Work, direct \in BOOLEAN : Create(c, direct)
    \/ \E c \in Answering : Reply(c)
    \/ \E c \in Work : Pause(c) \/ Cancel(c) \/ Watch(c)
    \/ \E c \in Cards : Approve(c) \/ Delete(c) \/ Revoke(c)
    \/ \E d \in due : ApproveDue(d) \/ DropDue(d)
    \/ \E i \in Ops : Accept(i) \/ Finishes(i) \/ StoreFails(i)
    \/ \E t \in Turns : \/ OtherTurn(t) \/ TurnEnds(t)
                        \/ AutoReply(t) \/ Interrupted(t)
    \/ Crash

Spec == Init /\ [][Next]_vars
-----------------------------------------------------------------------------
(* Properties *)

TypeOK ==
    /\ card \in [Cards -> {"none", "pending", "approving", "approved",
                            "replied", "deleted", "revoked"}]
    /\ injected \in [Work -> Turns \cup {NoTurn}]
    /\ replied \subseteq Answering /\ autoReplied \subseteq Autonomous
    /\ activated \subseteq Returns /\ granted \in BOOLEAN
    /\ lease \in [Work -> Leases] /\ leases \in Seq(Work)
    /\ due \subseteq Cards \X {"automatic", "direct"}
    /\ op \in [Ops -> Operations]
    /\ turn \in [Turns -> {"unused", "running", "ended", "past"}]
    /\ upsets \in 0..MaxUpsets
    /\ injections \in [Cards -> Nat] /\ lost \in [Cards -> Nat]
    /\ \A c \in Work : lease[c].st # "none" => injected[c] \in lease[c].turns

\* However its approvals race - the target's, the source's, those of its
\* workflow, retries, and a restart in the middle - a card is injected once,
\* and once more for every time its turn was reported as failed.
OneTurnPerApproval == \A c \in Cards : injections[c] <= lost[c] + 1

\* A card that was deleted or revoked, or is offered (again), has only turns
\* that were reported as failed, and no approval that may still start one.
DismissedNotInjected ==
    \A c \in Cards : card[c] \in {"pending", "deleted", "revoked"} =>
        /\ injections[c] = lost[c]
        /\ \A i \in Busy : op[i].kind = "approve" => op[i].card # c

\* docs/CROSS_THREAD_TASK_CARDS_DESIGN.md:183: "If the external call fails
\* before acceptance, the service may restore the card to pending": a card that
\* is offered has no turn that the app-server took.
RestoredNotAccepted == \A c \in Work : card[c] = "pending" => injections[c] = 0

\* A dismissed card stays dismissed, and an answered one is not offered again
\* by the failure of an approval that was under way.  Its success may still be
\* recorded: executeCardApproval (2187) does not look at the status again.
SettledStays ==
    [][\A c \in Cards :
         /\ card[c] \in {"deleted", "revoked"} => card'[c] = card[c]
         /\ card[c] = "replied" =>
              \/ card'[c] = "replied"
              \/ /\ card'[c] = "approved"
                 /\ \E i \in Busy : /\ op[i].kind = "approve" /\ op[i].card = c
                                   /\ op'[i] = NoOp]_vars

\* The watchdog does not revive or block a lease that was completed, paused or
\* cancelled while its turn was being started.
WatchdogYields ==
    [][\A c \in Work :
         (/\ lease[c].st \in {"completed", "paused", "cancelled"}
          /\ lease'[c].st \in {"active", "resuming", "blocked"})
         => \E i \in Busy : /\ op[i].kind = "continue" /\ op[i].card = c
                           /\ op'[i] = NoOp]_vars

\* docs/CROSS_THREAD_TASK_CARDS_DESIGN.md:56: "Explicit pause/cancel actions
\* set the lease to paused or cancelled and suppress continuation".
SuppressedStays ==
    [][\A c \in Work : lease[c].st \in {"paused", "cancelled"}
                       => lease'[c].st \notin {"active", "resuming"}]_vars
=============================================================================
