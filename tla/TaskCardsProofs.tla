--------------------------- MODULE TaskCardsProofs ---------------------------
(***************************************************************************)
(* Proofs about TaskCards, for any cards, turns and turn/starts at once.   *)
(*                                                                         *)
(* The status of a card, the approval under way and the turns counted for  *)
(* it hold together in ApprovalInv, the status of a card, its lease and    *)
(* what continues it in LeaseInv; the action properties follow from these. *)
(***************************************************************************)
EXTENDS TaskCards, SequenceTheorems, TLAPS

\* The approval of a card that is under way.
Approves(i, c) == op[i].kind = "approve" /\ op[i].card = c

\* The turns taken for a card that were not reported as failed, and those after
\* the step.
Counted(c) == injections[c] - lost[c]
CountedNext(c) == injections'[c] - lost'[c]

\* While its approval is under way a card is marked, and its turn is counted
\* from the moment the app-server starts it.
ApprovalsMarked ==
    \A i \in Ops : op[i].kind = "approve" =>
        /\ card[op[i].card] \in {"approving", "replied"}
        /\ Counted(op[i].card) = IF op[i].got = NoTurn THEN 0 ELSE 1
        /\ op[i].card \in Work => op[i].got \in Turns \cup {NoTurn}

\* No card has two approvals under way.
OneApproval ==
    \A i, j \in Ops : op[i].kind = "approve" /\ Approves(j, op[i].card) => i = j

\* What may be approved, or is dismissed, has no turn that counts.
Uncounted ==
    \A c \in Cards :
        /\ Counted(c) \in {0, 1}
        /\ card[c] \in {"none", "pending", "deleted", "revoked"} \/ NeedsActivation(c)
              => Counted(c) = 0

\* A return card does not exist before the answer it carries.
AutoIsNew == \A c \in Autonomous \ autoReplied : card[AutoReplyCard(c)] = "none"

\* The inductive invariant behind OneTurnPerApproval and DismissedNotInjected.
ApprovalInv == ApprovalsMarked /\ OneApproval /\ Uncounted /\ AutoIsNew

\* A card has a lease from when its approval is recorded; only a lease that is
\* resuming waits for a turn.
LeaseFollowsCard ==
    \A c \in Work :
        /\ lease[c].st # "none" => card[c] \in {"approved", "replied"}
        /\ card[c] = "approved" => lease[c].st # "none"
        /\ lease[c].resumeFor # NoTurn => lease[c].st = "resuming"

\* No card with a lease is being approved, and only one with a lease continues.
LeaseOps ==
    \A i \in Ops :
        /\ op[i].kind = "approve" /\ op[i].card \in Work => lease[op[i].card].st = "none"
        /\ op[i].kind \in {"continue", "watch"} => lease[op[i].card].st # "none"

\* The inductive invariant behind WatchdogYields.
LeaseInv == LeaseFollowsCard /\ LeaseOps

-----------------------------------------------------------------------------
(* Cards and operations *)

\* Return cards are cards of their own.
LEMMA ReturnCards ==
    /\ \A c \in Answering : ReplyCard(c) \in Returns
    /\ \A c \in Autonomous : AutoReplyCard(c) \in Returns
    /\ \A c \in Returns : c \notin Work
    /\ Cards = Work \cup Returns
    /\ Autonomous \subseteq Work /\ Answering \subseteq Work
    /\ \A c, d : ReplyCard(c) # AutoReplyCard(d) /\ (AutoReplyCard(c) = AutoReplyCard(d) => c = d)
    BY TaskCardsAssumption, NamesAssumption DEF Returns, Cards, ReplyCard, AutoReplyCard

\* What an operation of each kind has.
LEMMA OperationIs ==
    ASSUME TypeOK, NEW i \in Ops
    PROVE  /\ op[i] \in Operations
           /\ op[i].kind \in {"none", "approve", "continue", "watch"}
           /\ i \in Busy <=> op[i].kind # "none"
           /\ op[i].kind = "approve" => /\ op[i].card \in Cards
                                        /\ op[i].got \in Turns \cup {NoTurn, SourceTurn}
           /\ op[i].kind \in {"continue", "watch"} => /\ op[i].card \in Work
                                                      /\ op[i].got \in Turns \cup {NoTurn}
<1>1. op[i] \in Operations
    BY DEF TypeOK
<1> QED BY <1>1 DEF Operations, NoOp, Busy

\* An operation that begins takes a free place.
LEMMA BeginIs ==
    ASSUME TypeOK, NEW o, Begin(o)
    PROVE  \E i \in Ops : /\ op[i].kind = "none"
                          /\ op'[i] = o
                          /\ \A j \in Ops \ {i} : op'[j] = op[j]
                          /\ o \in Operations => op' \in [Ops -> Operations]
    BY DEF TypeOK, Begin, Busy

\* One that finishes leaves it.
LEMMA FinishIs ==
    ASSUME TypeOK, NEW i \in Ops, op' = [op EXCEPT ![i] = NoOp]
    PROVE  /\ op'[i] = NoOp
           /\ \A j \in Ops \ {i} : op'[j] = op[j]
           /\ op' \in [Ops -> Operations]
    BY DEF TypeOK, Operations

\* The app-server starts a turn for it, of its target or of its source.
LEMMA AcceptIs ==
    ASSUME TypeOK, NEW i \in Ops, Accept(i)
    PROVE  \E g \in Turns \cup {SourceTurn} :
              /\ g \in Turns \/ op[i].card \notin Work
              /\ op' = [op EXCEPT ![i].got = g]
              /\ op'[i] = [op[i] EXCEPT !.got = g]
              /\ op'[i].kind = op[i].kind /\ op'[i].card = op[i].card /\ op'[i].got = g
              /\ op[i].kind # "none" /\ op[i].got = NoTurn
              /\ op' \in [Ops -> Operations]
              /\ \A j \in Ops \ {i} : op'[j] = op[j]
<1>1. op[i] \in Operations /\ i \in Busy /\ op[i].got = NoTurn /\ op \in [Ops -> Operations]
    BY OperationIs DEF Accept, TypeOK
<1>2. PICK g \in Turns \cup {SourceTurn} :
          /\ op' = [op EXCEPT ![i].got = g]
          /\ g \in Turns \/ op[i].card \notin Work
    <2>1. CASE /\ op[i].card \in Returns
               /\ op' = [op EXCEPT ![i].got = SourceTurn]
        BY <2>1, ReturnCards
    <2>2. CASE /\ op[i].card \in Work
               /\ \E t \in Turns : op' = [op EXCEPT ![i].got = t]
        BY <2>2, ReturnCards
    <2> QED BY <2>1, <2>2 DEF Accept
<1>3. op[i].kind # "none" /\ (op[i].kind \in {"continue", "watch"} => g \in Turns)
    BY <1>1, <1>2, OperationIs
<1>4. /\ [op[i] EXCEPT !.got = g] \in Operations
      /\ [op[i] EXCEPT !.got = g].kind = op[i].kind
      /\ [op[i] EXCEPT !.got = g].card = op[i].card
      /\ [op[i] EXCEPT !.got = g].got = g
    <2>1. CASE op[i].kind = "approve"
        <3>1. op[i] \in [kind : {"approve"}, card : Cards, mode : Modes,
                         got : Turns \cup {NoTurn, SourceTurn}]
            BY <2>1, <1>1 DEF Operations, NoOp
        <3> QED BY <3>1 DEF Operations
    <2>2. CASE op[i].kind = "continue"
        <3>1. op[i] \in [kind : {"continue"}, card : Work, for : Turns, got : Turns \cup {NoTurn}]
            BY <2>2, <1>1 DEF Operations, NoOp
        <3> QED BY <3>1, <2>2, <1>3 DEF Operations
    <2>3. CASE op[i].kind = "watch"
        <3>1. op[i] \in [kind : {"watch"}, card : Work, got : Turns \cup {NoTurn}]
            BY <2>3, <1>1 DEF Operations, NoOp
        <3> QED BY <3>1, <2>3, <1>3 DEF Operations
    <2> QED BY <1>3, <2>1, <2>2, <2>3, OperationIs
<1>5. op'[i] = [op[i] EXCEPT !.got = g] /\ \A j \in Ops \ {i} : op'[j] = op[j]
    BY <1>1, <1>2
<1>6. op' \in [Ops -> Operations]
    BY <1>1, <1>2, <1>4
<1> QED BY <1>1, <1>2, <1>3, <1>4, <1>5, <1>6
-----------------------------------------------------------------------------
(* How the operations, the cards and the leases move *)

BeginsApproval == \E c \in Cards, mode \in Modes : BeginApproval(c, mode)
Accepts == \E i \in Ops : Accept(i)

\* No place holds an approval it did not hold before, with the same turn.
ApprovalsEnd == \A i \in Ops : op'[i] = op[i] \/ op'[i].kind # "approve"

\* A step begins an approval, or a turn starts, or approvals only come to an
\* end; and what continues a lease did so before, or has just marked it.
LEMMA OpsMove ==
    ASSUME TypeOK, [Next]_vars
    PROVE  /\ BeginsApproval \/ Accepts \/ ApprovalsEnd
           /\ \A i \in Ops : op'[i].kind \in {"continue", "watch"} =>
                 \/ op[i].kind \in {"continue", "watch"} /\ op'[i].card = op[i].card
                 \/ op'[i].card \in Work /\ lease'[op'[i].card].st = "resuming"
<1> DEFINE Going == \A i \in Ops : op'[i].kind \in {"continue", "watch"} =>
                 \/ op[i].kind \in {"continue", "watch"} /\ op'[i].card = op[i].card
                 \/ op'[i].card \in Work /\ lease'[op'[i].card].st = "resuming"
<1>1. CASE UNCHANGED op
    BY <1>1 DEF ApprovalsEnd
<1>2. ASSUME NEW i \in Ops, op' = [op EXCEPT ![i] = NoOp] PROVE ApprovalsEnd /\ Going
    BY <1>2, FinishIs DEF ApprovalsEnd, NoOp
<1>3. ASSUME NEW c \in Cards, NEW mode \in Modes, BeginApproval(c, mode) PROVE BeginsApproval /\ Going
    <2>1. BeginsApproval
        BY <1>3 DEF BeginsApproval
    <2>2. PICK i \in Ops :
             /\ op'[i] = [kind |-> "approve", card |-> c, mode |-> mode, got |-> NoTurn]
             /\ \A j \in Ops \ {i} : op'[j] = op[j]
        BY <1>3, BeginIs DEF BeginApproval
    <2>3. op'[i].kind = "approve"
        BY <2>2
    <2> QED BY <2>1, <2>2, <2>3
<1>4. ASSUME NEW i \in Ops, Accept(i) PROVE Accepts /\ Going
    <2>1. op'[i].kind = op[i].kind /\ op'[i].card = op[i].card /\ \A j \in Ops \ {i} : op'[j] = op[j]
        BY <1>4, AcceptIs
    <2> QED BY <2>1, <1>4 DEF Accepts
<1>5. ASSUME NEW c \in Work, NEW l, NEW o, lease' = [lease EXCEPT ![c] = l], l.st = "resuming",
             Begin(o), o.card = c, o.kind # "approve"
      PROVE  ApprovalsEnd /\ Going
    <2>1. PICK i \in Ops : op'[i] = o /\ \A j \in Ops \ {i} : op'[j] = op[j]
        BY <1>5, BeginIs
    <2>2. lease'[c].st = "resuming"
        BY <1>5 DEF TypeOK
    <2> QED BY <2>1, <2>2, <1>5 DEF ApprovalsEnd
<1>6. CASE \E i \in Ops : Finishes(i) \/ StoreFails(i)
    BY <1>2, <1>6 DEF Finishes, WorkApproved, ReceiptActivated, ReceiptReleased, WorkNotApproved,
                      ContinueDone, ContinueFailed, WatchDone, WatchFailed, StoreFails, Finish, Failed, Ends
<1>7. ASSUME NEW c \in Work, Watch(c) PROVE ApprovalsEnd /\ Going
    <2> DEFINE l == [lease[c] EXCEPT !.st = "resuming", !.resumeFor = Watchdog]
               o == [kind |-> "watch", card |-> c, got |-> NoTurn]
    <2>1. l.st = "resuming" /\ o.card = c /\ o.kind # "approve"
        BY DEF TypeOK, Leases
    <2>2. lease' = [lease EXCEPT ![c] = l] /\ Begin(o)
        BY <1>7 DEF Watch, LeaseStep
    <2> HIDE DEF l, o
    <2> QED BY <2>1, <2>2, <1>5
<1>8. ASSUME NEW t \in Turns, Interrupted(t) PROVE ApprovalsEnd /\ Going
    <2>1. PICK k \in DOMAIN leases :
             /\ leases[k] \in Interrupts(t)
             /\ LeaseStep(leases[k], [lease[leases[k]] EXCEPT !.st = "resuming", !.resumeFor = t,
                                                              !.lastInterrupted = t])
             /\ Begin([kind |-> "continue", card |-> leases[k], for |-> t, got |-> NoTurn])
        BY <1>8 DEF Interrupted
    <2> DEFINE c == leases[k]
               l == [lease[c] EXCEPT !.st = "resuming", !.resumeFor = t, !.lastInterrupted = t]
               o == [kind |-> "continue", card |-> c, for |-> t, got |-> NoTurn]
    <2>2. c \in Work
        BY <2>1 DEF Interrupts
    <2>3. l.st = "resuming" /\ o.card = c /\ o.kind # "approve"
        BY <2>2 DEF TypeOK, Leases
    <2>4. lease' = [lease EXCEPT ![c] = l] /\ Begin(o)
        BY <2>1 DEF LeaseStep
    <2> HIDE DEF c, l, o
    <2> QED BY <2>2, <2>3, <2>4, <1>5
<1>9. CASE Crash
    BY <1>9 DEF Crash, ApprovalsEnd, NoOp
<1>10. CASE \E d \in due : ApproveDue(d) \/ DropDue(d)
    <2>1. PICK d \in due : ApproveDue(d) \/ DropDue(d)
        BY <1>10
    <2>2. d[1] \in Cards /\ d[2] \in Modes
        BY DEF TypeOK, Modes
    <2> QED BY <2>1, <2>2, <1>1, <1>3 DEF ApproveDue, DropDue
<1>11. CASE \E c \in Cards : Approve(c)
    BY <1>11, <1>3 DEF Approve, Modes
<1>12. CASE \/ UNCHANGED vars
            \/ \E c \in Work, direct \in BOOLEAN : Create(c, direct)
            \/ \E c \in Answering : Reply(c)
            \/ \E c \in Work : Pause(c) \/ Cancel(c)
            \/ \E c \in Cards : Delete(c) \/ Revoke(c)
            \/ \E t \in Turns : OtherTurn(t) \/ TurnEnds(t) \/ AutoReply(t)
    BY <1>1, <1>12 DEF vars, Create, Reply, Pause, Cancel, SetAside, Delete, Revoke, Dismiss,
                       OtherTurn, TurnEnds, SetTurn, AutoReply
<1> QED BY <1>4, <1>6, <1>7, <1>8, <1>9, <1>10, <1>11, <1>12 DEF Next

\* How a step may move card c.
CardKept(c) == card'[c] = card[c] /\ CountedNext(c) = Counted(c)

CardAppears(c) ==
    /\ card[c] = "none" /\ card'[c] = "pending" /\ CountedNext(c) = Counted(c)
    /\ \A d \in Autonomous : c = AutoReplyCard(d) => d \in autoReplied'

CardDismissed(c) ==
    card[c] = "pending" /\ card'[c] \in {"deleted", "revoked"} /\ CountedNext(c) = Counted(c)

CardReplied(c) ==
    /\ card[c] \in {"pending", "approving", "approved", "replied"} /\ card'[c] = "replied"
    /\ CountedNext(c) = Counted(c)

CardMarked(c) ==
    /\ card[c] = "pending" \/ NeedsActivation(c)
    /\ card'[c] = "approving" /\ CountedNext(c) = Counted(c)

CardInjected(c) ==
    \E i \in Ops : /\ Accept(i) /\ Approves(i, c)
                   /\ card'[c] = card[c] /\ CountedNext(c) = Counted(c) + 1

\* Its approval ends: with a turn, or without one that counts.
CardFinished(c) ==
    \E i \in Ops :
        /\ Approves(i, c) /\ op'[i] = NoOp
        /\ \/ /\ card'[c] = "approved" /\ c \in Work \cup activated'
              /\ op[i].got # NoTurn /\ CountedNext(c) = Counted(c)
           \/ /\ IF c \in Work THEN card'[c] = IF card[c] = "approving" THEN "pending" ELSE card[c]
                 ELSE card'[c] = "approved"
              /\ CountedNext(c) = IF op[i].got = NoTurn THEN Counted(c) ELSE Counted(c) - 1

CardMoves(c) == \/ CardKept(c) \/ CardAppears(c) \/ CardDismissed(c) \/ CardReplied(c)
                \/ CardMarked(c) \/ CardInjected(c) \/ CardFinished(c)

\* An approval that fails takes back the turn it counts, if it does.
LEMMA FailureCounts ==
    ASSUME TypeOK, NEW i \in Ops, op[i].kind = "approve", Failed(i)
    PROVE  /\ CountedNext(op[i].card) = Counted(op[i].card) - (IF op[i].got = NoTurn THEN 0 ELSE 1)
           /\ \A c \in Cards \ {op[i].card} : CountedNext(c) = Counted(c)
           /\ lost' \in [Cards -> Nat] /\ upsets' \in 0..MaxUpsets
<1>1. op[i].card \in Cards
    BY OperationIs
<1> DEFINE a == op[i].card
<1>2. /\ injections \in [Cards -> Nat] /\ lost \in [Cards -> Nat] /\ injections' = injections
      /\ upsets \in 0..MaxUpsets /\ MaxUpsets \in Nat
    BY TaskCardsAssumption DEF TypeOK, Failed
<1>3. CASE op[i].got = NoTurn
    <2>1. upsets' = upsets /\ lost' = lost
        BY <1>3 DEF Failed
    <2> QED BY <2>1, <1>1, <1>2, <1>3 DEF Counted, CountedNext
<1>4. CASE op[i].got # NoTurn
    <2>1. /\ upsets < MaxUpsets /\ upsets' = upsets + 1
          /\ lost' = [lost EXCEPT ![a] = @ + 1]
        BY <1>4 DEF Failed
    <2> HIDE DEF a
    <2>3. \A c \in Cards : lost'[c] = IF c = a THEN lost[c] + 1 ELSE lost[c]
        BY <2>1, <1>2
    <2>2. lost' \in [Cards -> Nat] /\ upsets' \in 0..MaxUpsets
        <3>1. DOMAIN lost' = Cards /\ lost' = [c \in Cards |-> lost'[c]]
            BY <2>1, <1>2
        <3>2. \A c \in Cards : lost'[c] \in Nat
            BY <2>3, <1>2
        <3>3. upsets' \in 0..MaxUpsets
            BY <2>1, <1>2
        <3> QED BY <3>1, <3>2, <3>3
    <2>4. \A c \in Cards : CountedNext(c) = IF c = a THEN Counted(c) - 1 ELSE Counted(c)
        BY <2>3, <1>2 DEF Counted, CountedNext
    <2>5. a \in Cards
        BY <1>1 DEF a
    <2>6. CountedNext(a) = Counted(a) - 1 /\ \A c \in Cards \ {a} : CountedNext(c) = Counted(c)
        BY <2>4, <2>5
    <2> QED BY <2>2, <2>6, <1>4 DEF a
<1> QED BY <1>3, <1>4

\* The end of an operation moves its own card.
LEMMA FinishMovesCard ==
    ASSUME TypeOK, NEW i \in Ops, Finishes(i), NEW c \in Cards
    PROVE  CardKept(c) \/ CardFinished(c)
<1>1. card \in [Cards -> {"none", "pending", "approving", "approved", "replied", "deleted", "revoked"}]
      /\ injections \in [Cards -> Nat] /\ lost \in [Cards -> Nat]
    BY DEF TypeOK
<1>2. CASE op[i].kind # "approve"
    BY <1>2 DEF Finishes, WorkApproved, ReceiptActivated, ReceiptReleased, Receipt, WorkNotApproved,
                ContinueDone, ContinueFailed, WatchDone, WatchFailed, LeaseStep, Finish, history,
                CardKept, Counted, CountedNext
<1>3. CASE op[i].kind = "approve"
    <2> DEFINE a == op[i].card
    <2>1. a \in Cards
        BY <1>3, OperationIs
    <2>2. op'[i] = NoOp
        BY FinishIs DEF Finishes, WorkApproved, ReceiptActivated, ReceiptReleased, WorkNotApproved,
                        ContinueDone, ContinueFailed, WatchDone, WatchFailed, Finish, Failed, Ends
    <2>7. Counted(a) \in Int
        BY <2>1, <1>1 DEF Counted
    <2>3. CASE WorkApproved(i)
        BY <2>1, <2>2, <2>3, <1>1, <1>3 DEF WorkApproved, Approved, Finish, history, CardKept, CardFinished, Approves,
                                              Counted, CountedNext
    <2>4. CASE ReceiptActivated(i)
        BY <2>1, <2>2, <2>4, <1>1, <1>3 DEF ReceiptActivated, Approved, Finish, history, CardKept, CardFinished,
                                              Approves, Counted, CountedNext
    <2>5. CASE ReceiptReleased(i)
        <3>1. a \notin Work
            BY <2>5, ReturnCards DEF ReceiptReleased, Receipt
        <3>2. card' = [card EXCEPT ![a] = "approved"] /\ Failed(i)
            BY <2>5 DEF ReceiptReleased, Approved
        <3>3. /\ CountedNext(a) = Counted(a) - (IF op[i].got = NoTurn THEN 0 ELSE 1)
              /\ c # a => CountedNext(c) = Counted(c)
            BY <3>2, <1>3, FailureCounts
        <3> QED BY <3>1, <3>2, <3>3, <2>1, <2>2, <2>7, <1>1, <1>3 DEF CardKept, CardFinished, Approves
    <2>6. CASE WorkNotApproved(i)
        <3>1. a \in Work /\ card' = Restored(a) /\ Failed(i)
            BY <2>6 DEF WorkNotApproved
        <3>2. /\ CountedNext(a) = Counted(a) - (IF op[i].got = NoTurn THEN 0 ELSE 1)
              /\ c # a => CountedNext(c) = Counted(c)
            BY <3>1, <1>3, FailureCounts
        <3> QED BY <3>1, <3>2, <2>1, <2>2, <2>7, <1>1, <1>3
                DEF CardKept, CardFinished, Approves, Restored
    <2> QED BY <1>3, <2>3, <2>4, <2>5, <2>6 DEF Finishes, ContinueDone, ContinueFailed,
                                                WatchDone, WatchFailed
<1> QED BY <1>2, <1>3

\* Every step moves every card in one of these ways.
LEMMA CardsMove ==
    ASSUME TypeOK, AutoIsNew, [Next]_vars, NEW c \in Cards
    PROVE  CardMoves(c)
<1>1. card \in [Cards -> {"none", "pending", "approving", "approved", "replied", "deleted", "revoked"}]
      /\ injections \in [Cards -> Nat] /\ lost \in [Cards -> Nat]
    BY DEF TypeOK
<1>2. CASE UNCHANGED <<card, injections, lost>>
    BY <1>2 DEF CardMoves, CardKept, Counted, CountedNext
<1>3. ASSUME NEW d \in Work, NEW direct \in BOOLEAN, Create(d, direct) PROVE CardMoves(c)
    <2>1. d \in Cards /\ \A a \in Autonomous : d # AutoReplyCard(a)
        BY ReturnCards
    <2> QED BY <1>1, <1>3, <2>1 DEF Create, CardMoves, CardKept, CardAppears, history, Counted, CountedNext
<1>4. ASSUME NEW d \in Cards, Delete(d) \/ Revoke(d) PROVE CardMoves(c)
    BY <1>1, <1>4 DEF Delete, Revoke, Dismiss, Dismissible, CardMoves, CardKept, CardDismissed,
                      history, Counted, CountedNext
<1>5. ASSUME NEW d \in Answering, Reply(d) PROVE CardMoves(c)
    <2> DEFINE r == ReplyCard(d)
    <2>1. r \in Cards /\ d \in Cards /\ r # d /\ \A a \in Autonomous : r # AutoReplyCard(a)
        BY ReturnCards
    <2>2. /\ card[d] \in {"pending", "approving", "approved", "replied"}
          /\ card' = [card EXCEPT ![d] = "replied", ![r] = IF @ = "none" THEN "pending" ELSE @]
          /\ UNCHANGED history
        BY <1>5 DEF Reply
    <2> HIDE DEF r
    <2> QED BY <1>1, <2>1, <2>2 DEF CardMoves, CardKept, CardAppears, CardReplied, history, Counted, CountedNext
<1>6. ASSUME NEW d \in Cards, NEW mode \in Modes, BeginApproval(d, mode) PROVE CardMoves(c)
    BY <1>1, <1>6 DEF BeginApproval, Approvable, Marked, CardMoves, CardKept, CardMarked, history,
                      Counted, CountedNext
<1>7. CASE \E d \in due : ApproveDue(d) \/ DropDue(d)
    <2>1. PICK d \in due : ApproveDue(d) \/ DropDue(d)
        BY <1>7
    <2>2. d[1] \in Cards /\ d[2] \in Modes
        BY DEF TypeOK, Modes
    <2> QED BY <2>1, <2>2, <1>2, <1>6 DEF ApproveDue, DropDue, store, history
<1>8. CASE \E d \in Cards : Approve(d)
    BY <1>8, <1>6 DEF Approve, Modes
<1>9. ASSUME NEW i \in Ops, Accept(i) PROVE CardMoves(c)
    <2>1. CASE op[i].kind # "approve"
        BY <2>1, <1>2, <1>9 DEF Accept, store
    <2>2. CASE op[i].kind = "approve"
        <3>1. op[i].card \in Cards
            BY <2>2, OperationIs
        <3>2. card' = card /\ injections' = [injections EXCEPT ![op[i].card] = @ + 1] /\ lost' = lost
            BY <2>2, <1>9 DEF Accept, store
        <3>3. CASE c = op[i].card
            BY <3>1, <3>2, <3>3, <2>2, <1>1, <1>9 DEF CardMoves, CardInjected, Approves, Counted, CountedNext
        <3>4. CASE c # op[i].card
            BY <3>1, <3>2, <3>4, <1>1 DEF CardMoves, CardKept, Counted, CountedNext
        <3> QED BY <3>3, <3>4
    <2> QED BY <2>1, <2>2
<1>10. ASSUME NEW t \in Turns, AutoReply(t) PROVE CardMoves(c)
    <2>1. PICK d \in Autonomous \ autoReplied :
             /\ card' = [card EXCEPT ![AutoReplyCard(d)] = "pending"]
             /\ autoReplied' = autoReplied \cup {d}
        BY <1>10 DEF AutoReply
    <2>2. card[AutoReplyCard(d)] = "none"
        BY <2>1 DEF AutoIsNew
    <2>3. UNCHANGED history
        BY <1>10 DEF AutoReply
    <2>4. \A a \in Autonomous : AutoReplyCard(d) = AutoReplyCard(a) => d = a
        BY ReturnCards
    <2>5. CASE c = AutoReplyCard(d)
        BY <2>1, <2>2, <2>3, <2>4, <2>5, <1>1 DEF CardMoves, CardAppears, history, Counted, CountedNext
    <2>6. CASE c # AutoReplyCard(d)
        BY <2>1, <2>3, <2>6, <1>1 DEF CardMoves, CardKept, history, Counted, CountedNext
    <2> QED BY <2>5, <2>6
<1>11. CASE \E i \in Ops : Finishes(i)
    BY <1>11, FinishMovesCard DEF CardMoves
<1>12. CASE \/ UNCHANGED vars \/ Crash
            \/ \E i \in Ops : StoreFails(i)
            \/ \E d \in Work : Pause(d) \/ Cancel(d) \/ Watch(d)
            \/ \E t \in Turns : OtherTurn(t) \/ TurnEnds(t) \/ Interrupted(t)
    BY <1>2, <1>12 DEF vars, store, Crash, StoreFails, Upset, Pause, Cancel, SetAside, Watch,
                       LeaseStep, OtherTurn, TurnEnds, SetTurn, Interrupted, history
<1> QED BY <1>3, <1>4, <1>5, <1>7, <1>8, <1>9, <1>10, <1>11, <1>12 DEF Next

\* How a step may move the lease of card c.
LeaseKept(c) == lease'[c] = lease[c] /\ (card'[c] = "approved" => card[c] = "approved")

LeaseCompleted(c) ==
    /\ lease[c].st # "none" /\ card'[c] = "replied"
    /\ lease'[c].st = "completed" /\ lease'[c].resumeFor = NoTurn

LeaseStarted(c) ==
    \E i \in Ops : /\ Approves(i, c) /\ op'[i] = NoOp /\ card'[c] = "approved"
                   /\ lease'[c].st = "active" /\ lease'[c].resumeFor = NoTurn

LeaseSetAside(c) ==
    /\ card[c] = "approved" /\ card'[c] = "approved"
    /\ lease'[c].st \in {"paused", "cancelled"} /\ lease'[c].resumeFor = NoTurn

LeaseResuming(c) ==
    /\ card[c] = "approved" /\ card'[c] = "approved"
    /\ lease[c].st \in {"active", "resuming"} /\ lease'[c].st = "resuming"

LeaseContinued(c) ==
    /\ \E i \in Ops :
          /\ op[i].kind \in {"continue", "watch"} /\ op[i].card = c /\ op'[i] = NoOp
          /\ op[i].kind = "watch" => lease[c].resumeFor = Watchdog
    /\ card'[c] = card[c]
    /\ lease'[c].st \in {"active", "blocked"} /\ lease'[c].resumeFor = NoTurn

LeaseMoves(c) == \/ LeaseKept(c) \/ LeaseCompleted(c) \/ LeaseStarted(c)
                 \/ LeaseSetAside(c) \/ LeaseResuming(c) \/ LeaseContinued(c)

\* The end of an operation moves the lease of its own card.
LEMMA FinishMovesLease ==
    ASSUME TypeOK, NEW i \in Ops, Finishes(i), NEW c \in Work
    PROVE  LeaseMoves(c)
<1> DEFINE a == op[i].card
<1>1. /\ card \in [Cards -> {"none", "pending", "approving", "approved", "replied", "deleted", "revoked"}]
      /\ lease \in [Work -> Leases] /\ c \in Cards /\ c \notin Returns
    BY ReturnCards DEF TypeOK
<1>2. op'[i] = NoOp
    BY FinishIs DEF Finishes, WorkApproved, ReceiptActivated, ReceiptReleased, WorkNotApproved,
                    ContinueDone, ContinueFailed, WatchDone, WatchFailed, Finish, Failed, Ends
<1>3. CASE WorkApproved(i)
    <2>1. /\ a \in Work /\ Approves(i, a) /\ card' = [card EXCEPT ![a] = "approved"]
          /\ lease' = [lease EXCEPT ![a] = StartedLease(lease[a], op[i].got)]
        BY <1>3 DEF WorkApproved, Approved, Approves
    <2>2. CASE c = a
        <3>1. lease'[a].st = "active" /\ lease'[a].resumeFor = NoTurn
            BY <2>1, <1>1 DEF StartedLease, Leases
        <3> QED BY <3>1, <2>1, <2>2, <1>1, <1>2 DEF LeaseMoves, LeaseStarted
    <2>3. CASE c # a
        BY <2>1, <2>3, <1>1, ReturnCards DEF LeaseMoves, LeaseKept
    <2> QED BY <2>2, <2>3
<1>4. CASE ReceiptActivated(i) \/ ReceiptReleased(i)
    BY <1>1, <1>4 DEF ReceiptActivated, ReceiptReleased, Receipt, Approved, LeaseMoves, LeaseKept
<1>5. CASE WorkNotApproved(i)
    BY <1>1, <1>5 DEF WorkNotApproved, Restored, LeaseMoves, LeaseKept
<1>6. ASSUME NEW l, LeaseStep(a, l), op[i].kind \in {"continue", "watch"},
             \/ l = lease[a]
             \/ /\ l.st \in {"active", "blocked"} /\ l.resumeFor = NoTurn
                /\ op[i].kind = "watch" => lease[a].resumeFor = Watchdog
      PROVE  LeaseMoves(c)
    <2>1. a \in Work /\ card' = card /\ lease' = [lease EXCEPT ![a] = l]
        BY <1>6, OperationIs DEF LeaseStep
    <2>2. CASE c # a \/ l = lease[a]
        BY <2>1, <2>2, <1>1 DEF LeaseMoves, LeaseKept
    <2>3. CASE c = a /\ l # lease[a]
        BY <2>1, <2>3, <1>1, <1>2, <1>6 DEF LeaseMoves, LeaseContinued
    <2> QED BY <2>2, <2>3
<1>7. CASE ContinueDone(i) \/ ContinueFailed(i) \/ WatchDone(i) \/ WatchFailed(i)
    <2>1. lease[a] \in Leases
        BY <1>7, <1>1, OperationIs DEF ContinueDone, ContinueFailed, WatchDone, WatchFailed
    <2>2. CASE ContinueDone(i)
        <3> DEFINE l == Continued(lease[a], op[i].got)
        <3>1. l.st = "active" /\ l.resumeFor = NoTurn
            BY <2>1 DEF Continued, Leases
        <3>2. LeaseStep(a, l) /\ op[i].kind = "continue"
            BY <2>2 DEF ContinueDone
        <3> HIDE DEF l
        <3> QED BY <3>1, <3>2, <1>6
    <2>3. CASE ContinueFailed(i)
        <3> DEFINE m == [lease[a] EXCEPT !.st = "active", !.resumeFor = NoTurn]
                   l == IF lease[a].resumeFor # op[i].for THEN lease[a] ELSE m
        <3>1. m.st = "active" /\ m.resumeFor = NoTurn
            BY <2>1 DEF Leases
        <3>2. LeaseStep(a, l) /\ op[i].kind = "continue"
            BY <2>3 DEF ContinueFailed
        <3> HIDE DEF m
        <3>3. l = lease[a] \/ l = m
            OBVIOUS
        <3> HIDE DEF l
        <3> QED BY <3>1, <3>2, <3>3, <1>6
    <2>4. CASE WatchDone(i)
        <3> DEFINE m == [Continued(lease[a], op[i].got) EXCEPT !.paused = TRUE]
                   l == IF ~StillWatched(a) THEN lease[a] ELSE m
        <3>1. m.st = "active" /\ m.resumeFor = NoTurn
            BY <2>1 DEF Continued, Leases
        <3>2. LeaseStep(a, l) /\ op[i].kind = "watch"
            BY <2>4 DEF WatchDone
        <3> HIDE DEF m
        <3>3. l = lease[a] \/ (l = m /\ lease[a].resumeFor = Watchdog)
            BY DEF StillWatched
        <3> HIDE DEF l
        <3> QED BY <3>1, <3>2, <3>3, <1>6
    <2>5. CASE WatchFailed(i)
        <3> DEFINE m == [lease[a] EXCEPT !.st = "blocked", !.resumeFor = NoTurn]
                   l == IF ~StillWatched(a) THEN lease[a] ELSE m
        <3>1. m.st = "blocked" /\ m.resumeFor = NoTurn
            BY <2>1 DEF Leases
        <3>2. LeaseStep(a, l) /\ op[i].kind = "watch"
            BY <2>5 DEF WatchFailed
        <3> HIDE DEF m
        <3>3. l = lease[a] \/ (l = m /\ lease[a].resumeFor = Watchdog)
            BY DEF StillWatched
        <3> HIDE DEF l
        <3> QED BY <3>1, <3>2, <3>3, <1>6
    <2> QED BY <1>7, <2>2, <2>3, <2>4, <2>5
<1> QED BY <1>3, <1>4, <1>5, <1>7 DEF Finishes

\* Every step moves the lease of every card in one of these ways.
LEMMA LeasesMove ==
    ASSUME TypeOK, [Next]_vars, NEW c \in Work
    PROVE  LeaseMoves(c)
<1>1. /\ card \in [Cards -> {"none", "pending", "approving", "approved", "replied", "deleted", "revoked"}]
      /\ lease \in [Work -> Leases] /\ c \in Cards /\ c \notin Returns
    BY ReturnCards DEF TypeOK
<1>2. CASE UNCHANGED <<card, lease>>
    BY <1>2 DEF LeaseMoves, LeaseKept
<1>3. ASSUME NEW d \in Work, NEW direct \in BOOLEAN, Create(d, direct) PROVE LeaseMoves(c)
    BY <1>1, <1>3 DEF Create, LeaseMoves, LeaseKept
<1>4. ASSUME NEW d \in Cards, Delete(d) \/ Revoke(d) PROVE LeaseMoves(c)
    BY <1>1, <1>4 DEF Delete, Revoke, Dismiss, LeaseMoves, LeaseKept
<1>5. ASSUME NEW d \in Answering, Reply(d) PROVE LeaseMoves(c)
    <2> DEFINE r == ReplyCard(d)
               l == [lease[d] EXCEPT !.st = "completed", !.resumeFor = NoTurn]
    <2>1. r \in Cards /\ d \in Cards /\ d \in Work /\ r # d /\ r # c
        BY ReturnCards
    <2>2. /\ card' = [card EXCEPT ![d] = "replied", ![r] = IF @ = "none" THEN "pending" ELSE @]
          /\ lease' = [lease EXCEPT ![d] = IF card[d] = "replied" \/ lease[d].st = "none"
                                           THEN lease[d] ELSE l]
        BY <1>5 DEF Reply
    <2>3. l.st = "completed" /\ l.resumeFor = NoTurn
        BY <2>1, <1>1 DEF Leases
    <2> HIDE DEF r, l
    <2>4. CASE c = d
        BY <2>1, <2>2, <2>3, <2>4, <1>1 DEF LeaseMoves, LeaseKept, LeaseCompleted
    <2>5. CASE c # d
        BY <2>1, <2>2, <2>5, <1>1 DEF LeaseMoves, LeaseKept
    <2> QED BY <2>4, <2>5
<1>6. ASSUME NEW d \in Cards, NEW mode \in Modes, BeginApproval(d, mode) PROVE LeaseMoves(c)
    BY <1>1, <1>6 DEF BeginApproval, Marked, LeaseMoves, LeaseKept
<1>7. CASE \E d \in due : ApproveDue(d) \/ DropDue(d)
    <2>1. PICK d \in due : ApproveDue(d) \/ DropDue(d)
        BY <1>7
    <2>2. d[1] \in Cards /\ d[2] \in Modes
        BY DEF TypeOK, Modes
    <2> QED BY <2>1, <2>2, <1>2, <1>6 DEF ApproveDue, DropDue, store, history
<1>8. CASE \E d \in Cards : Approve(d)
    BY <1>8, <1>6 DEF Approve, Modes
<1>9. ASSUME NEW d \in Work, Pause(d) \/ Cancel(d) PROVE LeaseMoves(c)
    <2>1. PICK st \in {"paused", "cancelled"} : SetAside(d, st)
        BY <1>9 DEF Pause, Cancel
    <2> DEFINE l == [lease[d] EXCEPT !.st = st, !.resumeFor = NoTurn]
    <2>2. l.st = st /\ l.resumeFor = NoTurn
        BY <1>1 DEF Leases
    <2>3. card[d] = "approved" /\ card' = card /\ lease' = [lease EXCEPT ![d] = l]
        BY <2>1 DEF SetAside, CanOwn, LeaseStep
    <2> HIDE DEF l
    <2> QED BY <2>2, <2>3, <1>1 DEF LeaseMoves, LeaseKept, LeaseSetAside
<1>10. ASSUME NEW d \in Work, NEW l, LeaseStep(d, l), l.st = "resuming", CanOwn(d),
              lease[d].st \in {"active", "resuming"}
       PROVE  LeaseMoves(c)
    BY <1>1, <1>10 DEF LeaseStep, CanOwn, LeaseMoves, LeaseKept, LeaseResuming
<1>11. ASSUME NEW d \in Work, Watch(d) PROVE LeaseMoves(c)
    <2> DEFINE l == [lease[d] EXCEPT !.st = "resuming", !.resumeFor = Watchdog]
    <2>1. l.st = "resuming"
        BY <1>1 DEF Leases
    <2>2. LeaseStep(d, l) /\ CanOwn(d) /\ lease[d].st = "active"
        BY <1>11 DEF Watch, Stale
    <2> HIDE DEF l
    <2> QED BY <2>1, <2>2, <1>10
<1>12. ASSUME NEW t \in Turns, Interrupted(t) PROVE LeaseMoves(c)
    <2>1. PICK k \in DOMAIN leases :
             /\ leases[k] \in Interrupts(t)
             /\ LeaseStep(leases[k], [lease[leases[k]] EXCEPT !.st = "resuming", !.resumeFor = t,
                                                              !.lastInterrupted = t])
        BY <1>12 DEF Interrupted
    <2> DEFINE d == leases[k]
               l == [lease[d] EXCEPT !.st = "resuming", !.resumeFor = t, !.lastInterrupted = t]
    <2>2. d \in Work /\ CanOwn(d) /\ lease[d].st \in {"active", "resuming"}
        BY <2>1 DEF Interrupts
    <2>3. l.st = "resuming"
        BY <2>2, <1>1 DEF Leases
    <2> HIDE DEF l, d
    <2> QED BY <2>1, <2>2, <2>3, <1>10 DEF l, d
<1>13. ASSUME NEW t \in Turns, AutoReply(t) PROVE LeaseMoves(c)
    <2>1. PICK d \in Autonomous : card' = [card EXCEPT ![AutoReplyCard(d)] = "pending"]
        BY <1>13 DEF AutoReply
    <2>2. AutoReplyCard(d) # c
        BY <1>1, ReturnCards
    <2> QED BY <2>1, <2>2, <1>1, <1>13 DEF AutoReply, LeaseMoves, LeaseKept
<1>14. CASE \E i \in Ops : Finishes(i)
    BY <1>14, FinishMovesLease
<1>15. CASE \/ UNCHANGED vars \/ Crash
            \/ \E i \in Ops : Accept(i) \/ StoreFails(i)
            \/ \E t \in Turns : OtherTurn(t) \/ TurnEnds(t)
    BY <1>2, <1>15 DEF vars, store, Crash, Accept, StoreFails, Upset, OtherTurn, TurnEnds, SetTurn
<1> QED BY <1>3, <1>4, <1>5, <1>7, <1>8, <1>9, <1>11, <1>12, <1>13, <1>14, <1>15 DEF Next

-----------------------------------------------------------------------------
(* Approvals *)

\* An approval ends, or is about a card of its own.
LEMMA ApprovalsMarkedStep ==
    ASSUME TypeOK, ApprovalInv, [Next]_vars
    PROVE  ApprovalsMarked' /\ OneApproval'
<1>1. card \in [Cards -> {"none", "pending", "approving", "approved", "replied", "deleted", "revoked"}]
      /\ injections \in [Cards -> Nat] /\ lost \in [Cards -> Nat]
    BY DEF TypeOK
<1>2. CASE BeginsApproval
    <2>1. PICK c \in Cards, mode \in Modes : BeginApproval(c, mode)
        BY <1>2 DEF BeginsApproval
    <2> DEFINE o == [kind |-> "approve", card |-> c, mode |-> mode, got |-> NoTurn]
    <2>2. PICK i \in Ops : op'[i] = o /\ \A j \in Ops \ {i} : op'[j] = op[j]
        BY <2>1, BeginIs DEF BeginApproval
    <2>3. op'[i].kind = "approve" /\ op'[i].card = c /\ op'[i].got = NoTurn
        BY <2>2
    <2>4. card' = [card EXCEPT ![c] = "approving"] /\ UNCHANGED history
        BY <2>1 DEF BeginApproval, Marked
    <2>5. Counted(c) = 0 /\ card[c] \in {"pending", "approved"}
        BY <2>1 DEF BeginApproval, Approvable, NeedsActivation, ApprovalInv, Uncounted
    <2>6. \A j \in Ops : op[j].kind = "approve" => op[j].card # c
        BY <2>5 DEF ApprovalInv, ApprovalsMarked
    <2> HIDE DEF o
    <2>7. OneApproval'
        BY <2>2, <2>3, <2>6 DEF ApprovalInv, OneApproval, Approves
    <2>8. ASSUME NEW j \in Ops, op'[j].kind = "approve", j # i
          PROVE  op'[j] = op[j] /\ op[j].card \in Cards /\ op[j].card # c
        BY <2>2, <2>6, <2>8, OperationIs
    <2>9. ApprovalsMarked'
        BY <2>3, <2>4, <2>5, <2>8, <1>1 DEF ApprovalInv, ApprovalsMarked, history, Counted
    <2> QED BY <2>7, <2>9
<1>3. CASE Accepts
    <2>1. PICK i \in Ops : Accept(i)
        BY <1>3 DEF Accepts
    <2>2. PICK g \in Turns \cup {SourceTurn} :
             /\ g \in Turns \/ op[i].card \notin Work
             /\ op'[i].kind = op[i].kind /\ op'[i].card = op[i].card /\ op'[i].got = g
             /\ op[i].got = NoTurn
             /\ \A j \in Ops \ {i} : op'[j] = op[j]
        BY <2>1, AcceptIs
    <2>3. OneApproval'
        BY <2>2 DEF ApprovalInv, OneApproval, Approves
    <2>4. ASSUME NEW j \in Ops, op'[j].kind = "approve"
          PROVE  op[j].kind = "approve" /\ op'[j].card = op[j].card /\ op[j].card \in Cards
        BY <2>2, <2>4, OperationIs
    <2>5. g # NoTurn /\ card' = card
        BY <2>1, NamesAssumption DEF Accept, store, NoTurn, SourceTurn
    <2>6. /\ injections' = IF op[i].kind # "approve" THEN injections
                           ELSE [injections EXCEPT ![op[i].card] = @ + 1]
          /\ lost' = lost
        BY <2>1 DEF Accept
    <2>7. ASSUME op[i].kind = "approve" PROVE CountedNext(op[i].card) = 1
        <3>1. Counted(op[i].card) = 0 /\ op[i].card \in Cards
            BY <2>2, <2>7, OperationIs DEF ApprovalInv, ApprovalsMarked
        <3> QED BY <3>1, <2>6, <2>7, <1>1 DEF Counted, CountedNext
    <2>8. ASSUME NEW j \in Ops, j # i, op[j].kind = "approve"
          PROVE  CountedNext(op[j].card) = Counted(op[j].card)
        <3>1. op[i].kind = "approve" => op[j].card # op[i].card
            BY <2>8 DEF ApprovalInv, OneApproval, Approves
        <3> QED BY <3>1, <2>6, <2>8, <1>1, OperationIs DEF Counted, CountedNext
    <2>9. ApprovalsMarked'
        BY <2>2, <2>4, <2>5, <2>7, <2>8 DEF ApprovalInv, ApprovalsMarked, Counted, CountedNext
    <2> QED BY <2>3, <2>9
<1>4. CASE ApprovalsEnd /\ ~Accepts
    <2>1. OneApproval'
        BY <1>4 DEF ApprovalsEnd, ApprovalInv, OneApproval, Approves
    <2>2. ASSUME NEW i \in Ops, op'[i].kind = "approve"
          PROVE  /\ card'[op'[i].card] \in {"approving", "replied"}
                 /\ CountedNext(op'[i].card) = IF op'[i].got = NoTurn THEN 0 ELSE 1
                 /\ op'[i].card \in Work => op'[i].got \in Turns \cup {NoTurn}
        <3> DEFINE c == op[i].card
        <3>1. op'[i] = op[i] /\ op[i].kind = "approve" /\ c \in Cards /\ Approves(i, c)
            BY <1>4, <2>2, OperationIs DEF ApprovalsEnd, Approves
        <3>2. /\ card[c] \in {"approving", "replied"}
              /\ Counted(c) = IF op[i].got = NoTurn THEN 0 ELSE 1
              /\ c \in Work => op[i].got \in Turns \cup {NoTurn}
            BY <3>1 DEF ApprovalInv, ApprovalsMarked
        <3>3. ~CardFinished(c)
            <4> SUFFICES ASSUME NEW j \in Ops, Approves(j, c), op'[j] = NoOp PROVE FALSE
                BY DEF CardFinished
            <4>1. i = j
                BY <3>1 DEF ApprovalInv, OneApproval
            <4> QED BY <4>1, <3>1 DEF NoOp
        <3>4. ~CardInjected(c)
            BY <1>4 DEF CardInjected, Accepts
        <3>5. CardMoves(c)
            BY <3>1, CardsMove DEF ApprovalInv
        <3> HIDE DEF c
        <3>6. card'[c] \in {"approving", "replied"} /\ CountedNext(c) = Counted(c)
            BY <3>2, <3>3, <3>4, <3>5 DEF CardMoves, CardKept, CardAppears, CardDismissed, CardReplied,
                                          CardMarked, NeedsActivation
        <3> QED BY <3>1, <3>2, <3>6 DEF c
    <2>3. ApprovalsMarked'
        BY <2>2 DEF ApprovalsMarked, Counted, CountedNext
    <2> QED BY <2>1, <2>3
<1> QED BY <1>2, <1>3, <1>4, OpsMove

\* A card that may be approved has no turn that counts.
LEMMA UncountedStep ==
    ASSUME TypeOK, ApprovalInv, [Next]_vars
    PROVE  Uncounted'
<1> SUFFICES ASSUME NEW c \in Cards
             PROVE  /\ CountedNext(c) \in {0, 1}
                    /\ card'[c] \in {"none", "pending", "deleted", "revoked"} \/ NeedsActivation(c)'
                          => CountedNext(c) = 0
    BY DEF Uncounted, Counted, CountedNext
<1>1. /\ Counted(c) \in {0, 1}
      /\ card[c] \in {"none", "pending", "deleted", "revoked"} \/ NeedsActivation(c) => Counted(c) = 0
    BY DEF ApprovalInv, Uncounted
<1>2. activated \subseteq activated'
    BY DEF Next, vars, store, Create, Reply, Pause, Cancel, SetAside, LeaseStep, Watch, Approve,
           BeginApproval, Delete, Revoke, Dismiss, ApproveDue, DropDue, Accept, Finishes, WorkApproved,
           ReceiptActivated, ReceiptReleased, WorkNotApproved, ContinueDone, ContinueFailed,
           WatchDone, WatchFailed, StoreFails, Upset, OtherTurn, TurnEnds, SetTurn, AutoReply,
           Interrupted, Crash
<1>3. CASE CardKept(c)
    BY <1>1, <1>2, <1>3 DEF CardKept, NeedsActivation
<1>4. CASE CardAppears(c) \/ CardDismissed(c) \/ CardReplied(c) \/ CardMarked(c)
    BY <1>1, <1>4 DEF CardAppears, CardDismissed, CardReplied, CardMarked, NeedsActivation
<1>5. CASE CardInjected(c)
    <2>1. PICK i \in Ops : /\ Accept(i) /\ Approves(i, c)
                           /\ card'[c] = card[c] /\ CountedNext(c) = Counted(c) + 1
        BY <1>5 DEF CardInjected
    <2>2. op[i].got = NoTurn
        BY <2>1 DEF Accept
    <2>3. card[c] \in {"approving", "replied"} /\ Counted(c) = 0
        BY <2>1, <2>2 DEF Approves, ApprovalInv, ApprovalsMarked
    <2> QED BY <2>1, <2>3 DEF NeedsActivation
<1>6. CASE CardFinished(c)
    <2>1. PICK i \in Ops :
             /\ Approves(i, c)
             /\ \/ /\ card'[c] = "approved" /\ c \in Work \cup activated'
                   /\ CountedNext(c) = Counted(c)
                \/ CountedNext(c) = IF op[i].got = NoTurn THEN Counted(c) ELSE Counted(c) - 1
        BY <1>6 DEF CardFinished
    <2>2. Counted(c) = IF op[i].got = NoTurn THEN 0 ELSE 1
        BY <2>1 DEF Approves, ApprovalInv, ApprovalsMarked
    <2> QED BY <2>1, <2>2, ReturnCards DEF NeedsActivation
<1> QED BY <1>3, <1>4, <1>5, <1>6, CardsMove DEF CardMoves, ApprovalInv

\* A return card appears with the answer it carries.
LEMMA AutoIsNewStep ==
    ASSUME TypeOK, ApprovalInv, [Next]_vars
    PROVE  AutoIsNew'
<1> SUFFICES ASSUME NEW d \in Autonomous \ autoReplied'
             PROVE  card'[AutoReplyCard(d)] = "none"
    BY DEF AutoIsNew
<1> DEFINE c == AutoReplyCard(d)
<1>1. autoReplied \subseteq autoReplied'
    BY DEF Next, vars, store, Create, Reply, Pause, Cancel, SetAside, LeaseStep, Watch, Approve,
           BeginApproval, Delete, Revoke, Dismiss, ApproveDue, DropDue, Accept, Finishes, WorkApproved,
           ReceiptActivated, ReceiptReleased, WorkNotApproved, ContinueDone, ContinueFailed,
           WatchDone, WatchFailed, StoreFails, Upset, OtherTurn, TurnEnds, SetTurn, AutoReply,
           Interrupted, Crash
<1>2. c \in Cards /\ card[c] = "none"
    BY <1>1, ReturnCards DEF ApprovalInv, AutoIsNew
<1>3. \A i \in Ops : ~Approves(i, c)
    BY <1>2 DEF ApprovalInv, ApprovalsMarked, Approves
<1>4. ~CardAppears(c)
    BY DEF CardAppears
<1>5. CardMoves(c)
    BY <1>2, CardsMove DEF ApprovalInv
<1> QED BY <1>2, <1>3, <1>4, <1>5 DEF CardMoves, CardKept, CardDismissed, CardReplied, CardMarked,
                                      CardInjected, CardFinished, NeedsActivation

\* Every step keeps ApprovalInv.
LEMMA ApprovalStep == TypeOK /\ ApprovalInv /\ [Next]_vars => ApprovalInv'
    BY ApprovalsMarkedStep, UncountedStep, AutoIsNewStep DEF ApprovalInv

-----------------------------------------------------------------------------
(* Leases *)

\* Every step keeps LeaseInv.
LEMMA LeaseInvStep ==
    ASSUME TypeOK, ApprovalInv, LeaseInv, [Next]_vars
    PROVE  LeaseInv'
<1>1. ASSUME NEW c \in Work
      PROVE  /\ lease'[c].st # "none" => card'[c] \in {"approved", "replied"}
             /\ card'[c] = "approved" => lease'[c].st # "none"
             /\ lease'[c].resumeFor # NoTurn => lease'[c].st = "resuming"
    <2>1. /\ lease[c].st # "none" => card[c] \in {"approved", "replied"}
          /\ card[c] = "approved" => lease[c].st # "none"
          /\ lease[c].resumeFor # NoTurn => lease[c].st = "resuming"
        BY DEF LeaseInv, LeaseFollowsCard
    <2>2. LeaseMoves(c) /\ CardMoves(c) /\ c \notin Returns
        BY LeasesMove, CardsMove, ReturnCards DEF ApprovalInv
    <2>3. CASE LeaseKept(c) /\ lease[c].st # "none"
        <3>1. card[c] \in {"approved", "replied"} /\ \A i \in Ops : ~Approves(i, c)
            BY <2>1, <2>3 DEF LeaseInv, LeaseOps, Approves
        <3>2. card'[c] \in {"approved", "replied"}
            BY <3>1, <2>2 DEF CardMoves, CardKept, CardAppears, CardDismissed, CardReplied,
                              CardMarked, CardInjected, CardFinished, NeedsActivation
        <3> QED BY <3>2, <2>1, <2>3 DEF LeaseKept
    <2>4. CASE LeaseKept(c) /\ lease[c].st = "none"
        BY <2>1, <2>4 DEF LeaseKept
    <2>5. CASE LeaseCompleted(c) \/ LeaseStarted(c) \/ LeaseSetAside(c) \/ LeaseResuming(c)
        BY <2>5 DEF LeaseCompleted, LeaseStarted, LeaseSetAside, LeaseResuming
    <2>6. CASE LeaseContinued(c)
        <3>1. lease[c].st # "none"
            BY <2>6 DEF LeaseContinued, LeaseInv, LeaseOps
        <3> QED BY <3>1, <2>1, <2>6 DEF LeaseContinued
    <2> QED BY <2>2, <2>3, <2>4, <2>5, <2>6 DEF LeaseMoves
<1>2. ASSUME NEW c \in Work, lease[c].st # "none" PROVE lease'[c].st # "none"
    <2>1. LeaseMoves(c)
        BY LeasesMove
    <2> QED BY <2>1, <1>2 DEF LeaseMoves, LeaseKept, LeaseCompleted, LeaseStarted, LeaseSetAside,
                              LeaseResuming, LeaseContinued
<1>3. ASSUME NEW i \in Ops, op'[i].kind \in {"continue", "watch"}
      PROVE  lease'[op'[i].card].st # "none"
    <2>1. CASE op[i].kind \in {"continue", "watch"} /\ op'[i].card = op[i].card
        <3>1. op[i].card \in Work /\ lease[op[i].card].st # "none"
            BY <2>1, OperationIs DEF LeaseInv, LeaseOps
        <3> QED BY <3>1, <2>1, <1>2
    <2>2. CASE lease'[op'[i].card].st = "resuming"
        BY <2>2
    <2> QED BY <2>1, <2>2, <1>3, OpsMove
<1>4. ASSUME NEW i \in Ops, op'[i].kind = "approve", op'[i].card \in Work
      PROVE  lease'[op'[i].card].st = "none"
    <2>1. CASE BeginsApproval
        <3>1. PICK c \in Cards, mode \in Modes : BeginApproval(c, mode)
            BY <2>1 DEF BeginsApproval
        <3> DEFINE o == [kind |-> "approve", card |-> c, mode |-> mode, got |-> NoTurn]
        <3>2. PICK j \in Ops : op'[j] = o /\ \A k \in Ops \ {j} : op'[k] = op[k]
            BY <3>1, BeginIs DEF BeginApproval
        <3>3. op'[j].card = c /\ lease' = lease
            BY <3>1, <3>2 DEF BeginApproval
        <3>4. CASE i = j
            <4>1. c \in Work /\ card[c] = "pending"
                BY <3>1, <3>3, <3>4, <1>4, ReturnCards DEF BeginApproval, Approvable, NeedsActivation
            <4> QED BY <4>1, <3>3, <3>4 DEF LeaseInv, LeaseFollowsCard
        <3>5. CASE i # j
            BY <3>2, <3>3, <3>5, <1>4 DEF LeaseInv, LeaseOps
        <3> QED BY <3>4, <3>5
    <2>2. CASE Accepts
        <3>1. PICK j \in Ops : Accept(j)
            BY <2>2 DEF Accepts
        <3>2. op'[i].kind = op[i].kind /\ op'[i].card = op[i].card
            BY <3>1, AcceptIs
        <3> QED BY <3>1, <3>2, <1>4 DEF Accept, store, LeaseInv, LeaseOps
    <2>3. CASE ApprovalsEnd
        <3> DEFINE c == op[i].card
        <3>1. op'[i] = op[i] /\ op[i].kind = "approve" /\ Approves(i, c) /\ c \in Work
            BY <2>3, <1>4 DEF ApprovalsEnd, Approves
        <3>2. card[c] \in {"approving", "replied"} /\ lease[c].st = "none"
            BY <3>1 DEF ApprovalInv, ApprovalsMarked, LeaseInv, LeaseOps
        <3>3. ~LeaseStarted(c)
            <4> SUFFICES ASSUME NEW j \in Ops, Approves(j, c), op'[j] = NoOp PROVE FALSE
                BY DEF LeaseStarted
            <4>1. i = j
                BY <3>1 DEF ApprovalInv, OneApproval
            <4> QED BY <4>1, <3>1 DEF NoOp
        <3>4. ~LeaseContinued(c)
            BY <3>2 DEF LeaseContinued, LeaseInv, LeaseOps
        <3>5. LeaseMoves(c)
            BY <3>1, LeasesMove
        <3>6. LeaseKept(c)
            BY <3>2, <3>3, <3>4, <3>5 DEF LeaseMoves, LeaseCompleted, LeaseSetAside, LeaseResuming
        <3> QED BY <3>1, <3>2, <3>6 DEF LeaseKept
    <2> QED BY <2>1, <2>2, <2>3, OpsMove
<1>5. LeaseFollowsCard'
    BY <1>1 DEF LeaseFollowsCard
<1>6. LeaseOps'
    BY <1>3, <1>4 DEF LeaseOps
<1> QED BY <1>5, <1>6 DEF LeaseInv

-----------------------------------------------------------------------------
(* Types *)

\* A lease that starts or goes on has one more turn.
LEMMA StartedType ==
    ASSUME NEW l \in Leases, NEW t \in Turns
    PROVE  StartedLease(l, t) \in Leases /\ StartedLease(l, t).turns = l.turns \cup {t}
    BY DEF StartedLease, Leases

LEMMA ContinuedType ==
    ASSUME NEW l \in Leases, NEW t \in Turns
    PROVE  Continued(l, t) \in Leases /\ Continued(l, t).turns = l.turns \cup {t}
    BY DEF Continued, Leases

\* The watchdog leaves it paused for itself.
LEMMA PausedType ==
    ASSUME NEW l \in Leases
    PROVE  [l EXCEPT !.paused = TRUE] \in Leases /\ [l EXCEPT !.paused = TRUE].turns = l.turns
<1>1. [l EXCEPT !.paused = TRUE] \in Leases
    BY DEF Leases
<1>2. [l EXCEPT !.paused = TRUE].turns = l.turns
    BY DEF Leases
<1> QED BY <1>1, <1>2

\* Changing the lease of an approved card keeps the types, if the lease keeps
\* the turns it had.
LEMMA LeaseStepTypes ==
    ASSUME TypeOK, LeaseInv, NEW c \in Work, NEW l \in Leases, LeaseStep(c, l),
           lease[c].turns \subseteq l.turns, lease[c].st # "none",
           op' \in [Ops -> Operations],
           UNCHANGED <<due, turn, history>>, upsets' \in 0..MaxUpsets
    PROVE  TypeOK'
<1>1. lease \in [Work -> Leases] /\ lease' = [lease EXCEPT ![c] = l]
    BY DEF TypeOK, LeaseStep
<1>2. lease' \in [Work -> Leases]
    BY <1>1
<1>3. injected[c] \in l.turns
    BY DEF TypeOK
<1>4. \A d \in Work : lease'[d].st # "none" => injected[d] \in lease'[d].turns
    BY <1>1, <1>3 DEF TypeOK
<1> QED BY <1>2, <1>4 DEF TypeOK, LeaseStep, history

\* The end of an operation keeps the types.
LEMMA FinishType ==
    ASSUME TypeOK, ApprovalInv, LeaseInv, NEW i \in Ops, Finishes(i)
    PROVE  TypeOK'
<1> DEFINE a == op[i].card
<1>1. /\ card \in [Cards -> {"none", "pending", "approving", "approved", "replied", "deleted", "revoked"}]
      /\ lease \in [Work -> Leases] /\ injected \in [Work -> Turns \cup {NoTurn}]
      /\ injections \in [Cards -> Nat] /\ Cards = Work \cup Returns
    BY ReturnCards DEF TypeOK
<1>2. op' \in [Ops -> Operations] /\ UNCHANGED <<due, turn, injections>>
    BY FinishIs DEF Finishes, WorkApproved, ReceiptActivated, ReceiptReleased, WorkNotApproved,
                    ContinueDone, ContinueFailed, WatchDone, WatchFailed, Finish, Failed, Ends, history
<1>3. CASE WorkApproved(i)
    <2> DEFINE t == op[i].got
    <2>1. op[i].kind = "approve" /\ a \in Work /\ t \in Turns
        BY <1>3 DEF WorkApproved, ApprovalInv, ApprovalsMarked
    <2>2. card' = [card EXCEPT ![a] = "approved"] /\ granted' \in BOOLEAN
        BY <1>3 DEF WorkApproved, Approved, TypeOK
    <2>3. injected' = [injected EXCEPT ![a] = t] /\ lease' = [lease EXCEPT ![a] = StartedLease(lease[a], t)]
        BY <1>3 DEF WorkApproved
    <2>4. StartedLease(lease[a], t) \in Leases /\ t \in StartedLease(lease[a], t).turns
        BY <2>1, <1>1, StartedType
    <2>5. leases' \in Seq(Work)
        BY <1>3, <2>1 DEF WorkApproved, TypeOK
    <2>6. card' \in [Cards -> {"none", "pending", "approving", "approved", "replied", "deleted", "revoked"}]
        BY <2>1, <2>2, <1>1
    <2> HIDE DEF a, t
    <2>7. /\ injected' \in [Work -> Turns \cup {NoTurn}] /\ lease' \in [Work -> Leases]
          /\ \A d \in Work : lease'[d].st # "none" => injected'[d] \in lease'[d].turns
        BY <2>1, <2>3, <2>4, <1>1 DEF TypeOK
    <2> QED BY <1>2, <1>3, <2>2, <2>5, <2>6, <2>7 DEF WorkApproved, Finish, history, TypeOK
<1>4. CASE ReceiptActivated(i) \/ ReceiptReleased(i)
    <2>1. a \in Returns /\ op[i].kind = "approve" /\ card' = [card EXCEPT ![a] = "approved"]
          /\ granted' \in BOOLEAN
        BY <1>4 DEF ReceiptActivated, ReceiptReleased, Receipt, Approved, TypeOK
    <2>2. activated' \subseteq Returns
        BY <1>4, <2>1 DEF ReceiptActivated, ReceiptReleased, TypeOK
    <2>3. lost' \in [Cards -> Nat] /\ upsets' \in 0..MaxUpsets
        BY <2>1, <1>4, FailureCounts DEF ReceiptActivated, ReceiptReleased, Finish, history, TypeOK
    <2>4. card' \in [Cards -> {"none", "pending", "approving", "approved", "replied", "deleted", "revoked"}]
        BY <2>1, <1>1
    <2> QED BY <1>2, <1>4, <2>1, <2>2, <2>3, <2>4 DEF ReceiptActivated, ReceiptReleased, TypeOK
<1>5. CASE WorkNotApproved(i)
    <2>1. a \in Work /\ op[i].kind = "approve" /\ card' = Restored(a)
        BY <1>5 DEF WorkNotApproved
    <2>2. lost' \in [Cards -> Nat] /\ upsets' \in 0..MaxUpsets
        BY <2>1, <1>5, FailureCounts DEF WorkNotApproved
    <2>3. card' \in [Cards -> {"none", "pending", "approving", "approved", "replied", "deleted", "revoked"}]
        BY <2>1, <1>1 DEF Restored
    <2> QED BY <1>2, <1>5, <2>2, <2>3 DEF WorkNotApproved, TypeOK
<1>6. ASSUME op[i].kind \in {"continue", "watch"}, NEW l \in Leases, LeaseStep(a, l),
             lease[a].turns \subseteq l.turns, UNCHANGED <<upsets, history>>
      PROVE  TypeOK'
    <2>1. a \in Work /\ lease[a].st # "none"
        BY <1>6, OperationIs DEF LeaseInv, LeaseOps
    <2>2. upsets' \in 0..MaxUpsets
        BY <1>6 DEF TypeOK
    <2> QED BY <2>1, <2>2, <1>2, <1>6, LeaseStepTypes
<1>7. CASE ContinueDone(i) \/ WatchDone(i)
    <2>1. /\ op[i].kind \in {"continue", "watch"} /\ a \in Work /\ op[i].got \in Turns
          /\ UNCHANGED <<upsets, history>>
        BY <1>7, OperationIs DEF ContinueDone, WatchDone, Finish
    <2>2. lease[a] \in Leases
        BY <2>1, <1>1
    <2>3. PICK l \in Leases : LeaseStep(a, l) /\ lease[a].turns \subseteq l.turns
        <3> DEFINE l1 == Continued(lease[a], op[i].got)
                   l2 == [l1 EXCEPT !.paused = TRUE]
                   l3 == IF ~StillWatched(a) THEN lease[a] ELSE l2
        <3>1. l1 \in Leases /\ lease[a].turns \subseteq l1.turns
            BY <2>1, <2>2, ContinuedType
        <3>2. LeaseStep(a, l1) \/ LeaseStep(a, l3)
            BY <1>7 DEF ContinueDone, WatchDone
        <3> HIDE DEF l1
        <3>4. l2 \in Leases /\ lease[a].turns \subseteq l2.turns
            BY <3>1, PausedType
        <3> HIDE DEF l2
        <3>3. l3 \in Leases /\ lease[a].turns \subseteq l3.turns
            BY <3>4, <2>2
        <3> HIDE DEF l3
        <3> QED BY <3>1, <3>2, <3>3
    <2> QED BY <2>1, <2>3, <1>6
<1>8. CASE ContinueFailed(i) \/ WatchFailed(i)
    <2>1. op[i].kind \in {"continue", "watch"} /\ a \in Work
          /\ UNCHANGED <<upsets, history>>
        BY <1>8, OperationIs DEF ContinueFailed, WatchFailed, Finish
    <2>2. lease[a] \in Leases
        BY <2>1, <1>1
    <2>3. PICK l \in Leases : LeaseStep(a, l) /\ lease[a].turns \subseteq l.turns
        <3> DEFINE l1 == [lease[a] EXCEPT !.st = "active", !.resumeFor = NoTurn]
                   l2 == [lease[a] EXCEPT !.st = "blocked", !.resumeFor = NoTurn]
                   l3 == IF lease[a].resumeFor # op[i].for THEN lease[a] ELSE l1
                   l4 == IF ~StillWatched(a) THEN lease[a] ELSE l2
        <3>1. /\ l1 \in Leases /\ l1.turns = lease[a].turns
              /\ l2 \in Leases /\ l2.turns = lease[a].turns
            BY <2>2 DEF Leases
        <3>2. LeaseStep(a, l3) \/ LeaseStep(a, l4)
            BY <1>8 DEF ContinueFailed, WatchFailed
        <3> HIDE DEF l1, l2
        <3>3. /\ l3 \in Leases /\ lease[a].turns \subseteq l3.turns
              /\ l4 \in Leases /\ lease[a].turns \subseteq l4.turns
            BY <3>1, <2>2
        <3> HIDE DEF l3, l4
        <3> QED BY <3>2, <3>3
    <2> QED BY <2>1, <2>3, <1>6
<1> QED BY <1>3, <1>4, <1>5, <1>7, <1>8 DEF Finishes

\* Every step keeps the types.
LEMMA TypeStep == TypeOK /\ ApprovalInv /\ LeaseInv /\ [Next]_vars => TypeOK'
<1> SUFFICES ASSUME TypeOK, ApprovalInv, LeaseInv, [Next]_vars PROVE TypeOK'
    OBVIOUS
<1>1. /\ card \in [Cards -> {"none", "pending", "approving", "approved", "replied", "deleted", "revoked"}]
      /\ lease \in [Work -> Leases] /\ injections \in [Cards -> Nat] /\ op \in [Ops -> Operations]
      /\ due \subseteq Cards \X {"automatic", "direct"} /\ turn \in [Turns -> {"unused", "running", "ended", "past"}]
      /\ upsets \in 0..MaxUpsets /\ MaxUpsets \in Nat /\ Cards = Work \cup Returns
    BY ReturnCards, TaskCardsAssumption DEF TypeOK
<1>2. CASE UNCHANGED vars
    BY <1>2 DEF vars, store, history, TypeOK
<1>3. ASSUME NEW c \in Work, NEW direct \in BOOLEAN, Create(c, direct) PROVE TypeOK'
    <2>1. card' \in [Cards -> {"none", "pending", "approving", "approved", "replied", "deleted", "revoked"}]
        BY <1>1, <1>3 DEF Create
    <2>2. due' \subseteq Cards \X {"automatic", "direct"}
        BY <1>1, <1>3 DEF Create
    <2> QED BY <2>1, <2>2, <1>3 DEF Create, history, TypeOK
<1>4. ASSUME NEW c \in Cards, Delete(c) \/ Revoke(c) PROVE TypeOK'
    <2>1. card' \in [Cards -> {"none", "pending", "approving", "approved", "replied", "deleted", "revoked"}]
        BY <1>1, <1>4 DEF Delete, Revoke, Dismiss
    <2> QED BY <2>1, <1>4 DEF Delete, Revoke, Dismiss, history, TypeOK
<1>5. ASSUME NEW c \in Answering, Reply(c) PROVE TypeOK'
    <2> DEFINE r == ReplyCard(c)
               l == [lease[c] EXCEPT !.st = "completed", !.resumeFor = NoTurn]
    <2>1. c \in Work /\ r \in Cards
        BY ReturnCards
    <2>2. l \in Leases /\ l.turns = lease[c].turns
        BY <2>1, <1>1 DEF Leases
    <2>3. lease' = [lease EXCEPT ![c] = IF card[c] = "replied" \/ lease[c].st = "none"
                                        THEN lease[c] ELSE l]
        BY <1>5 DEF Reply
    <2>4. due' \subseteq Cards \X {"automatic", "direct"}
        BY <1>1, <1>5, <2>1 DEF Reply
    <2>5. card' \in [Cards -> {"none", "pending", "approving", "approved", "replied", "deleted", "revoked"}]
        BY <1>1, <1>5 DEF Reply
    <2>6. replied' \subseteq Answering
        BY <1>5 DEF Reply, history, TypeOK
    <2> HIDE DEF l
    <2>7. lease' \in [Work -> Leases]
        BY <2>2, <2>3, <1>1
    <2>8. \A d \in Work : lease'[d].st # "none" => injected[d] \in lease'[d].turns
        BY <2>2, <2>3, <1>1 DEF TypeOK
    <2> QED BY <2>4, <2>5, <2>6, <2>7, <2>8, <1>5 DEF Reply, history, TypeOK
<1>6. ASSUME NEW c \in Cards, NEW mode \in Modes, BeginApproval(c, mode), due' \subseteq due
      PROVE  TypeOK'
    <2> DEFINE o == [kind |-> "approve", card |-> c, mode |-> mode, got |-> NoTurn]
    <2>1. o \in Operations
        BY DEF Operations
    <2>2. Begin(o) /\ card' = [card EXCEPT ![c] = "approving"]
        BY <1>6 DEF BeginApproval, Marked
    <2> HIDE DEF o
    <2>3. op' \in [Ops -> Operations]
        BY <2>1, <2>2, BeginIs
    <2>4. card' \in [Cards -> {"none", "pending", "approving", "approved", "replied", "deleted", "revoked"}]
        BY <2>2, <1>1
    <2>5. due' \subseteq Cards \X {"automatic", "direct"}
        BY <1>1, <1>6
    <2> QED BY <2>3, <2>4, <2>5, <1>6 DEF BeginApproval, history, TypeOK
<1>7. ASSUME NEW d \in due, ApproveDue(d) \/ DropDue(d) PROVE TypeOK'
    <2>1. d[1] \in Cards /\ d[2] \in Modes
        BY DEF TypeOK, Modes
    <2>2. CASE ApproveDue(d)
        BY <2>1, <2>2, <1>6 DEF ApproveDue
    <2>3. CASE DropDue(d)
        BY <2>3 DEF DropDue, store, history, TypeOK
    <2> QED BY <1>7, <2>2, <2>3
<1>8. ASSUME NEW c \in Cards, Approve(c) PROVE TypeOK'
    BY <1>8, <1>6 DEF Approve, Modes
<1>9. ASSUME NEW i \in Ops, Accept(i) PROVE TypeOK'
    <2>1. op' \in [Ops -> Operations]
        BY <1>9, AcceptIs
    <2>2. injections' \in [Cards -> Nat]
        BY <1>1, <1>9, OperationIs DEF Accept
    <2>3. turn' \in [Turns -> {"unused", "running", "ended", "past"}]
        BY <1>1, <1>9 DEF Accept
    <2> QED BY <2>1, <2>2, <2>3, <1>9 DEF Accept, store, history, TypeOK
<1>10. ASSUME NEW c \in Work, NEW l \in Leases, NEW o \in Operations, CanOwn(c),
              LeaseStep(c, l), l.turns = lease[c].turns, op' = op \/ Begin(o),
              UNCHANGED <<due, turn, upsets, history>>
       PROVE  TypeOK'
    <2>1. op' \in [Ops -> Operations]
        BY <1>1, <1>10, BeginIs
    <2>2. lease[c].st # "none"
        BY <1>10 DEF CanOwn, LeaseInv, LeaseFollowsCard
    <2> QED BY <2>1, <2>2, <1>1, <1>10, LeaseStepTypes
<1>11. ASSUME NEW c \in Work, Pause(c) \/ Cancel(c) PROVE TypeOK'
    <2>1. PICK st \in {"paused", "cancelled"} : SetAside(c, st)
        BY <1>11 DEF Pause, Cancel
    <2> DEFINE l == [lease[c] EXCEPT !.st = st, !.resumeFor = NoTurn]
    <2>2. l \in Leases /\ l.turns = lease[c].turns
        BY <1>1 DEF Leases
    <2>3. CanOwn(c) /\ LeaseStep(c, l) /\ op' = op /\ UNCHANGED <<due, turn, upsets, history>>
        BY <2>1 DEF SetAside
    <2>4. NoOp \in Operations
        BY DEF Operations
    <2> HIDE DEF l
    <2> QED BY <2>2, <2>3, <2>4, <1>10
<1>12. ASSUME NEW c \in Work, Watch(c) PROVE TypeOK'
    <2> DEFINE l == [lease[c] EXCEPT !.st = "resuming", !.resumeFor = Watchdog]
               o == [kind |-> "watch", card |-> c, got |-> NoTurn]
    <2>1. l \in Leases /\ l.turns = lease[c].turns /\ o \in Operations
        BY <1>1 DEF Leases, Operations
    <2>2. CanOwn(c) /\ LeaseStep(c, l) /\ Begin(o) /\ UNCHANGED <<due, turn, upsets, history>>
        BY <1>12 DEF Watch, Stale
    <2> HIDE DEF l, o
    <2> QED BY <2>1, <2>2, <1>10
<1>13. ASSUME NEW t \in Turns, Interrupted(t) PROVE TypeOK'
    <2>1. PICK k \in DOMAIN leases :
             /\ leases[k] \in Interrupts(t)
             /\ LeaseStep(leases[k], [lease[leases[k]] EXCEPT !.st = "resuming", !.resumeFor = t,
                                                              !.lastInterrupted = t])
             /\ Begin([kind |-> "continue", card |-> leases[k], for |-> t, got |-> NoTurn])
        BY <1>13 DEF Interrupted
    <2> DEFINE c == leases[k]
               l == [lease[c] EXCEPT !.st = "resuming", !.resumeFor = t, !.lastInterrupted = t]
               o == [kind |-> "continue", card |-> c, for |-> t, got |-> NoTurn]
    <2>2. c \in Work /\ CanOwn(c)
        BY <2>1 DEF Interrupts
    <2>3. l \in Leases /\ l.turns = lease[c].turns /\ o \in Operations
        <3>1. lease[c] \in Leases
            BY <2>2, <1>1
        <3> HIDE DEF c
        <3> QED BY <2>2, <3>1 DEF Leases, Operations
    <2>4. LeaseStep(c, l) /\ Begin(o) /\ UNCHANGED <<due, turn, upsets, history>>
        BY <2>1, <1>13 DEF Interrupted
    <2> HIDE DEF c, l, o
    <2> QED BY <2>2, <2>3, <2>4, <1>10
<1>14. ASSUME NEW t \in Turns, AutoReply(t) PROVE TypeOK'
    <2>1. PICK c \in Autonomous :
             /\ card' = [card EXCEPT ![AutoReplyCard(c)] = "pending"]
             /\ autoReplied' = autoReplied \cup {c}
             /\ due' = due \cup {<<AutoReplyCard(c), "automatic">>}
        BY <1>14 DEF AutoReply
    <2>2. AutoReplyCard(c) \in Cards
        BY ReturnCards
    <2>3. card' \in [Cards -> {"none", "pending", "approving", "approved", "replied", "deleted", "revoked"}]
        BY <2>1, <1>1
    <2>4. due' \subseteq Cards \X {"automatic", "direct"}
        BY <2>1, <2>2, <1>1
    <2>5. autoReplied' \subseteq Autonomous
        BY <2>1 DEF TypeOK
    <2> QED BY <2>3, <2>4, <2>5, <1>14 DEF AutoReply, history, TypeOK
<1>15. ASSUME NEW t \in Turns, OtherTurn(t) \/ TurnEnds(t) PROVE TypeOK'
    <2>1. turn' \in [Turns -> {"unused", "running", "ended", "past"}]
        BY <1>1, <1>15 DEF OtherTurn, TurnEnds, SetTurn
    <2> QED BY <2>1, <1>15 DEF OtherTurn, TurnEnds, SetTurn, store, history, TypeOK
<1>16. ASSUME NEW i \in Ops, StoreFails(i) PROVE TypeOK'
    <2>1. op' \in [Ops -> Operations] /\ upsets' \in 0..MaxUpsets
        <3>1. op' = [op EXCEPT ![i] = NoOp] /\ upsets < MaxUpsets /\ upsets' = upsets + 1
            BY <1>16 DEF StoreFails, Upset
        <3>2. op' \in [Ops -> Operations]
            BY <3>1, FinishIs
        <3>3. upsets' \in 0..MaxUpsets
            BY <3>1, <1>1
        <3> QED BY <3>2, <3>3
    <2> QED BY <2>1, <1>16 DEF StoreFails, Upset, store, history, TypeOK
<1>17. CASE Crash
    <2>1. op' \in [Ops -> Operations] /\ upsets' \in 0..MaxUpsets
        BY <1>1, <1>17 DEF Crash, Upset, Operations
    <2>2. due' = {} /\ turn' \in [Turns -> {"unused", "running", "ended", "past"}]
        BY <1>1, <1>17 DEF Crash
    <2> QED BY <2>1, <2>2, <1>17 DEF Crash, Upset, store, history, TypeOK
<1>18. ASSUME NEW i \in Ops, Finishes(i) PROVE TypeOK'
    BY <1>18, FinishType
<1> QED BY <1>2, <1>3, <1>4, <1>5, <1>7, <1>8, <1>9, <1>11, <1>12, <1>13, <1>14, <1>15, <1>16,
           <1>17, <1>18 DEF Next

\* The initial state.
LEMMA InitInv == Init => TypeOK /\ ApprovalInv /\ LeaseInv
<1> SUFFICES ASSUME Init PROVE TypeOK /\ ApprovalInv /\ LeaseInv
    OBVIOUS
<1>1. NoLease \in Leases /\ NoLease.st = "none" /\ NoLease.resumeFor = NoTurn
    BY DEF NoLease, Leases
<1>2. NoOp \in Operations /\ NoOp.kind = "none"
    BY DEF NoOp, Operations
<1>3. TypeOK
    <2>1. <<>> \in Seq(Work)
        OBVIOUS
    <2>2. lease \in [Work -> Leases] /\ \A c \in Work : lease[c].st = "none"
        BY <1>1 DEF Init
    <2>3. op \in [Ops -> Operations]
        BY <1>2 DEF Init
    <2>4. upsets \in 0..MaxUpsets
        BY TaskCardsAssumption DEF Init
    <2>5. due \subseteq Cards \X {"automatic", "direct"}
        BY DEF Init
    <2> QED BY <2>1, <2>2, <2>3, <2>4, <2>5 DEF Init, TypeOK
<1>4. ApprovalInv
    <2>1. \A c \in Autonomous : AutoReplyCard(c) \in Cards
        BY ReturnCards
    <2>2. \A c \in Cards : Counted(c) = 0
        BY DEF Init, Counted
    <2> QED BY <2>1, <2>2, <1>2 DEF Init, ApprovalInv, ApprovalsMarked, OneApproval, Uncounted, AutoIsNew
<1>5. LeaseInv
    BY <1>1, <1>2, ReturnCards DEF Init, LeaseInv, LeaseFollowsCard, LeaseOps
<1> QED BY <1>3, <1>4, <1>5

\* The three invariants hold together in every reachable state.
LEMMA Invariant == Spec => [](TypeOK /\ ApprovalInv /\ LeaseInv)
<1>1. TypeOK /\ ApprovalInv /\ LeaseInv /\ [Next]_vars => (TypeOK /\ ApprovalInv /\ LeaseInv)'
    BY TypeStep, ApprovalStep, LeaseInvStep
<1> QED BY InitInv, <1>1, PTL DEF Spec

-----------------------------------------------------------------------------
(* Theorems *)

\* Every variable has its type in every reachable state.
THEOREM TypeCorrect == Spec => []TypeOK
    BY Invariant, PTL

\* However its approvals race, a card is injected once, and once more for
\* every time its turn was reported as failed.
THEOREM OneTurnPerApprovalHolds == Spec => []OneTurnPerApproval
<1>1. TypeOK /\ ApprovalInv => OneTurnPerApproval
    <2> SUFFICES ASSUME TypeOK, ApprovalInv, NEW c \in Cards PROVE injections[c] <= lost[c] + 1
        BY DEF OneTurnPerApproval
    <2>1. injections[c] \in Nat /\ lost[c] \in Nat /\ injections[c] - lost[c] \in {0, 1}
        BY DEF TypeOK, ApprovalInv, Uncounted, Counted
    <2> QED BY <2>1
<1> QED BY <1>1, Invariant, PTL

\* A card that was deleted or revoked, or is offered (again), has only turns
\* that were reported as failed, and no approval that may still start one.
THEOREM DismissedNotInjectedHolds == Spec => []DismissedNotInjected
<1>1. TypeOK /\ ApprovalInv => DismissedNotInjected
    <2> SUFFICES ASSUME TypeOK, ApprovalInv, NEW c \in Cards,
                        card[c] \in {"pending", "deleted", "revoked"}
                 PROVE  /\ injections[c] = lost[c]
                        /\ \A i \in Busy : op[i].kind = "approve" => op[i].card # c
        BY DEF DismissedNotInjected
    <2>1. injections[c] \in Nat /\ lost[c] \in Nat /\ injections[c] - lost[c] = 0
        BY DEF TypeOK, ApprovalInv, Uncounted, Counted
    <2>2. \A i \in Busy : op[i].kind = "approve" => op[i].card # c
        BY DEF ApprovalInv, ApprovalsMarked, Busy
    <2> QED BY <2>1, <2>2
<1> QED BY <1>1, Invariant, PTL

\* A dismissed card stays dismissed; an answered one is not offered again, though
\* the approval that was under way may still be recorded.
THEOREM SettledStaysHolds == Spec => SettledStays
<1>1. ASSUME TypeOK, ApprovalInv, [Next]_vars, NEW c \in Cards
      PROVE  /\ card[c] \in {"deleted", "revoked"} => card'[c] = card[c]
             /\ card[c] = "replied" =>
                  \/ card'[c] = "replied"
                  \/ /\ card'[c] = "approved"
                     /\ \E i \in Busy : /\ op[i].kind = "approve" /\ op[i].card = c
                                       /\ op'[i] = NoOp
    <2>1. CardMoves(c)
        BY <1>1, CardsMove DEF ApprovalInv
    <2>2. CASE CardFinished(c)
        <3>1. PICK i \in Ops :
                 /\ Approves(i, c) /\ op'[i] = NoOp
                 /\ card'[c] \in {"approved", IF card[c] = "approving" THEN "pending" ELSE card[c]}
            BY <2>2 DEF CardFinished
        <3>2. i \in Busy /\ card[c] \in {"approving", "replied"}
            BY <3>1, <1>1 DEF Approves, Busy, ApprovalInv, ApprovalsMarked
        <3> QED BY <3>1, <3>2 DEF Approves
    <2>3. CASE CardKept(c) \/ CardAppears(c) \/ CardDismissed(c) \/ CardReplied(c)
               \/ CardMarked(c) \/ CardInjected(c)
        BY <2>3 DEF CardKept, CardAppears, CardDismissed, CardReplied, CardMarked, CardInjected,
                    NeedsActivation
    <2> QED BY <2>1, <2>2, <2>3 DEF CardMoves
<1>2. TypeOK /\ ApprovalInv /\ [Next]_vars =>
         [\A c \in Cards :
             /\ card[c] \in {"deleted", "revoked"} => card'[c] = card[c]
             /\ card[c] = "replied" =>
                  \/ card'[c] = "replied"
                  \/ /\ card'[c] = "approved"
                     /\ \E i \in Busy : /\ op[i].kind = "approve" /\ op[i].card = c
                                       /\ op'[i] = NoOp]_vars
    BY <1>1
<1> QED BY <1>2, Invariant, PTL DEF Spec, SettledStays

\* Only a continuation revives a lease that was completed, paused or cancelled
\* while its turn was being started: the watchdog does not.
THEOREM WatchdogYieldsHolds == Spec => WatchdogYields
<1>1. ASSUME TypeOK, LeaseInv, [Next]_vars, NEW c \in Work,
             lease[c].st \in {"completed", "paused", "cancelled"},
             lease'[c].st \in {"active", "resuming", "blocked"}
      PROVE  \E i \in Busy : op[i].kind = "continue" /\ op[i].card = c /\ op'[i] = NoOp
    <2>1. LeaseMoves(c) /\ lease[c].resumeFor = NoTurn
        BY <1>1, LeasesMove DEF LeaseInv, LeaseFollowsCard
    <2>2. ~LeaseStarted(c)
        BY <1>1 DEF LeaseStarted, Approves, LeaseInv, LeaseOps
    <2>3. LeaseContinued(c)
        BY <2>1, <2>2, <1>1 DEF LeaseMoves, LeaseKept, LeaseCompleted, LeaseSetAside, LeaseResuming
    <2> QED BY <2>1, <2>3 DEF LeaseContinued, Busy, NoTurn, Watchdog
<1>2. TypeOK /\ LeaseInv /\ [Next]_vars =>
         [\A c \in Work :
             (/\ lease[c].st \in {"completed", "paused", "cancelled"}
              /\ lease'[c].st \in {"active", "resuming", "blocked"})
             => \E i \in Busy : /\ op[i].kind = "continue" /\ op[i].card = c
                               /\ op'[i] = NoOp]_vars
    BY <1>1
<1> QED BY <1>2, Invariant, PTL DEF Spec, WatchdogYields
=============================================================================
