----------------------- MODULE VoxSparkDeliveryProofs -----------------------
(***************************************************************************)
(* VoxSparkQueue implements DraftDelivery, for any drafts, pages and       *)
(* bounds, over failed saves and restarts.                                 *)
(*                                                                         *)
(* The lemmas of VoxSparkQueueProofs say how an entry moves, how far the   *)
(* disk is behind, and that what is called sent was sent.  What is added   *)
(* here: an entry that has expired stays so, although a restart reads it   *)
(* back from a disk that may have it in any state (GoneInv), and an entry  *)
(* comes under a lease in a claim alone, while no other is (ClaimLeases).  *)
(***************************************************************************)
EXTENDS VoxSparkQueueProofs

-----------------------------------------------------------------------------
(* Expired entries *)

\* An expired entry is past its time, and the disk knows it in some state: a
\* restart expires it again.
GoneInv == \A e \in Entries :
    queue[e].status = "expired" => e \in old /\ disk[e].status # "absent"

\* Trimming leases nothing, and expires only what is past its time.
LEMMA TrimOrigin ==
    ASSUME NEW q \in Queues, NEW e \in Entries
    PROVE  /\ Trim(q)[e].status = "leased" => q[e].status = "leased"
           /\ Trim(q)[e].status = "expired" => q[e].status = "expired" \/ e \in old
<1>1. q[e] \in EntryStates
    BY DEF Queues
<1>2. \/ Trim(q)[e] = q[e]
      \/ e \in old /\ Trim(q)[e].status = "expired"
      \/ Trim(q)[e].status = "unknown"
    BY <1>1 DEF Trim, Expired, EntryStates
<1> QED BY <1>2

\* What an operation makes of the entry it is about.
LEMMA OperationOrigin ==
    ASSUME NEW e \in Entries, NEW s \in EntryStates
    PROVE  /\ \A outcome \in Answers : Reported(s, outcome).status \notin {"leased", "expired"}
           /\ \A retry \in BOOLEAN : Recovered(e, s, retry).status \notin {"leased", "expired"}
           /\ [s EXCEPT !.status = "cancelled", !.body = FALSE].status = "cancelled"
<1>1. ASSUME NEW outcome \in Answers
      PROVE  Reported(s, outcome).status \notin {"leased", "expired"}
    BY DEF Reported, EntryStates, Answers
<1>2. ASSUME NEW retry \in BOOLEAN
      PROVE  Recovered(e, s, retry).status \notin {"leased", "expired"}
    <2>1. Recovered(e, s, retry).status \in {"submitted", "queued", "unknown"}
        BY DEF Recovered, EntryStates
    <2> QED BY <2>1
<1> QED BY <1>1, <1>2 DEF EntryStates

\* Entry e is leased, or expired, only if it was, or its time is up.
Stays(e) ==
    /\ queue'[e].status = "leased" => queue[e].status = "leased"
    /\ queue'[e].status = "expired" => queue[e].status = "expired" \/ e \in old

\* An operation that leases and expires nothing itself, saved or not.
LEMMA OperationStays ==
    ASSUME TypeOK, NEW d \in Entries, NEW t, t.status \notin {"leased", "expired"},
           Saved([Trim(queue) EXCEPT ![d] = t]) \/ NotSaved(Trim(queue)),
           NEW e \in Entries
    PROVE  Stays(e)
<1> DEFINE q == Trim(queue)
<1>1. queue \in Queues /\ q \in Queues
    BY TrimType DEF TypeOK
<1>2. /\ q[e].status = "leased" => queue[e].status = "leased"
      /\ q[e].status = "expired" => queue[e].status = "expired" \/ e \in old
    BY <1>1, TrimOrigin
<1>3. queue' = [q EXCEPT ![d] = t] \/ queue' = q
    BY DEF Saved, NotSaved
<1> HIDE DEF q
<1>4. queue'[e] = q[e] \/ queue'[e] = t
    BY <1>1, <1>3 DEF Queues
<1> QED BY <1>2, <1>4 DEF Stays

\* Outside of a claim no entry comes under a lease, and only the time of an
\* entry makes it expire.
LEMMA StepStays ==
    ASSUME TypeOK, LagInv, [Next]_vars, NEW e \in Entries,
           ~\E p \in Pages, d \in Entries, mode \in Modes : Claim(p, d, mode)
    PROVE  Stays(e)
<1> DEFINE q == Trim(queue)
<1>1. queue \in Queues /\ q \in Queues /\ disk[e] \in EntryStates
    BY TrimType DEF TypeOK, Queues
<1>2. CASE UNCHANGED queue
    BY <1>2 DEF Stays
<1>3. CASE UNCHANGED vars \/ TurnEnds \/ OtherTurn \/ TimeStep
    BY <1>2, <1>3 DEF vars, queueVars, TurnEnds, OtherTurn, TimeStep, LeaseRunsOut,
                      EntryAges, TargetExpires
<1>4. CASE \E k \in DOMAIN attempts : PostStep(k)
    BY <1>2, <1>4 DEF PostStep, Reject, Join, Recall, Begin, Perform, Succeed, Fail,
                      queueVars
<1>5. CASE Refused
    BY <1>5, <1>1, TrimOrigin DEF Refused, NotSaved, Stays
<1>6. ASSUME NEW d \in Entries, Enqueue(d) PROVE Stays(e)
    <2> DEFINE t == [status |-> "queued", body |-> TRUE, lease |-> 0]
    <2>1. t.status \notin {"leased", "expired"}
        OBVIOUS
    <2>2. Saved([q EXCEPT ![d] = t]) \/ NotSaved(q)
        BY <1>6 DEF Enqueue
    <2> HIDE DEF t
    <2> QED BY <2>1, <2>2, OperationStays
<1>7. ASSUME NEW p \in Pages, PageStep(p) PROVE Stays(e)
    <2>1. CASE Send(p) \/ Abandon(p) \/ Receive(p) \/ NetError(p) \/ Reload(p)
        BY <2>1, <1>2 DEF Send, Abandon, Receive, NetError, Reload, queueVars
    <2>2. ASSUME NEW d \in Entries, NEW retry \in BOOLEAN, Recover(p, d, retry)
          PROVE  Stays(e)
        <3> DEFINE t == Recovered(d, q[d], retry)
        <3>1. t.status \notin {"leased", "expired"}
            BY <1>1, OperationOrigin DEF Queues
        <3>2. Saved([q EXCEPT ![d] = t]) \/ NotSaved(q)
            BY <2>2 DEF Recover
        <3> HIDE DEF t
        <3> QED BY <3>1, <3>2, OperationStays
    <2>3. ASSUME NEW d \in Entries, Cancel(p, d) PROVE Stays(e)
        <3> DEFINE c == [q[d] EXCEPT !.status = "cancelled", !.body = FALSE]
                   t == IF q[d].status = "failed" /\ ledger[d] # "missing"
                        THEN Recovered(d, q[d], FALSE) ELSE c
        <3>1. c.status = "cancelled"
              /\ Recovered(d, q[d], FALSE).status \notin {"leased", "expired"}
            BY <1>1, OperationOrigin DEF Queues
        <3>2. Saved([q EXCEPT ![d] = t]) \/ NotSaved(q)
            BY <2>3 DEF Cancel
        <3> HIDE DEF c
        <3>3. t.status \notin {"leased", "expired"}
            BY <3>1
        <3> HIDE DEF t
        <3> QED BY <3>2, <3>3, OperationStays
    <2>4. CASE Complete(p)
        <3> DEFINE k == page[p].lease
                   d == attempts[k].entry
                   t == Reported(q[d], page[p].outcome)
        <3>1. d \in Entries /\ page[p].outcome \in Answers
            <4>1. /\ k \in DOMAIN attempts /\ attempts \in Seq(Attempts)
                  /\ page[p] \in PageStates /\ page[p].stage = "reporting"
                BY <2>4 DEF Complete, TypeOK
            <4>2. attempts[k] \in Attempts
                BY <4>1
            <4> QED BY <4>1, <4>2 DEF Attempts, PageStates
        <3>2. t.status \notin {"leased", "expired"}
            BY <3>1, <1>1, OperationOrigin DEF Queues
        <3>3. Saved([q EXCEPT ![d] = t]) \/ NotSaved(q)
            BY <2>4, <1>1, <3>1 DEF Complete, Queues
        <3> HIDE DEF t, d
        <3> QED BY <3>1, <3>2, <3>3, OperationStays
    <2>5. CASE Publish(p)
        <3> DEFINE r == Reconciled(queue, turn)
        <3>1. queue' = Trim(r)
            BY <2>5 DEF Publish
        <3>2. ASSUME NEW d \in Entries
              PROVE  /\ r[d] \in EntryStates
                     /\ r[d].status \in {"leased", "expired"} => r[d] = queue[d]
            <4>1. queue[d] \in EntryStates
                BY <1>1 DEF Queues
            <4>2. /\ [queue[d] EXCEPT !.status = "processing"] \in EntryStates
                  /\ [queue[d] EXCEPT !.status = "processing"].status = "processing"
                  /\ [queue[d] EXCEPT !.status = "completed"] \in EntryStates
                  /\ [queue[d] EXCEPT !.status = "completed"].status = "completed"
                BY <4>1 DEF EntryStates, Statuses
            <4>3. r[d] \in {queue[d], [queue[d] EXCEPT !.status = "processing"],
                            [queue[d] EXCEPT !.status = "completed"]}
                BY DEF Reconciled
            <4> HIDE DEF r
            <4> QED BY <4>1, <4>2, <4>3
        <3>3. r \in Queues
            BY <3>2 DEF Queues, Reconciled
        <3> HIDE DEF r
        <3> QED BY <3>1, <3>2, <3>3, TrimOrigin DEF Stays
    <2> QED BY <1>7, <2>1, <2>2, <2>3, <2>4, <2>5 DEF PageStep
<1>8. CASE Restart
    <2>1. \/ queue'[e] = Expired /\ e \in old
          \/ queue'[e] = RestoredEntry(disk[e])
        BY <1>8 DEF Restart
    <2>2. RestoredEntry(disk[e]).status = "unknown" \/ RestoredEntry(disk[e]) = disk[e]
        BY <1>1, RestoredIs
    <2>3. disk[e].status = "leased" => RestoredEntry(disk[e]).status = "unknown"
        BY <1>1, RestoredIs
    <2>4. disk[e].status = "expired" => queue[e].status = "expired"
        BY DEF LagInv, Lags
    <2> QED BY <2>1, <2>2, <2>3, <2>4 DEF Stays, Expired
<1> QED BY <1>3, <1>4, <1>5, <1>6, <1>7, <1>8 DEF Next

\* A claim that is saved puts its entry under a lease, while no other entry is
\* under one; one that is not, trims.
LEMMA ClaimLeases ==
    ASSUME TypeOK, NEW p \in Pages, NEW d \in Entries, NEW mode \in Modes, Claim(p, d, mode)
    PROVE  \/ UNCHANGED attempts /\ \A e \in Entries : Stays(e)
           \/ /\ queue[d].status = "queued" /\ queue'[d].status = "leased"
              /\ \A e \in Entries \ {d} : queue'[e].status # "leased" /\ Stays(e)
              /\ \E a : a.entry = d /\ attempts' = Append(attempts, a)
<1> DEFINE q == Trim(queue)
           k == Len(attempts) + 1
           a == [entry |-> d, mode |-> mode, post |-> "none"]
<1>1. queue \in Queues /\ q \in Queues
    BY TrimType DEF TypeOK
<1>2. CASE NotSaved(q) /\ UNCHANGED <<late, pageVars>>
    BY <1>2, <1>1, TrimOrigin DEF NotSaved, Stays, pageVars
<1>3. CASE Saved([q EXCEPT ![d].status = "leased", ![d].lease = k])
           /\ attempts' = Append(attempts, a)
    <2>1. queue' = [q EXCEPT ![d].status = "leased", ![d].lease = k]
        BY <1>3 DEF Saved
    <2>2. q[d].status = "queued"
        BY DEF Claim
    <2>3. \A e \in Entries \ {d} : q[e].status # "leased"
        BY DEF Claim, Blocking
    <2>4. \A e \in Entries : Trimmed(queue[e], q[e])
        BY <1>1, TrimEntry
    <2>5. \A e \in Entries :
              /\ q[e].status = "leased" => queue[e].status = "leased"
              /\ q[e].status = "expired" => queue[e].status = "expired" \/ e \in old
        BY <1>1, TrimOrigin
    <2>6. q[d] \in EntryStates /\ queue[d] \in EntryStates
        BY <1>1 DEF Queues
    <2> HIDE DEF q, k
    <2>7. queue[d].status = "queued"
        BY <2>2, <2>4, <2>6, TrimmedIs
    <2>8. queue'[d].status = "leased"
        BY <2>1, <1>1, <2>6 DEF Queues, EntryStates
    <2>9. \A e \in Entries \ {d} : queue'[e] = q[e]
        BY <2>1, <1>1 DEF Queues
    <2>10. a.entry = d
        OBVIOUS
    <2> QED BY <2>3, <2>5, <2>7, <2>8, <2>9, <2>10, <1>3 DEF Stays
<1> QED BY <1>2, <1>3 DEF Claim

\* Initially nothing has expired.
LEMMA GoneInit == Init => GoneInv
    BY DEF Init, GoneInv, Absent

\* An entry expires when its time is up, and the disk has known it since it
\* was queued.
LEMMA GoneStep == TypeOK /\ LagInv /\ GoneInv /\ [Next]_vars => GoneInv'
<1> SUFFICES ASSUME TypeOK, LagInv, GoneInv, [Next]_vars, NEW e \in Entries,
                    queue'[e].status = "expired"
             PROVE  e \in old' /\ disk'[e].status # "absent"
    BY DEF GoneInv
<1>1. /\ queue[e] \in EntryStates /\ disk[e] \in EntryStates
      /\ Lags(disk[e].status, queue[e].status)
      /\ queue[e].status = "expired" => e \in old /\ disk[e].status # "absent"
    BY DEF TypeOK, Queues, LagInv, GoneInv
<1>2. Stays(e)
    <2>1. ASSUME NEW p \in Pages, NEW d \in Entries, NEW mode \in Modes, Claim(p, d, mode)
          PROVE  Stays(e) \/ queue'[e].status = "leased"
        BY <2>1, ClaimLeases
    <2> QED BY <2>1, StepStays DEF Stays
<1>3. old \subseteq old'
    BY DEF Next, PageStep, PostStep, TimeStep, vars, queueVars, Enqueue, Claim, Complete,
           Recover, Cancel, Publish, Refused, Send, Abandon, Receive, NetError, Reload,
           Reject, Join, Recall, Begin, Perform, Succeed, Fail, TurnEnds,
           OtherTurn, LeaseRunsOut, EntryAges, TargetExpires, Restart
<1>4. queue[e].status # "absent" => disk[e].status # "absent"
    BY <1>1 DEF Lags
<1>5. CASE Idles(e)
    <2>1. queue[e].status # "absent"
        BY <1>5, <1>1, TrimmedIs DEF Idles
    <2> QED BY <2>1, <1>2, <1>3, <1>1, <1>4, <1>5 DEF Idles, Stays
<1>6. CASE Operates(e)
    BY <1>6, <1>1, <1>2, <1>3 DEF Operates, Stays
<1>7. CASE Reconciles(e)
    <2>1. PICK s \in EntryStates :
              /\ \/ s = queue[e]
                 \/ queue[e].status = "submitted" /\ s = [queue[e] EXCEPT !.status = "processing"]
                 \/ queue[e].status = "processing" /\ s = [queue[e] EXCEPT !.status = "completed"]
              /\ Trimmed(s, queue'[e])
              /\ disk'[e] \in {disk[e], s, queue'[e]}
        BY <1>7 DEF Reconciles
    <2>2. \/ s = queue[e]
          \/ queue[e].status = "submitted" /\ s.status = "processing"
          \/ queue[e].status = "processing" /\ s.status = "completed"
        BY <2>1, ReconciledIs
    <2>3. s.status # "absent"
        BY <2>1, TrimmedIs
    <2> QED BY <2>1, <2>2, <2>3, <1>1, <1>2, <1>3, <1>4 DEF Stays
<1>8. CASE Restores(e)
    <2>1. disk[e].status # "absent"
        <3>1. CASE queue'[e] = RestoredEntry(disk[e])
            BY <3>1, <1>1, RestoredIs
        <3> QED BY <3>1, <1>8 DEF Restores
    <2> QED BY <2>1, <1>1, <1>2, <1>3, <1>8 DEF Restores, Stays
<1> QED BY <1>5, <1>6, <1>7, <1>8, MoveStep DEF Moves

-----------------------------------------------------------------------------
(* The moves of a draft *)

\* The statuses an entry goes through, one step at a time.
StatusMove(x, y) ==
    \/ x = y
    \/ x # "absent" /\ y = "expired"
    \/ x = "absent" /\ y = "queued"
    \/ x = "queued" /\ y \in {"leased", "cancelled"}
    \/ x = "leased" /\ y \in {"submitted", "failed", "unknown"}
    \/ x = "failed" /\ y \in {"queued", "submitted", "unknown", "cancelled"}
    \/ x = "unknown" /\ y = "submitted"
    \/ /\ x \in {"submitted", "processing", "completed"}
       /\ y \in {"submitted", "processing", "completed", "unknown"}

\* These are the moves of DraftDelivery.
LEMMA StatusMoveSeen ==
    ASSUME NEW x \in Statuses, NEW y \in Statuses, StatusMove(x, y)
    PROVE  /\ Seen(x) \in Delivery!Outlooks /\ Seen(y) \in Delivery!Outlooks
           /\ Seen(y) = Seen(x) \/ <<Seen(x), Seen(y)>> \in Delivery!Moves
<1>1. Seen(x) \in Delivery!Outlooks /\ Seen(y) \in Delivery!Outlooks
    BY DEF Seen, Delivery!Outlooks, Statuses
<1>2. CASE x = y
    BY <1>2, <1>1
<1>3. CASE x # "absent" /\ y = "expired"
    BY <1>3, <1>1 DEF Seen, Delivery!Moves
<1>4. CASE \/ x = "absent" /\ y = "queued"
           \/ x = "queued" /\ y \in {"leased", "cancelled"}
           \/ x = "leased" /\ y \in {"submitted", "failed", "unknown"}
    BY <1>4, <1>1 DEF Seen, Delivery!Moves
<1>5. CASE \/ x = "failed" /\ y \in {"queued", "submitted", "unknown", "cancelled"}
           \/ x = "unknown" /\ y = "submitted"
    BY <1>5, <1>1 DEF Seen, Delivery!Moves
<1>6. CASE /\ x \in {"submitted", "processing", "completed"}
           /\ y \in {"submitted", "processing", "completed", "unknown"}
    BY <1>6, <1>1 DEF Seen, Delivery!Moves
<1> QED BY <1>1, <1>2, <1>3, <1>4, <1>5, <1>6 DEF StatusMove

\* Every step moves the status of every entry so.  A restart is what makes
\* the invariants necessary: it moves an entry from what the disk has of it.
LEMMA EntryStatusMoves ==
    ASSUME TypeOK, LagInv, GoneInv, [Next]_vars, NEW e \in Entries
    PROVE  StatusMove(queue[e].status, queue'[e].status)
<1>1. /\ queue[e] \in EntryStates /\ disk[e] \in EntryStates
      /\ Lags(disk[e].status, queue[e].status)
      /\ queue[e].status = "expired" => e \in old /\ disk[e].status # "absent"
    BY DEF TypeOK, Queues, LagInv, GoneInv
<1>2. CASE Idles(e)
    BY <1>2, <1>1, TrimmedIs DEF Idles, StatusMove
<1>3. CASE Operates(e)
    <2>1. PICK s \in EntryStates : Trimmed(queue[e], s) /\ Operated(e, s, queue'[e])
        BY <1>3 DEF Operates
    <2>2. \/ s = queue[e]
          \/ s.status = "expired"
          \/ s.status = "unknown" /\ queue[e].status = "leased"
        BY <2>1, <1>1, TrimmedIs
    <2>3. Outcome(e, s, queue'[e])
        BY <2>1, OperatedIs
    <2>4. \A p \in Pages : page[p].stage = "reporting" => page[p].outcome \in Answers
        BY DEF TypeOK, PageStates
    <2> QED BY <2>2, <2>3, <2>4 DEF Outcome, StatusMove, Answers
<1>4. CASE Reconciles(e)
    <2>1. PICK s \in EntryStates :
              /\ \/ s = queue[e]
                 \/ queue[e].status = "submitted" /\ s = [queue[e] EXCEPT !.status = "processing"]
                 \/ queue[e].status = "processing" /\ s = [queue[e] EXCEPT !.status = "completed"]
              /\ Trimmed(s, queue'[e])
        BY <1>4 DEF Reconciles
    <2>2. \/ s = queue[e]
          \/ queue[e].status = "submitted" /\ s.status = "processing"
          \/ queue[e].status = "processing" /\ s.status = "completed"
        BY <2>1, ReconciledIs
    <2>3. \/ queue'[e] = s
          \/ queue'[e].status = "expired" /\ s.status # "absent"
          \/ queue'[e].status = "unknown" /\ s.status = "leased"
        BY <2>1, TrimmedIs
    <2> QED BY <2>2, <2>3 DEF StatusMove
<1>5. CASE Restores(e)
    <2>1. CASE queue'[e] = Expired /\ disk[e].status # "absent"
        BY <2>1, <1>1 DEF StatusMove, Lags, Expired
    <2>2. CASE queue'[e] = RestoredEntry(disk[e])
        <3>1. \/ queue'[e].status = disk[e].status /\ disk[e].status \notin {"leased", "submitted"}
              \/ queue'[e].status = "unknown" /\ disk[e].status \in {"leased", "submitted"}
            BY <2>2, <1>1, RestoredIs
        <3>2. CASE queue[e].status = "expired"
            <4>1. queue'[e].status = "expired"
                BY <3>2, <1>1, <1>5 DEF Restores, Expired
            <4> QED BY <3>2, <4>1 DEF StatusMove
        <3> QED BY <3>1, <3>2, <1>1 DEF StatusMove, Lags
    <2> QED BY <1>5, <2>1, <2>2 DEF Restores
<1> QED BY <1>2, <1>3, <1>4, <1>5, MoveStep DEF Moves

-----------------------------------------------------------------------------
(* The steps of DraftDelivery *)

\* Everything the mapping of steps rests on.
DeliveryInv == TypeOK /\ LedgerInv /\ ToldInv /\ LagInv /\ GoneInv

\* Outside of a claim nothing is claimed.
LEMMA ClaimedKept ==
    ASSUME TypeOK, [Next]_vars,
           ~\E p \in Pages, d \in Entries, mode \in Modes : Claim(p, d, mode)
    PROVE  Claimed' = Claimed
<1>1. DOMAIN attempts' \subseteq DOMAIN attempts
    <2>1. CASE UNCHANGED attempts
        BY <2>1
    <2>2. attempts \in Seq(Attempts)
        BY DEF TypeOK
    <2>3. ASSUME NEW k \in DOMAIN attempts, NEW a, Answered(k, a)
          PROVE  DOMAIN attempts' = DOMAIN attempts
        BY <2>2, <2>3, AnsweredOthers
    <2>4. ASSUME NEW k \in DOMAIN attempts, PostStep(k)
          PROVE  DOMAIN attempts' = DOMAIN attempts
        <3>1. CASE \E a : Answered(k, a)
            BY <3>1, <2>3
        <3>2. CASE \E a : attempts' = Settled(k, a)
            BY <3>2 DEF Settled
        <3> QED BY <2>4, <3>1, <3>2 DEF PostStep, Reject, Join, Recall, Begin,
                                              Perform, Succeed, Fail
    <2>5. ASSUME NEW p \in Pages, PageStep(p)
          PROVE  UNCHANGED attempts \/ DOMAIN attempts' = DOMAIN attempts
        <3>1. CASE Send(p)
            BY <3>1 DEF Send
        <3> QED BY <2>5, <3>1 DEF PageStep, Publish, Complete, Abandon, Receive, NetError,
                                  Reload, Recover, Cancel, pageVars
    <2>6. CASE Restart
        BY <2>6 DEF Restart
    <2>7. CASE UNCHANGED vars \/ TurnEnds \/ OtherTurn \/ TimeStep \/ Refused
               \/ \E e \in Entries : Enqueue(e)
        BY <2>1, <2>7 DEF vars, pageVars, TurnEnds, OtherTurn, TimeStep, LeaseRunsOut,
                          EntryAges, TargetExpires, Refused, Enqueue
    <2> QED BY <2>1, <2>4, <2>5, <2>6, <2>7 DEF Next
<1>2. \A k \in DOMAIN attempts :
          k \in DOMAIN attempts' /\ attempts'[k].entry = attempts[k].entry
    BY AttemptsGrow
<1> QED BY <1>1, <1>2 DEF Claimed

\* A claim that adds attempt a claims its entry.
LEMMA ClaimedGrows ==
    ASSUME TypeOK, NEW a, attempts' = Append(attempts, a)
    PROVE  Claimed' = Claimed \cup {a.entry}
<1> DEFINE k == Len(attempts) + 1
<1>1. attempts \in Seq(Attempts)
    BY DEF TypeOK
<1>2. /\ DOMAIN attempts' = DOMAIN attempts \cup {k}
      /\ attempts'[k] = a
      /\ \A j \in DOMAIN attempts : attempts'[j] = attempts[j]
    BY <1>1
<1> HIDE DEF k
<1> QED BY <1>2 DEF Claimed

\* The outlook of every draft moves as DraftDelivery allows.
LEMMA OutlookMoves ==
    ASSUME TypeOK, TypeOK', LagInv, GoneInv, [Next]_vars
    PROVE  /\ Outlook' \in [Entries -> Delivery!Outlooks]
           /\ \A e \in Entries :
                 Outlook'[e] = Outlook[e] \/ <<Outlook[e], Outlook'[e]>> \in Delivery!Moves
<1>1. ASSUME NEW e \in Entries
      PROVE  /\ Seen(queue'[e].status) \in Delivery!Outlooks
             /\ \/ Seen(queue'[e].status) = Seen(queue[e].status)
                \/ <<Seen(queue[e].status), Seen(queue'[e].status)>> \in Delivery!Moves
    <2>1. queue[e].status \in Statuses /\ queue'[e].status \in Statuses
        BY DEF TypeOK, Queues, EntryStates
    <2> QED BY <2>1, EntryStatusMoves, StatusMoveSeen
<1> QED BY <1>1 DEF Outlook

\* A draft that comes to be delivered was taken before.
LEMMA DeliveredWasTaken ==
    ASSUME TypeOK', ToldInv', UNCHANGED sent, NEW e \in Entries,
           Delivery!Becomes(e, "delivered")
    PROVE  sent[e] = 1
<1>1. queue'[e].status \in Statuses
    BY DEF TypeOK, Queues, EntryStates
<1>2. queue'[e].status \in {"submitted", "processing", "completed"}
    BY <1>1 DEF Delivery!Becomes, Outlook, Seen, Statuses
<1> QED BY <1>2 DEF ToldInv, EntriesTold, SaysSent

\* Every step but the one in which Codex takes a text is a step of drafts.
LEMMA DraftSteps ==
    ASSUME DeliveryInv, DeliveryInv', [Next]_vars, UNCHANGED sent
    PROVE  Delivery!DraftStep
<1>1. /\ Outlook' \in [Entries -> Delivery!Outlooks]
      /\ \A e \in Entries :
            Outlook'[e] = Outlook[e] \/ <<Outlook[e], Outlook'[e]>> \in Delivery!Moves
    BY OutlookMoves DEF DeliveryInv
<1>2. \A e \in Entries : Delivery!Becomes(e, "delivered") => sent[e] = 1
    BY DeliveredWasTaken DEF DeliveryInv
<1>3. \A e \in Entries :
          /\ Outlook[e] = "leased" <=> queue[e].status = "leased"
          /\ Outlook'[e] = "leased" <=> queue'[e].status = "leased"
    BY DEF Outlook, Seen
<1>4. /\ \A c, d \in Entries : Delivery!Becomes(d, "leased") /\ Outlook'[c] = "leased" => c = d
      /\ Claimed' = Claimed \cup {d \in Entries : Delivery!Becomes(d, "leased")}
    <2>1. CASE ~\E p \in Pages, d \in Entries, mode \in Modes : Claim(p, d, mode)
        <3>1. \A d \in Entries : ~Delivery!Becomes(d, "leased")
            BY <2>1, <1>3, StepStays DEF Stays, Delivery!Becomes, DeliveryInv
        <3> QED BY <3>1, <2>1, ClaimedKept DEF DeliveryInv
    <2>2. ASSUME NEW p \in Pages, NEW d \in Entries, NEW mode \in Modes, Claim(p, d, mode)
          PROVE  /\ \A c, e \in Entries :
                       Delivery!Becomes(e, "leased") /\ Outlook'[c] = "leased" => c = e
                 /\ Claimed' = Claimed \cup {e \in Entries : Delivery!Becomes(e, "leased")}
        <3>1. CASE UNCHANGED attempts /\ \A e \in Entries : Stays(e)
            <4>1. \A e \in Entries : ~Delivery!Becomes(e, "leased")
                BY <3>1, <1>3 DEF Stays, Delivery!Becomes
            <4>2. Claimed' = Claimed
                BY <3>1 DEF Claimed
            <4> QED BY <4>1, <4>2
        <3>2. ASSUME queue[d].status = "queued", queue'[d].status = "leased",
                     \A e \in Entries \ {d} : queue'[e].status # "leased",
                     NEW a, a.entry = d, attempts' = Append(attempts, a)
              PROVE  /\ \A c, e \in Entries :
                           Delivery!Becomes(e, "leased") /\ Outlook'[c] = "leased" => c = e
                     /\ Claimed' = Claimed \cup {e \in Entries : Delivery!Becomes(e, "leased")}
            <4>1. \A e \in Entries : Delivery!Becomes(e, "leased") <=> e = d
                BY <3>2, <1>3 DEF Delivery!Becomes
            <4>2. \A c \in Entries : Outlook'[c] = "leased" => c = d
                BY <3>2, <1>3
            <4>3. Claimed' = Claimed \cup {d}
                BY <3>2, ClaimedGrows DEF DeliveryInv
            <4> QED BY <4>1, <4>2, <4>3
        <3> QED BY <2>2, <3>1, <3>2, ClaimLeases DEF DeliveryInv
    <2> QED BY <2>1, <2>2
<1> QED BY <1>1, <1>2, <1>4 DEF Delivery!DraftStep

\* The step in which Codex takes a text takes a draft that was claimed.
LEMMA PerformTakes ==
    ASSUME DeliveryInv, NEW k \in DOMAIN attempts, Perform(k)
    PROVE  \E d \in Entries : Delivery!Take(d)
<1> DEFINE d == attempts[k].entry
<1>1. attempts \in Seq(Attempts) /\ sent \in [Entries -> Nat]
    BY DEF DeliveryInv, TypeOK
<1>2. d \in Entries /\ d \in Claimed
    <2>1. attempts[k] \in Attempts
        BY <1>1
    <2> QED BY <2>1 DEF Attempts, Claimed
<1>3. sent[d] = 0
    BY DEF DeliveryInv, LedgerInv, UnderWayIsKnown, Perform
<1>4. Outlook[d] # "delivered"
    <2>1. queue[d].status \in Statuses
        BY <1>2 DEF DeliveryInv, TypeOK, Queues, EntryStates
    <2>2. queue[d].status \notin {"submitted", "processing", "completed"}
        BY <1>2, <1>3 DEF DeliveryInv, ToldInv, EntriesTold, SaysSent
    <2> QED BY <1>2, <2>1, <2>2 DEF Outlook, Seen, Statuses
<1>5. Claimed' = Claimed
    <2>1. /\ DOMAIN attempts' = DOMAIN attempts
          /\ \A j \in DOMAIN attempts : attempts'[j].entry = attempts[j].entry
        BY <1>1, AnsweredOthers DEF Perform
    <2> QED BY <2>1 DEF Claimed
<1>6. Outlook' = Outlook
    BY DEF Perform, queueVars, Outlook
<1>7. sent' = [sent EXCEPT ![d] = 1]
    BY <1>1, <1>2, <1>3 DEF Perform
<1> HIDE DEF d
<1> QED BY <1>2, <1>3, <1>4, <1>5, <1>6, <1>7 DEF Delivery!Take

\* Only Codex takes texts.
LEMMA SentByPerform ==
    ASSUME [Next]_vars, ~UNCHANGED sent
    PROVE  \E k \in DOMAIN attempts : Perform(k)
<1>1. ASSUME NEW p \in Pages, PageStep(p) PROVE UNCHANGED sent
    BY <1>1 DEF PageStep, Publish, Claim, Recover, Cancel, Complete, Send, Abandon, Receive,
                NetError, Reload
<1>2. ASSUME NEW k \in DOMAIN attempts, PostStep(k), ~Perform(k) PROVE UNCHANGED sent
    BY <1>2 DEF PostStep, Reject, Join, Recall, Begin, Succeed, Fail
<1>3. ASSUME UNCHANGED vars \/ TurnEnds \/ OtherTurn \/ TimeStep \/ Refused \/ Restart
             \/ \E d \in Entries : Enqueue(d)
      PROVE  UNCHANGED sent
    BY <1>3 DEF vars, TurnEnds, OtherTurn, TimeStep, LeaseRunsOut, EntryAges, TargetExpires,
                Refused, Restart, Enqueue
<1> QED BY <1>1, <1>2, <1>3 DEF Next

-----------------------------------------------------------------------------
\* Initially every draft is absent.
LEMMA DeliveryInit == Init => DeliveryInv /\ Delivery!AbsInit
<1>1. Init => Outlook = [e \in Entries |-> "absent"] /\ Claimed = {}
    BY DEF Init, Outlook, Seen, Absent, Claimed
<1>2. Init => sent = [e \in Entries |-> 0]
    BY DEF Init
<1> QED BY <1>1, <1>2, InitType, LedgerInit, ToldInit, LagInit, GoneInit
        DEF DeliveryInv, Delivery!AbsInit

LEMMA DeliveryStep == DeliveryInv /\ [Next]_vars => DeliveryInv'
    BY StepType, LedgerStep, ToldStep, LagStep, GoneStep DEF DeliveryInv

\* The queue implements DraftDelivery: whatever answers and saves are lost, and
\* whenever the backend restarts, a draft is claimed, taken and reported as its
\* author was promised.
THEOREM Implements == Spec => ImplementsDraftDelivery
<1>1. DeliveryInv /\ DeliveryInv' /\ [Next]_vars => [Delivery!AbsNext]_(Delivery!absVars)
    <2> SUFFICES ASSUME DeliveryInv, DeliveryInv', [Next]_vars PROVE Delivery!AbsNext
        OBVIOUS
    <2>1. CASE UNCHANGED sent
        BY <2>1, DraftSteps DEF Delivery!AbsNext
    <2>2. CASE ~UNCHANGED sent
        BY <2>2, SentByPerform, PerformTakes DEF Delivery!AbsNext
    <2> QED BY <2>1, <2>2
<1> QED BY <1>1, DeliveryInit, DeliveryStep, PTL DEF Spec, ImplementsDraftDelivery, Delivery!AbsSpec
=============================================================================
