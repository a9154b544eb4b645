------------------------- MODULE VoxSparkQueueProofs -------------------------
(***************************************************************************)
(* Theorems about VoxSparkQueue, for any drafts, pages and bounds.         *)
(*                                                                         *)
(* TypeCorrect goes action by action.  AtMostOnceHolds rests on LedgerInv: *)
(* what Codex has taken, or is about to be given, is never "missing" from  *)
(* the ledger, neither in memory nor on disk.  The other theorems rest on  *)
(* how far the disk may be behind memory (LagInv), on the entries in the   *)
(* hands of pages (HoldInv), and on what entries, ledger, posts and pages  *)
(* say of what Codex has taken (ToldInv).                                  *)
(***************************************************************************)
EXTENDS VoxSparkQueue, SequenceTheorems, TLAPS

-----------------------------------------------------------------------------
(* Types *)

\* An entry's status can be changed, its lease cleared, its text erased.
LEMMA EntryStateChanges ==
    ASSUME NEW s \in EntryStates, NEW st \in Statuses, NEW b \in BOOLEAN,
           NEW l \in {0} \cup Leases
    PROVE  /\ [s EXCEPT !.status = st] \in EntryStates
           /\ [s EXCEPT !.status = st, !.lease = l] \in EntryStates
           /\ [s EXCEPT !.status = st, !.body = b] \in EntryStates
           /\ [status |-> st, body |-> b, lease |-> l] \in EntryStates
    BY DEF EntryStates

\* Trimming a queue gives a queue.
LEMMA TrimType ==
    ASSUME NEW q \in Queues
    PROVE  Trim(q) \in Queues
<1>1. ASSUME NEW e \in Entries PROVE Trim(q)[e] \in EntryStates
    <2>1. q[e] \in EntryStates /\ Expired \in EntryStates
        BY DEF Queues, EntryStates, Expired, Statuses
    <2>2. [q[e] EXCEPT !.status = "unknown", !.lease = 0] \in EntryStates
        BY <2>1 DEF EntryStates, Statuses
    <2> QED BY <2>1, <2>2 DEF Trim
<1> QED BY <1>1 DEF Trim, Queues

\* So does replacing one entry of it.
LEMMA QueueWith ==
    ASSUME NEW q \in Queues, NEW e \in Entries, NEW s \in EntryStates
    PROVE  [q EXCEPT ![e] = s] \in Queues
    BY DEF Queues

\* What completeQueue, recoverQueue and a restart make of an entry is an entry.
LEMMA OutcomeTypes ==
    ASSUME NEW s \in EntryStates
    PROVE  /\ \A outcome \in Answers : Reported(s, outcome) \in EntryStates
           /\ \A e \in Entries, retry \in BOOLEAN : Recovered(e, s, retry) \in EntryStates
           /\ RestoredEntry(s) \in EntryStates
<1>1. ASSUME NEW outcome \in Answers PROVE Reported(s, outcome) \in EntryStates
    BY DEF Reported, EntryStates, Statuses, Answers
<1>2. ASSUME NEW e \in Entries, NEW retry \in BOOLEAN
      PROVE  Recovered(e, s, retry) \in EntryStates
    <2>1. /\ [s EXCEPT !.status = "submitted", !.body = FALSE] \in EntryStates
          /\ [s EXCEPT !.status = "queued"] \in EntryStates
          /\ [s EXCEPT !.status = "unknown"] \in EntryStates
        BY DEF EntryStates, Statuses
    <2> QED BY <2>1 DEF Recovered
<1>3. RestoredEntry(s) \in EntryStates
    BY DEF RestoredEntry, EntryStates, Statuses
<1> QED BY <1>1, <1>2, <1>3

\* Whether a save succeeds or not, queue and disk hold queues.
LEMMA SaveTypes ==
    ASSUME NEW q \in Queues, NEW new \in Queues, queue \in Queues, disk \in Queues
    PROVE  /\ Saved(new) => queue' \in Queues /\ disk' \in Queues
           /\ NotSaved(q) => queue' \in Queues /\ disk' \in Queues
    BY DEF Saved, NotSaved

\* Changing one attempt's post leaves a sequence of attempts of the same length.
LEMMA PostTypes ==
    ASSUME attempts \in Seq(Attempts), NEW k \in DOMAIN attempts, NEW p \in Posts
    PROVE  /\ [attempts EXCEPT ![k].post = p] \in Seq(Attempts)
           /\ DOMAIN [attempts EXCEPT ![k].post = p] = DOMAIN attempts
           /\ Len([attempts EXCEPT ![k].post = p]) = Len(attempts)
<1> DEFINE new == [attempts EXCEPT ![k].post = p]
<1>1. attempts \in [1..Len(attempts) -> Attempts] /\ Len(attempts) \in Nat
    OBVIOUS
<1>2. [attempts[k] EXCEPT !.post = p] \in Attempts
    BY <1>1 DEF Attempts
<1>3. new \in [1..Len(attempts) -> Attempts]
    BY <1>1, <1>2
<1> QED BY <1>1, <1>3

\* Settling answers some attempts.
LEMMA SettledTypes ==
    ASSUME attempts \in Seq(Attempts), NEW k \in DOMAIN attempts, NEW a \in Answers
    PROVE  /\ Settled(k, a) \in Seq(Attempts)
           /\ Len(Settled(k, a)) = Len(attempts)
<1>1. attempts \in [1..Len(attempts) -> Attempts] /\ Len(attempts) \in Nat
    OBVIOUS
<1>2. ASSUME NEW j \in DOMAIN attempts
      PROVE  [attempts[j] EXCEPT !.post = a] \in Attempts
    BY <1>1 DEF Attempts, Answers, Posts
<1>3. Settled(k, a) \in [1..Len(attempts) -> Attempts]
    BY <1>1, <1>2 DEF Settled
<1> QED BY <1>1, <1>3

\* The initial state has its types.
LEMMA InitType == Init => TypeOK
<1> SUFFICES ASSUME Init PROVE TypeOK
    OBVIOUS
<1>1. Absent \in EntryStates /\ Free \in PageStates
    BY DEF Absent, EntryStates, Statuses, Free, PageStates
<1>2. <<>> \in Seq(Attempts) /\ Len(<<>>) = 0
    OBVIOUS
<1>3. queue \in Queues /\ disk \in Queues
    BY <1>1 DEF Init, Queues
<1>4. page \in [Pages -> PageStates] /\ \A p \in Pages : page[p].stage = "free"
    BY <1>1 DEF Init, Free
<1> QED BY <1>2, <1>3, <1>4, QueueAssumption DEF Init, TypeOK, Phases

\* The operations of the queue keep the types.
LEMMA QueueStepType ==
    ASSUME TypeOK,
           \/ \E e \in Entries : Enqueue(e)
           \/ \E p \in Pages : Publish(p) \/ Complete(p)
           \/ \E p \in Pages, e \in Entries :
                 \/ \E retry \in BOOLEAN : Recover(p, e, retry)
                 \/ Cancel(p, e)
           \/ Refused
    PROVE  TypeOK'
<1> DEFINE q == Trim(queue)
<1>1. queue \in Queues /\ disk \in Queues
    BY DEF TypeOK
<1>2. q \in Queues
    BY <1>1, TrimType
<1>3. \A e \in Entries : q[e] \in EntryStates
    BY <1>2 DEF Queues
<1> HIDE DEF q
<1>4. CASE \E e \in Entries : Enqueue(e)
    <2>1. PICK e \in Entries : Enqueue(e)
        BY <1>4
    <2>2. [q EXCEPT ![e] = [status |-> "queued", body |-> TRUE, lease |-> 0]] \in Queues
        BY <1>2, QueueWith DEF EntryStates, Statuses
    <2>3. queue' \in Queues /\ disk' \in Queues
        BY <2>1, <2>2, <1>1, <1>2, SaveTypes DEF Enqueue, q
    <2> QED BY <2>1, <2>3 DEF Enqueue, TypeOK, ledgerVars, pageVars
<1>5. CASE \E p \in Pages : Publish(p)
    <2>1. PICK p \in Pages : Publish(p)
        BY <1>5
    <2> DEFINE r == Reconciled(queue, turn)
    <2>2. ASSUME NEW e \in Entries PROVE r[e] \in EntryStates
        <3>1. queue[e] \in EntryStates
            BY <1>1 DEF Queues
        <3>2. /\ [queue[e] EXCEPT !.status = "processing"] \in EntryStates
              /\ [queue[e] EXCEPT !.status = "completed"] \in EntryStates
            BY <3>1 DEF EntryStates, Statuses
        <3> QED BY <3>1, <3>2 DEF Reconciled
    <2>3. r \in Queues
        BY <2>2 DEF Queues, Reconciled
    <2>4. Trim(r) \in Queues
        BY <2>3, TrimType
    <2>5. queue' \in Queues /\ disk' \in Queues
        BY <2>1, <2>3, <2>4, <1>1 DEF Publish
    <2>6. target' \in [page : Pages \cup {NoPage}, turn : {"idle", "running"}]
        BY <2>1 DEF Publish, TypeOK
    <2> QED BY <2>1, <2>5, <2>6 DEF Publish, TypeOK, ledgerVars, pageVars
<1>6. CASE \E p \in Pages : Complete(p)
    <2>1. PICK p \in Pages : Complete(p)
        BY <1>6
    <2> DEFINE e == attempts[page[p].lease].entry
               new == [q EXCEPT ![e] = Reported(@, page[p].outcome)]
    <2>2. page[p] \in PageStates /\ page[p].stage = "reporting" /\ page[p].lease \in DOMAIN attempts
        BY <2>1 DEF Complete, TypeOK
    <2>3. page[p].outcome \in Answers
        BY <2>2 DEF PageStates
    <2>4. e \in Entries
        <3>1. attempts \in Seq(Attempts)
            BY DEF TypeOK
        <3>2. attempts[page[p].lease] \in Attempts
            BY <3>1, <2>2
        <3> QED BY <3>2 DEF Attempts
    <2>5. new \in Queues
        BY <2>3, <2>4, <1>2, <1>3, OutcomeTypes, QueueWith
    <2>6. Saved(new) \/ NotSaved(q)
        BY <2>1 DEF Complete, q
    <2> HIDE DEF new
    <2>7. queue' \in Queues /\ disk' \in Queues
        BY <2>5, <2>6, <1>1, <1>2, SaveTypes
    <2>8. page' \in [Pages -> PageStates]
        BY <2>1 DEF Complete, TypeOK, PageStates, Free
    <2>9. \A r \in Pages : page'[r].stage # "free" => page'[r].lease \in DOMAIN attempts
        BY <2>1 DEF Complete, TypeOK, Free
    <2> QED BY <2>1, <2>7, <2>8, <2>9 DEF Complete, TypeOK, ledgerVars
<1>7. CASE \E p \in Pages, e \in Entries, retry \in BOOLEAN : Recover(p, e, retry)
    <2>1. PICK p \in Pages, e \in Entries, retry \in BOOLEAN : Recover(p, e, retry)
        BY <1>7
    <2> DEFINE new == [q EXCEPT ![e] = Recovered(e, q[e], retry)]
    <2>2. new \in Queues
        BY <1>2, <1>3, OutcomeTypes, QueueWith
    <2>3. Saved(new) \/ NotSaved(q)
        BY <2>1 DEF Recover, q
    <2> HIDE DEF new
    <2>4. queue' \in Queues /\ disk' \in Queues
        BY <2>2, <2>3, <1>1, <1>2, SaveTypes
    <2> QED BY <2>1, <2>4 DEF Recover, TypeOK, ledgerVars, pageVars
<1>8. CASE \E p \in Pages, e \in Entries : Cancel(p, e)
    <2>1. PICK p \in Pages, e \in Entries : Cancel(p, e)
        BY <1>8
    <2> DEFINE s == IF q[e].status = "failed" /\ ledger[e] # "missing"
                    THEN Recovered(e, q[e], FALSE)
                    ELSE [q[e] EXCEPT !.status = "cancelled", !.body = FALSE]
               new == [q EXCEPT ![e] = s]
    <2>2. [q[e] EXCEPT !.status = "cancelled", !.body = FALSE] \in EntryStates
        BY <1>3 DEF EntryStates, Statuses
    <2>3. s \in EntryStates
        BY <2>2, <1>3, OutcomeTypes
    <2>4. new \in Queues
        BY <2>3, <1>2, QueueWith
    <2>5. Saved(new) \/ NotSaved(q)
        BY <2>1 DEF Cancel, q
    <2> HIDE DEF new
    <2>6. queue' \in Queues /\ disk' \in Queues
        BY <2>4, <2>5, <1>1, <1>2, SaveTypes
    <2> QED BY <2>1, <2>6 DEF Cancel, TypeOK, ledgerVars, pageVars
<1>9. CASE Refused
    <2>1. queue' \in Queues /\ disk' \in Queues
        BY <1>9, <1>1, <1>2, SaveTypes DEF Refused, q
    <2> QED BY <2>1, <1>9 DEF Refused, TypeOK, ledgerVars, pageVars
<1> QED BY <1>4, <1>5, <1>6, <1>7, <1>8, <1>9

\* A claim grants a lease and adds an attempt, or nothing but trims.
LEMMA ClaimType ==
    ASSUME TypeOK, NEW p \in Pages, NEW e \in Entries, NEW mode \in Modes, Claim(p, e, mode)
    PROVE  TypeOK'
<1> DEFINE q == Trim(queue)
           k == Len(attempts) + 1
           new == [q EXCEPT ![e].status = "leased", ![e].lease = k]
           a == [entry |-> e, mode |-> mode, post |-> "none"]
<1>1. queue \in Queues /\ disk \in Queues /\ q \in Queues
    BY TrimType DEF TypeOK
<1>2. k \in Leases
    BY DEF Claim
<1>3. q[e] \in EntryStates
    BY <1>1 DEF Queues
<1> HIDE DEF q
<1>4. [q[e] EXCEPT !.status = "leased", !.lease = k] \in EntryStates
    BY <1>2, <1>3 DEF EntryStates, Statuses
<1>5. new = [q EXCEPT ![e] = [q[e] EXCEPT !.status = "leased", !.lease = k]]
    BY <1>1, <1>3 DEF Queues, EntryStates
<1>6. new \in Queues
    BY <1>1, <1>4, <1>5, QueueWith
<1>7. CASE /\ Saved(new)
           /\ attempts' = Append(attempts, a)
           /\ page' = [page EXCEPT ![p] = [stage |-> "claimed", lease |-> k, outcome |-> "none"]]
           /\ late' = late \ {e}
    <2>1. queue' \in Queues /\ disk' \in Queues
        BY <1>6, <1>7, <1>1, SaveTypes
    <2>2. a \in Attempts /\ attempts \in Seq(Attempts)
        BY DEF Attempts, Posts, TypeOK
    <2>3. attempts' \in Seq(Attempts) /\ Len(attempts') = k
        BY <2>2, <1>7
    <2>4. Len(attempts') <= MaxLeases /\ k \in DOMAIN attempts'
          /\ DOMAIN attempts \subseteq DOMAIN attempts'
        BY <2>2, <2>3, <1>2, QueueAssumption DEF Leases
    <2>5. [stage |-> "claimed", lease |-> k, outcome |-> "none"] \in PageStates
        BY <1>2 DEF PageStates
    <2>6. page' \in [Pages -> PageStates]
        BY <2>5, <1>7 DEF TypeOK
    <2>7. \A r \in Pages : page'[r].stage # "free" => page'[r].lease \in DOMAIN attempts'
        BY <2>4, <1>7 DEF TypeOK
    <2>8. late' \subseteq Entries
        BY <1>7 DEF TypeOK
    <2> QED BY <2>1, <2>3, <2>4, <2>6, <2>7, <2>8 DEF Claim, TypeOK, ledgerVars
<1>8. CASE NotSaved(q) /\ UNCHANGED <<late, pageVars>>
    <2>1. queue' \in Queues /\ disk' \in Queues
        BY <1>8, <1>1, SaveTypes
    <2> QED BY <2>1, <1>8 DEF Claim, TypeOK, ledgerVars, pageVars
<1> QED BY <1>7, <1>8 DEF Claim, q

\* The pages' own steps keep the types.
LEMMA PageStepType ==
    ASSUME TypeOK, NEW p \in Pages,
           Send(p) \/ Abandon(p) \/ Receive(p) \/ NetError(p) \/ Reload(p)
    PROVE  TypeOK'
<1>1. page[p] \in PageStates /\ page \in [Pages -> PageStates]
    BY DEF TypeOK
<1>2. CASE Send(p)
    <2> DEFINE k == page[p].lease
    <2>1. page[p].stage = "claimed" /\ k \in DOMAIN attempts /\ attempts \in Seq(Attempts)
        BY <1>2 DEF Send, TypeOK
    <2>2. /\ attempts' \in Seq(Attempts)
          /\ DOMAIN attempts' = DOMAIN attempts
          /\ Len(attempts') = Len(attempts)
        BY <2>1, <1>2, PostTypes DEF Send, Posts
    <2>3. page' = [page EXCEPT ![p].stage = "sending", ![p].outcome = "none"]
        BY <1>2 DEF Send, SetPage
    <2>4. page' \in [Pages -> PageStates]
        BY <2>1, <2>3, <1>1 DEF PageStates
    <2>5. \A r \in Pages : page'[r].stage # "free" => page'[r].lease \in DOMAIN attempts'
        BY <2>1, <2>2, <2>3, <1>1 DEF TypeOK, PageStates
    <2> QED BY <2>2, <2>4, <2>5, <1>2 DEF Send, TypeOK, queueVars, ledgerVars
<1>3. CASE Abandon(p) \/ Receive(p) \/ NetError(p)
    <2>1. PICK out \in Answers : SetPage(p, "reporting", out)
        BY <1>3 DEF Abandon, Receive, NetError, Answers
    <2>2. page[p].stage # "free" /\ page[p].lease \in DOMAIN attempts /\ page[p].lease \in Leases
        BY <1>3, <1>1 DEF Abandon, Receive, NetError, TypeOK, PageStates
    <2>3. page' = [page EXCEPT ![p].stage = "reporting", ![p].outcome = out]
        BY <2>1 DEF SetPage
    <2>4. page' \in [Pages -> PageStates]
        BY <2>2, <2>3, <1>1 DEF PageStates
    <2>5. \A r \in Pages : page'[r].stage # "free" => page'[r].lease \in DOMAIN attempts
        BY <2>2, <2>3, <1>1 DEF TypeOK, PageStates
    <2> QED BY <2>4, <2>5, <1>3 DEF Abandon, Receive, NetError, TypeOK, queueVars, ledgerVars
<1>4. CASE Reload(p)
    <2>1. page' \in [Pages -> PageStates]
        BY <1>4, <1>1 DEF Reload, PageStates, Free
    <2>2. \A r \in Pages : page'[r].stage # "free" => page'[r].lease \in DOMAIN attempts
        BY <1>4, <1>1 DEF Reload, TypeOK, Free
    <2> QED BY <2>1, <2>2, <1>4 DEF Reload, TypeOK, queueVars, ledgerVars
<1> QED BY <1>2, <1>3, <1>4

\* The steps of a POST keep the types.
LEMMA PostStepType ==
    ASSUME TypeOK, NEW k \in DOMAIN attempts, PostStep(k)
    PROVE  TypeOK'
<1>1. attempts \in Seq(Attempts) /\ attempts[k] \in Attempts
    BY DEF TypeOK
<1>2. attempts[k].entry \in Entries /\ ledger \in [Entries -> Phases] /\ ledgerDisk \in [Entries -> Phases]
    BY <1>1 DEF Attempts, TypeOK
<1>3. ASSUME NEW phase \in Phases
      PROVE  [ledger EXCEPT ![attempts[k].entry] = phase] \in [Entries -> Phases]
    BY <1>2
<1>4. ASSUME NEW a \in Posts, Answered(k, a)
      PROVE  attempts' \in Seq(Attempts) /\ Len(attempts') = Len(attempts)
             /\ DOMAIN attempts' = DOMAIN attempts
    BY <1>1, <1>4, PostTypes DEF Answered
<1>5. ASSUME attempts' \in Seq(Attempts), Len(attempts') = Len(attempts),
             ledger' \in [Entries -> Phases], ledgerDisk' \in [Entries -> Phases],
             UNCHANGED <<queueVars, page>>, turn' \in {"idle", "running"},
             sent' \in [Entries -> Nat]
      PROVE  TypeOK'
    BY <1>1, <1>5 DEF TypeOK, queueVars
<1>6. CASE Reject(k) \/ Join(k) \/ Recall(k)
    <2>1. \E a \in Posts : Answered(k, a)
        BY <1>6 DEF Reject, Join, Recall, Posts, Answers
    <2>2. attempts' \in Seq(Attempts) /\ Len(attempts') = Len(attempts)
        BY <2>1, <1>4
    <2> QED BY <2>2, <1>5, <1>6, <1>2 DEF Reject, Join, Recall, TypeOK, ledgerVars
<1>7. CASE Begin(k)
    <2>1. \E a \in Posts : Answered(k, a)
        BY <1>7 DEF Begin, Posts, Answers
    <2>2. attempts' \in Seq(Attempts) /\ Len(attempts') = Len(attempts)
        BY <2>1, <1>4
    <2>3. ledger' \in [Entries -> Phases] /\ ledgerDisk' \in [Entries -> Phases]
        BY <1>7, <1>2, <1>3 DEF Begin, WrittenAhead, ledgerVars, Phases
    <2> QED BY <2>2, <2>3, <1>5, <1>7 DEF Begin, TypeOK
<1>8. CASE Perform(k)
    <2>1. attempts' \in Seq(Attempts) /\ Len(attempts') = Len(attempts)
        BY <1>8, <1>4 DEF Perform, Posts
    <2>2. sent' \in [Entries -> Nat]
        BY <1>8, <1>2 DEF Perform, TypeOK
    <2> QED BY <2>1, <2>2, <1>5, <1>8, <1>2 DEF Perform, ledgerVars
<1>9. CASE Succeed(k)
    <2>1. attempts' \in Seq(Attempts) /\ Len(attempts') = Len(attempts)
        BY <1>9, <1>1, SettledTypes DEF Succeed, Answers
    <2>2. ledger' \in [Entries -> Phases] /\ ledgerDisk' \in [Entries -> Phases]
        BY <1>9, <1>3 DEF Succeed, Phases
    <2> QED BY <2>1, <2>2, <1>5, <1>9 DEF Succeed, TypeOK
<1>10. CASE Fail(k)
    <2>1. attempts' \in Seq(Attempts) /\ Len(attempts') = Len(attempts)
        <3>1. "unknown" \in Answers
            BY DEF Answers
        <3>2. /\ Settled(k, "unknown") \in Seq(Attempts)
              /\ Len(Settled(k, "unknown")) = Len(attempts)
            BY <1>1, <3>1, SettledTypes
        <3> QED BY <1>10, <3>2 DEF Fail
    <2>2. ledger' \in [Entries -> Phases] /\ ledgerDisk' \in [Entries -> Phases]
        BY <1>10, <1>2, <1>3 DEF Fail, Uncertain, Phases
    <2> QED BY <2>1, <2>2, <1>5, <1>10 DEF Fail, TypeOK
<1> QED BY <1>6, <1>7, <1>8, <1>9, <1>10 DEF PostStep

\* A restart keeps the types: what it reads back are queues and phases.
LEMMA RestartType ==
    ASSUME TypeOK, Restart
    PROVE  TypeOK'
<1> DEFINE q == [e \in Entries |->
                   IF e \in old /\ disk[e].status # "absent" THEN Expired
                   ELSE RestoredEntry(disk[e])]
           l == [e \in Entries |-> RestoredPhase(ledgerDisk[e])]
<1>1. ASSUME NEW e \in Entries PROVE q[e] \in EntryStates
    <2>1. disk[e] \in EntryStates /\ Expired \in EntryStates
        BY DEF TypeOK, Queues, Expired, EntryStates, Statuses
    <2> QED BY <2>1, OutcomeTypes
<1>2. q \in Queues
    BY <1>1 DEF Queues
<1>3. l \in [Entries -> Phases]
    BY DEF TypeOK, RestoredPhase, Phases
<1>4. queue' \in Queues /\ disk' \in Queues
    BY <1>2 DEF Restart, TypeOK
<1>5. ledger' \in [Entries -> Phases] /\ ledgerDisk' \in [Entries -> Phases]
    BY <1>3 DEF Restart, TypeOK
<1>6. ASSUME NEW k \in DOMAIN attempts
      PROVE  attempts[k] \in Attempts /\ [attempts[k] EXCEPT !.post = "lost"] \in Attempts
    <2>1. attempts \in Seq(Attempts)
        BY DEF TypeOK
    <2>2. attempts[k] \in Attempts
        BY <2>1
    <2> QED BY <2>2 DEF Attempts, Posts
<1>7. attempts' \in [1..Len(attempts) -> Attempts] /\ Len(attempts) \in Nat
    <2>1. DOMAIN attempts = 1..Len(attempts) /\ Len(attempts) \in Nat
        BY DEF TypeOK
    <2> QED BY <1>6, <2>1 DEF Restart
<1>8. attempts' \in Seq(Attempts) /\ Len(attempts') = Len(attempts)
    BY <1>7
<1>9. target' \in [page : Pages \cup {NoPage}, turn : {"idle", "running"}]
    BY DEF Restart
<1> QED BY <1>4, <1>5, <1>8, <1>9 DEF Restart, TypeOK

\* Every step keeps the types.
LEMMA StepType == TypeOK /\ [Next]_vars => TypeOK'
<1> SUFFICES ASSUME TypeOK, [Next]_vars PROVE TypeOK'
    OBVIOUS
<1>1. CASE TurnEnds \/ OtherTurn
    BY <1>1 DEF TurnEnds, OtherTurn, TypeOK, queueVars, ledgerVars, pageVars
<1>2. CASE TimeStep
    BY <1>2 DEF TimeStep, LeaseRunsOut, EntryAges, TargetExpires, TypeOK, ledgerVars, pageVars
<1>3. CASE UNCHANGED vars
    BY <1>3 DEF vars, TypeOK, queueVars, ledgerVars, pageVars
<1>4. CASE \E p \in Pages : PageStep(p)
    <2>1. PICK p \in Pages : PageStep(p)
        BY <1>4
    <2>2. CASE Publish(p) \/ Complete(p)
        BY <2>2, QueueStepType
    <2>3. ASSUME NEW e \in Entries,
                 \/ \E retry \in BOOLEAN : Recover(p, e, retry)
                 \/ Cancel(p, e)
          PROVE  TypeOK'
        BY <2>3, QueueStepType
    <2>4. ASSUME NEW e \in Entries, NEW mode \in Modes, Claim(p, e, mode)
          PROVE  TypeOK'
        BY <2>4, ClaimType
    <2>5. CASE Send(p) \/ Abandon(p) \/ Receive(p) \/ NetError(p) \/ Reload(p)
        BY <2>5, PageStepType
    <2> QED BY <2>1, <2>2, <2>3, <2>4, <2>5 DEF PageStep
<1>5. CASE (\E e \in Entries : Enqueue(e)) \/ Refused
    BY <1>5, QueueStepType
<1>6. CASE \E k \in DOMAIN attempts : PostStep(k)
    BY <1>6, PostStepType
<1>7. CASE Restart
    BY <1>7, RestartType
<1> QED BY <1>1, <1>2, <1>3, <1>4, <1>5, <1>6, <1>7 DEF Next

\* Every variable has its type in every reachable state.
THEOREM TypeCorrect == Spec => []TypeOK
    BY InitType, StepType, PTL DEF Spec
-----------------------------------------------------------------------------
(* Codex takes each text at most once *)

UnderWay(k) == attempts[k].post \in {"running", "called"}

\* What has been sent is in the ledger.
SentIsKnown == \A e \in Entries : sent[e] <= 1 /\ (sent[e] = 1 => ledger[e] # "missing")

\* What is in the ledger is on disk, under one phase or another.
KnownIsSaved == \A e \in Entries : ledger[e] # "missing" => ledgerDisk[e] # "missing"

\* A submission under way is in the ledger as such, and until Codex has been
\* called its text has not been sent.
UnderWayIsKnown ==
    \A k \in DOMAIN attempts :
        /\ UnderWay(k) => ledger[attempts[k].entry] = "executing"
        /\ attempts[k].post = "running" => sent[attempts[k].entry] = 0

\* No entry has two submissions under way.
OneUnderWay ==
    \A j, k \in DOMAIN attempts :
        UnderWay(j) /\ UnderWay(k) /\ attempts[j].entry = attempts[k].entry => j = k

\* The inductive invariant behind AtMostOnce.
LedgerInv == SentIsKnown /\ KnownIsSaved /\ UnderWayIsKnown /\ OneUnderWay

\* Initially nothing is sent and nothing is known.
LEMMA LedgerInit == Init => LedgerInv
    BY DEF Init, LedgerInv, SentIsKnown, KnownIsSaved, UnderWayIsKnown, OneUnderWay

\* LedgerInv reads an attempt only while it is under way: a step that begins or
\* advances none, and leaves the ledger and Codex alone, keeps it.
LEMMA QuietStep ==
    ASSUME TypeOK, LedgerInv, UNCHANGED <<ledger, ledgerDisk, sent>>,
           \A k \in DOMAIN attempts' :
              attempts'[k].post \in {"running", "called"} =>
                 k \in DOMAIN attempts /\ attempts'[k] = attempts[k]
    PROVE  LedgerInv'
<1>1. SentIsKnown' /\ KnownIsSaved'
    BY DEF LedgerInv, SentIsKnown, KnownIsSaved
<1>2. UnderWayIsKnown'
    BY DEF LedgerInv, UnderWayIsKnown, UnderWay
<1>3. OneUnderWay'
    BY DEF LedgerInv, OneUnderWay, UnderWay
<1> QED BY <1>1, <1>2, <1>3 DEF LedgerInv

\* A step that answers attempt k, or puts it on its way, changes no other.
LEMMA AnsweredOthers ==
    ASSUME attempts \in Seq(Attempts), NEW k \in DOMAIN attempts, NEW a, Answered(k, a)
    PROVE  /\ DOMAIN attempts' = DOMAIN attempts
           /\ attempts'[k].post = a /\ attempts'[k].entry = attempts[k].entry
           /\ \A j \in DOMAIN attempts : j # k => attempts'[j] = attempts[j]
<1>1. attempts[k] \in Attempts
    OBVIOUS
<1> QED BY <1>1 DEF Answered, Attempts

\* A submission that begins was missing, so nothing of it was sent or under way.
LEMMA BeginLedger ==
    ASSUME TypeOK, LedgerInv, NEW k \in DOMAIN attempts, Begin(k)
    PROVE  LedgerInv'
<1> DEFINE e == attempts[k].entry
<1>1. attempts \in Seq(Attempts) /\ attempts[k] \in Attempts /\ e \in Entries
    <2>1. attempts \in Seq(Attempts)
        BY DEF TypeOK
    <2>2. attempts[k] \in Attempts
        BY <2>1
    <2> QED BY <2>1, <2>2 DEF Attempts
<1>2. CASE Answered(k, "failed") /\ UNCHANGED ledgerVars
    <2>1. \A j \in DOMAIN attempts' : attempts'[j].post \in {"running", "called"} =>
             j \in DOMAIN attempts /\ attempts'[j] = attempts[j]
        BY <1>1, <1>2, AnsweredOthers
    <2> QED BY <2>1, <1>2, QuietStep DEF Begin, ledgerVars
<1>3. CASE WrittenAhead([ledger EXCEPT ![e] = "executing"]) /\ Answered(k, "running")
    <2>1. /\ DOMAIN attempts' = DOMAIN attempts
          /\ attempts'[k].post = "running" /\ attempts'[k].entry = e
          /\ \A j \in DOMAIN attempts : j # k => attempts'[j] = attempts[j]
        BY <1>1, <1>3, AnsweredOthers
    <2>2. ledger' = [ledger EXCEPT ![e] = "executing"] /\ ledgerDisk' = ledger' /\ sent' = sent
        BY <1>3 DEF WrittenAhead, Begin
    <2>3. ledger \in [Entries -> Phases] /\ sent \in [Entries -> Nat]
        BY DEF TypeOK
    <2>4. sent[e] = 0
        BY <1>1, <2>3 DEF Begin, LedgerInv, SentIsKnown
    <2>5. \A j \in DOMAIN attempts : UnderWay(j) => attempts[j].entry # e
        BY DEF Begin, InFlight, UnderWay
    <2>6. SentIsKnown' /\ KnownIsSaved'
        BY <2>2, <2>3 DEF LedgerInv, SentIsKnown, KnownIsSaved
    <2>7. UnderWayIsKnown'
        BY <1>1, <2>1, <2>2, <2>3, <2>4 DEF LedgerInv, UnderWayIsKnown, UnderWay
    <2>8. OneUnderWay'
        BY <2>1, <2>5 DEF LedgerInv, OneUnderWay, UnderWay
    <2> QED BY <2>6, <2>7, <2>8 DEF LedgerInv
<1> QED BY <1>2, <1>3 DEF Begin

\* Codex is called for the one submission of the entry that is under way, and
\* has not been called for it before.
LEMMA PerformLedger ==
    ASSUME TypeOK, LedgerInv, NEW k \in DOMAIN attempts, Perform(k)
    PROVE  LedgerInv'
<1> DEFINE e == attempts[k].entry
<1>1. attempts \in Seq(Attempts) /\ attempts[k] \in Attempts /\ e \in Entries
    <2>1. attempts \in Seq(Attempts)
        BY DEF TypeOK
    <2>2. attempts[k] \in Attempts
        BY <2>1
    <2> QED BY <2>1, <2>2 DEF Attempts
<1>2. /\ DOMAIN attempts' = DOMAIN attempts
      /\ attempts'[k].post = "called" /\ attempts'[k].entry = e
      /\ \A j \in DOMAIN attempts : j # k => attempts'[j] = attempts[j]
    BY <1>1, AnsweredOthers DEF Perform
<1>3. UnderWay(k) /\ ledger[e] = "executing" /\ sent[e] = 0
    BY DEF Perform, LedgerInv, UnderWayIsKnown, UnderWay
<1>4. sent' = [sent EXCEPT ![e] = @ + 1] /\ sent \in [Entries -> Nat] /\ UNCHANGED ledgerVars
    BY DEF Perform, TypeOK
<1>5. SentIsKnown' /\ KnownIsSaved'
    BY <1>1, <1>3, <1>4 DEF LedgerInv, SentIsKnown, KnownIsSaved, ledgerVars
<1>6. \A j \in DOMAIN attempts : UnderWay(j) /\ attempts[j].entry = e => j = k
    BY <1>3 DEF LedgerInv, OneUnderWay
<1>7. UnderWayIsKnown'
    <2>1. ASSUME NEW j \in DOMAIN attempts, j # k
          PROVE  /\ UnderWay(j)' => ledger'[attempts'[j].entry] = "executing"
                 /\ attempts'[j].post = "running" => sent'[attempts'[j].entry] = 0
        <3>1. attempts[j].entry \in Entries
            <4>1. attempts[j] \in Attempts
                BY <1>1
            <4> QED BY <4>1 DEF Attempts
        <3> QED BY <3>1, <2>1, <1>2, <1>4, <1>6 DEF LedgerInv, UnderWayIsKnown, UnderWay, ledgerVars
    <2> QED BY <2>1, <1>2, <1>3, <1>4 DEF UnderWayIsKnown, UnderWay, ledgerVars
<1>8. OneUnderWay'
    BY <1>2, <1>3 DEF LedgerInv, OneUnderWay, UnderWay
<1> QED BY <1>5, <1>7, <1>8 DEF LedgerInv

\* A submission that settles is under way no more, and stays in the ledger.
LEMMA SettleLedger ==
    ASSUME TypeOK, LedgerInv, NEW k \in DOMAIN attempts,
           Succeed(k) \/ Fail(k)
    PROVE  LedgerInv'
<1> DEFINE e == attempts[k].entry
<1>1. attempts \in Seq(Attempts) /\ attempts[k] \in Attempts /\ e \in Entries
    <2>1. attempts \in Seq(Attempts)
        BY DEF TypeOK
    <2>2. attempts[k] \in Attempts
        BY <2>1
    <2> QED BY <2>1, <2>2 DEF Attempts
<1>2. ledger \in [Entries -> Phases] /\ ledgerDisk \in [Entries -> Phases] /\ sent' = sent
    BY DEF TypeOK, Succeed, Fail
<1>3. UnderWay(k) /\ ledger[e] = "executing"
    BY DEF Succeed, Fail, LedgerInv, UnderWayIsKnown, UnderWay
<1>4. PICK phase \in {"succeeded", "unknown"} :
          /\ ledger' = [ledger EXCEPT ![e] = phase]
          /\ ledgerDisk' \in {ledgerDisk, ledger'}
    BY DEF Succeed, Fail, Uncertain
<1>5. PICK a \in Answers : attempts' = Settled(k, a)
    BY DEF Succeed, Fail, Answers
<1>6. /\ DOMAIN attempts' = DOMAIN attempts
      /\ attempts'[k].post = a
      /\ \A j \in DOMAIN attempts \ {k} :
            attempts'[j] = attempts[j] \/ attempts'[j].post = a
    <2>1. \A j \in DOMAIN attempts : attempts[j] \in Attempts
        BY <1>1
    <2> DEFINE s == Settled(k, a)
    <2>2. DOMAIN s = DOMAIN attempts /\ s[k] = [attempts[k] EXCEPT !.post = a]
        BY DEF Settled
    <2>3. \A j \in DOMAIN attempts : s[j] = attempts[j] \/ s[j] = [attempts[j] EXCEPT !.post = a]
        BY DEF Settled
    <2> HIDE DEF s
    <2>4. \A j \in DOMAIN attempts : [attempts[j] EXCEPT !.post = a].post = a
        BY <2>1 DEF Attempts
    <2>5. s[k].post = a
        BY <2>1, <2>2 DEF Attempts
    <2>6. attempts' = s
        BY <1>5 DEF s
    <2> QED BY <2>2, <2>3, <2>4, <2>5, <2>6
<1>7. a \notin {"running", "called"}
    BY DEF Answers
<1>8. SentIsKnown'
    BY <1>2, <1>4 DEF LedgerInv, SentIsKnown
<1>9. KnownIsSaved'
    BY <1>1, <1>2, <1>3, <1>4 DEF LedgerInv, KnownIsSaved
<1>10. \A j \in DOMAIN attempts' : attempts'[j].post \in {"running", "called"} =>
          j # k /\ attempts'[j] = attempts[j] /\ UnderWay(j)
    BY <1>6, <1>7 DEF UnderWay
<1>11. UnderWayIsKnown'
    <2>1. ASSUME NEW j \in DOMAIN attempts', attempts'[j].post \in {"running", "called"}
          PROVE  attempts[j].entry # e
        BY <2>1, <1>3, <1>6, <1>10 DEF LedgerInv, OneUnderWay
    <2> QED BY <2>1, <1>2, <1>4, <1>6, <1>10 DEF LedgerInv, UnderWayIsKnown, UnderWay
<1>12. OneUnderWay'
    BY <1>6, <1>10 DEF LedgerInv, OneUnderWay, UnderWay
<1> QED BY <1>8, <1>9, <1>11, <1>12 DEF LedgerInv

\* After a restart nothing is under way, and what was in the ledger still is.
LEMMA RestartLedger ==
    ASSUME TypeOK, LedgerInv, Restart
    PROVE  LedgerInv'
<1>1. \A e \in Entries : ledger'[e] = RestoredPhase(ledgerDisk[e]) /\ sent' = sent
    BY DEF Restart
<1>2. \A e \in Entries : ledger'[e] = "missing" <=> ledgerDisk[e] = "missing"
    BY <1>1 DEF RestoredPhase
<1>3. SentIsKnown'
    BY <1>1, <1>2 DEF LedgerInv, SentIsKnown, KnownIsSaved
<1>4. ledgerDisk' = ledgerDisk \/ ledgerDisk' = ledger'
    BY DEF Restart
<1>5. KnownIsSaved'
    BY <1>2, <1>4 DEF KnownIsSaved
<1>6. \A k \in DOMAIN attempts' : attempts'[k].post \notin {"running", "called"}
    <2>1. ASSUME NEW k \in DOMAIN attempts
          PROVE  [attempts[k] EXCEPT !.post = "lost"].post = "lost"
        <3>1. attempts \in Seq(Attempts)
            BY DEF TypeOK
        <3>2. attempts[k] \in Attempts
            BY <3>1
        <3> QED BY <3>2 DEF Attempts
    <2> QED BY <2>1 DEF Restart
<1>7. UnderWayIsKnown' /\ OneUnderWay'
    BY <1>6 DEF UnderWayIsKnown, OneUnderWay, UnderWay
<1> QED BY <1>3, <1>5, <1>7 DEF LedgerInv

\* Every step keeps LedgerInv.
LEMMA LedgerStep == TypeOK /\ LedgerInv /\ [Next]_vars => LedgerInv'
<1> SUFFICES ASSUME TypeOK, LedgerInv, [Next]_vars PROVE LedgerInv'
    OBVIOUS
<1>1. attempts \in Seq(Attempts)
    BY DEF TypeOK
<1>2. CASE UNCHANGED <<attempts, ledger, ledgerDisk, sent>>
    BY <1>2, QuietStep
<1>3. CASE UNCHANGED vars \/ TurnEnds \/ OtherTurn \/ TimeStep \/ Refused
           \/ \E e \in Entries : Enqueue(e)
    BY <1>2, <1>3 DEF vars, pageVars, ledgerVars, TurnEnds, OtherTurn, TimeStep,
                      LeaseRunsOut, EntryAges, TargetExpires, Refused, Enqueue
<1>4. CASE \E p \in Pages : PageStep(p)
    <2>1. PICK p \in Pages : PageStep(p)
        BY <1>4
    <2>2. ASSUME NEW e \in Entries, NEW mode \in Modes, Claim(p, e, mode) PROVE LedgerInv'
        <3>1. CASE UNCHANGED attempts
            BY <2>2, <3>1, <1>2 DEF Claim, ledgerVars
        <3>2. CASE attempts' = Append(attempts, [entry |-> e, mode |-> mode,
                                                 post |-> "none"])
            <4>1. \A k \in DOMAIN attempts' : attempts'[k].post \in {"running", "called"} =>
                     k \in DOMAIN attempts /\ attempts'[k] = attempts[k]
                BY <1>1, <3>2
            <4> QED BY <4>1, <2>2, QuietStep DEF Claim, ledgerVars
        <3> QED BY <2>2, <3>1, <3>2 DEF Claim, pageVars
    <2>3. CASE Send(p)
        <3> DEFINE k == page[p].lease
        <3>1. k \in DOMAIN attempts
            BY <2>3 DEF Send, TypeOK
        <3>2. Answered(k, "travelling")
            BY <2>3 DEF Send, Answered
        <3>3. \A j \in DOMAIN attempts' : attempts'[j].post \in {"running", "called"} =>
                 j \in DOMAIN attempts /\ attempts'[j] = attempts[j]
            BY <1>1, <3>1, <3>2, AnsweredOthers
        <3> QED BY <3>3, <2>3, QuietStep DEF Send, ledgerVars
    <2>4. CASE Publish(p) \/ Complete(p) \/ Abandon(p) \/ Receive(p) \/ NetError(p) \/ Reload(p)
        BY <2>4, <1>2 DEF Publish, Complete, Abandon, Receive, NetError, Reload, ledgerVars, pageVars
    <2>5. ASSUME NEW e \in Entries,
                 (\E retry \in BOOLEAN : Recover(p, e, retry)) \/ Cancel(p, e)
          PROVE  LedgerInv'
        BY <2>5, <1>2 DEF Recover, Cancel, ledgerVars, pageVars
    <2> QED BY <2>1, <2>2, <2>3, <2>4, <2>5 DEF PageStep
<1>5. CASE \E k \in DOMAIN attempts : PostStep(k)
    <2>1. PICK k \in DOMAIN attempts : PostStep(k)
        BY <1>5
    <2>2. CASE Reject(k) \/ Join(k) \/ Recall(k)
        <3>1. PICK a : Answered(k, a) /\ a \notin {"running", "called"}
            BY <2>2 DEF Reject, Join, Recall
        <3>2. \A j \in DOMAIN attempts' : attempts'[j].post \in {"running", "called"} =>
                 j \in DOMAIN attempts /\ attempts'[j] = attempts[j]
            BY <1>1, <3>1, AnsweredOthers
        <3> QED BY <3>2, <2>2, QuietStep DEF Reject, Join, Recall, ledgerVars
    <2> QED BY <2>1, <2>2, BeginLedger, PerformLedger, SettleLedger DEF PostStep
<1>6. CASE Restart
    BY <1>6, RestartLedger
<1> QED BY <1>3, <1>4, <1>5, <1>6 DEF Next

\* However often an entry is claimed, posted, retried and restored, Codex takes
\* its text at most once.
THEOREM AtMostOnceHolds == Spec => []AtMostOnce
<1>1. LedgerInv => AtMostOnce
    BY DEF LedgerInv, SentIsKnown, AtMostOnce
<1> QED BY <1>1, InitType, StepType, LedgerInit, LedgerStep, PTL DEF Spec

-----------------------------------------------------------------------------
(* How an entry moves *)

\* What trimming makes of an entry.
Trimmed(s, t) ==
    \/ t = s
    \/ t = Expired /\ s.status # "absent"
    \/ s.status = "leased" /\ t = [s EXCEPT !.status = "unknown", !.lease = 0]

\* What an operation that is saved makes of a trimmed entry.
Operated(e, s, t) ==
    \/ s.status = "absent" /\ t = [status |-> "queued", body |-> TRUE, lease |-> 0]
    \/ s.status = "queued" /\ t = [s EXCEPT !.status = "leased", !.lease = Len(attempts) + 1]
    \/ \E p \in Pages :
          /\ page[p].stage = "reporting" /\ attempts[page[p].lease].entry = e
          /\ s.status = "leased" /\ s.lease = page[p].lease
          /\ t = Reported(s, page[p].outcome)
    \/ \E retry \in BOOLEAN :
          /\ s.status = "failed" \/ (s.status = "unknown" /\ ~retry)
          /\ t = Recovered(e, s, retry)
    \/ s.status \in {"queued", "failed"} /\ t = [s EXCEPT !.status = "cancelled", !.body = FALSE]

\* Trimmed, if anything, and saved or not.
Idles(e) == Trimmed(queue[e], queue'[e]) /\ disk'[e] \in {disk[e], queue'[e]}

\* Changed by an operation, in memory and on disk.
Operates(e) ==
    /\ \E s \in EntryStates : Trimmed(queue[e], s) /\ Operated(e, s, queue'[e])
    /\ disk'[e] = queue'[e]

\* Reconciled with the turn, then trimmed; each is saved or not.
Reconciles(e) ==
    \E s \in EntryStates :
        /\ \/ s = queue[e]
           \/ queue[e].status = "submitted" /\ s = [queue[e] EXCEPT !.status = "processing"]
           \/ queue[e].status = "processing" /\ s = [queue[e] EXCEPT !.status = "completed"]
        /\ Trimmed(s, queue'[e])
        /\ disk'[e] \in {disk[e], s, queue'[e]}

\* Read back from disk by a restart.
Restores(e) ==
    /\ queue'[e] = RestoredEntry(disk[e]) \/ (queue'[e] = Expired /\ disk[e].status # "absent")
    /\ e \in old /\ disk[e].status # "absent" => queue'[e] = Expired
    /\ disk'[e] \in {disk[e], queue'[e]}

Moves(e) == Idles(e) \/ Operates(e) \/ Reconciles(e) \/ Restores(e)

\* Trimming a queue trims each entry of it.
LEMMA TrimEntry ==
    ASSUME NEW q \in Queues, NEW e \in Entries
    PROVE  Trimmed(q[e], Trim(q)[e]) /\ Trim(q)[e] \in EntryStates
<1>1. Trim(q)[e] \in EntryStates
    BY TrimType DEF Queues
<1> QED BY <1>1 DEF Trim, Trimmed

\* An operation on entry d that is saved moves d, and trims the others.
LEMMA SavedMoves ==
    ASSUME TypeOK, NEW d \in Entries, NEW t, Saved([Trim(queue) EXCEPT ![d] = t]),
           Operated(d, Trim(queue)[d], t), NEW e \in Entries
    PROVE  Moves(e)
<1> DEFINE q == Trim(queue)
<1>1. /\ q \in Queues /\ Trimmed(queue[e], q[e]) /\ q[e] \in EntryStates
      /\ disk' = queue' /\ queue' = [q EXCEPT ![d] = t]
    BY TrimType, TrimEntry DEF TypeOK, Saved
<1>2. Operated(d, q[d], t)
    OBVIOUS
<1> HIDE DEF q
<1>3. CASE e = d
    <2>1. queue'[e] = t /\ disk'[e] = t
        BY <1>1, <1>3 DEF Queues
    <2> QED BY <1>1, <1>2, <1>3, <2>1 DEF Moves, Operates
<1>4. CASE e # d
    <2>1. queue'[e] = q[e] /\ disk'[e] = q[e]
        BY <1>1, <1>4 DEF Queues
    <2> QED BY <1>1, <2>1 DEF Moves, Idles
<1> QED BY <1>3, <1>4

\* An operation that is not saved trims.
LEMMA NotSavedMoves ==
    ASSUME TypeOK, NotSaved(Trim(queue)), NEW e \in Entries
    PROVE  Moves(e)
<1>1. queue' = Trim(queue) /\ disk' \in {disk, queue'}
    BY DEF NotSaved
<1>2. Trimmed(queue[e], queue'[e])
    BY <1>1, TrimEntry DEF TypeOK
<1> QED BY <1>1, <1>2 DEF Moves, Idles

\* Every step moves every entry in one of these ways.
LEMMA MoveStep ==
    ASSUME TypeOK, [Next]_vars, NEW e \in Entries
    PROVE  Moves(e)
<1> DEFINE q == Trim(queue)
<1>1. q \in Queues /\ queue \in Queues /\ disk \in Queues
    BY TrimType DEF TypeOK
<1>2. CASE UNCHANGED <<queue, disk>>
    BY <1>2 DEF Moves, Idles, Trimmed
<1>3. CASE UNCHANGED vars \/ TurnEnds \/ OtherTurn \/ TimeStep
    BY <1>2, <1>3 DEF vars, queueVars, TurnEnds, OtherTurn, TimeStep, LeaseRunsOut,
                      EntryAges, TargetExpires
<1>4. CASE \E k \in DOMAIN attempts : PostStep(k)
    BY <1>2, <1>4 DEF PostStep, Reject, Join, Recall, Begin, Perform, Succeed, Fail,
                      queueVars
<1>5. CASE Refused
    BY <1>5, NotSavedMoves DEF Refused
<1>6. ASSUME NEW d \in Entries, Enqueue(d) PROVE Moves(e)
    <2>1. Operated(d, q[d], [status |-> "queued", body |-> TRUE, lease |-> 0])
        BY <1>6 DEF Enqueue, Operated
    <2> QED BY <2>1, <1>6, SavedMoves, NotSavedMoves DEF Enqueue
<1>7. ASSUME NEW p \in Pages, PageStep(p) PROVE Moves(e)
    <2>1. CASE Send(p) \/ Abandon(p) \/ Receive(p) \/ NetError(p) \/ Reload(p)
        BY <2>1, <1>2 DEF Send, Abandon, Receive, NetError, Reload, queueVars
    <2>2. ASSUME NEW d \in Entries, NEW mode \in Modes, Claim(p, d, mode) PROVE Moves(e)
        <3> DEFINE k == Len(attempts) + 1
                   t == [q[d] EXCEPT !.status = "leased", !.lease = k]
        <3>1. q[d].status = "queued" /\ q[d] \in EntryStates
            BY <2>2, <1>1 DEF Claim, Queues
        <3>2. Operated(d, q[d], t)
            BY <3>1 DEF Operated
        <3>3. Saved([q EXCEPT ![d].status = "leased", ![d].lease = k]) \/ NotSaved(q)
            BY <2>2 DEF Claim
        <3> HIDE DEF q, k
        <3>4. [q EXCEPT ![d].status = "leased", ![d].lease = k] = [q EXCEPT ![d] = t]
            BY <1>1, <3>1 DEF Queues, EntryStates
        <3>5. Saved([q EXCEPT ![d] = t]) \/ NotSaved(q)
            BY <3>3, <3>4
        <3> HIDE DEF t
        <3> QED BY <3>2, <3>5, SavedMoves, NotSavedMoves DEF q
    <2>3. ASSUME NEW d \in Entries, NEW retry \in BOOLEAN, Recover(p, d, retry)
          PROVE  Moves(e)
        <3> DEFINE t == Recovered(d, q[d], retry)
        <3>1. Operated(d, q[d], t)
            BY <2>3 DEF Operated, Recover
        <3>2. Saved([q EXCEPT ![d] = t]) \/ NotSaved(q)
            BY <2>3 DEF Recover
        <3> HIDE DEF t
        <3> QED BY <3>1, <3>2, SavedMoves, NotSavedMoves
    <2>4. ASSUME NEW d \in Entries, Cancel(p, d) PROVE Moves(e)
        <3> DEFINE c == [q[d] EXCEPT !.status = "cancelled", !.body = FALSE]
                   t == IF q[d].status = "failed" /\ ledger[d] # "missing"
                        THEN Recovered(d, q[d], FALSE) ELSE c
        <3>1. q[d].status \in {"queued", "failed"}
            BY <2>4 DEF Cancel
        <3>2. Saved([q EXCEPT ![d] = t]) \/ NotSaved(q)
            BY <2>4 DEF Cancel
        <3> HIDE DEF q
        <3>3. ASSUME q[d].status = "failed", ledger[d] # "missing"
              PROVE  Operated(d, q[d], t)
            BY <3>3 DEF Operated
        <3>4. ASSUME ~(q[d].status = "failed" /\ ledger[d] # "missing")
              PROVE  Operated(d, q[d], t)
            BY <3>4, <3>1 DEF Operated
        <3>5. Operated(d, q[d], t)
            BY <3>3, <3>4
        <3> HIDE DEF t
        <3> QED BY <3>2, <3>5, SavedMoves, NotSavedMoves DEF q
    <2>5. CASE Complete(p)
        <3> DEFINE k == page[p].lease
                   d == attempts[k].entry
                   t == Reported(q[d], page[p].outcome)
        <3>1. page[p].stage = "reporting" /\ d \in Entries
            <4>1. page[p].stage = "reporting" /\ k \in DOMAIN attempts /\ attempts \in Seq(Attempts)
                BY <2>5 DEF Complete, TypeOK
            <4>2. attempts[k] \in Attempts
                BY <4>1
            <4> QED BY <4>1, <4>2 DEF Attempts
        <3>2. \/ /\ q[d].status = "leased" /\ q[d].lease = k
                 /\ Saved([q EXCEPT ![d] = t])
              \/ NotSaved(q)
            BY <2>5, <1>1, <3>1 DEF Complete, Queues
        <3>3. ASSUME q[d].status = "leased", q[d].lease = k PROVE Operated(d, q[d], t)
            BY <3>1, <3>3 DEF Operated
        <3> HIDE DEF t, d
        <3> QED BY <3>1, <3>2, <3>3, SavedMoves, NotSavedMoves
    <2>6. CASE Publish(p)
        <3> DEFINE r == Reconciled(queue, turn)
                   s == r[e]
        <3>1. queue[e] \in EntryStates
            BY <1>1 DEF Queues
        <3>2. \/ s = queue[e]
              \/ queue[e].status = "submitted" /\ s = [queue[e] EXCEPT !.status = "processing"]
              \/ queue[e].status = "processing" /\ s = [queue[e] EXCEPT !.status = "completed"]
            BY DEF Reconciled
        <3>3. r \in Queues
            <4>1. ASSUME NEW d \in Entries PROVE r[d] \in EntryStates
                <5>1. queue[d] \in EntryStates
                    BY <1>1 DEF Queues
                <5>2. /\ [queue[d] EXCEPT !.status = "processing"] \in EntryStates
                      /\ [queue[d] EXCEPT !.status = "completed"] \in EntryStates
                    BY <5>1 DEF EntryStates, Statuses
                <5> QED BY <5>1, <5>2 DEF Reconciled
            <4> QED BY <4>1 DEF Queues, Reconciled
        <3>4. queue' = Trim(r) /\ disk' \in {disk, r, queue'}
            BY <2>6 DEF Publish
        <3> HIDE DEF r
        <3>5. Trimmed(s, queue'[e]) /\ s \in EntryStates
            BY <3>3, <3>4, TrimEntry DEF Queues
        <3>6. disk'[e] \in {disk[e], s, queue'[e]}
            BY <3>4
        <3> QED BY <3>2, <3>5, <3>6 DEF Moves, Reconciles
    <2> QED BY <1>7, <2>1, <2>2, <2>3, <2>4, <2>5, <2>6 DEF PageStep
<1>8. CASE Restart
    <2>1. /\ queue'[e] = RestoredEntry(disk[e])
             \/ (queue'[e] = Expired /\ disk[e].status # "absent")
          /\ e \in old /\ disk[e].status # "absent" => queue'[e] = Expired
          /\ disk' \in {disk, queue'}
        BY <1>8 DEF Restart
    <2> QED BY <2>1 DEF Moves, Restores
<1> QED BY <1>3, <1>4, <1>5, <1>6, <1>7, <1>8 DEF Next

\* Trimming keeps an entry, expires it, or makes a leased one unknown.
LEMMA TrimmedIs ==
    ASSUME NEW s \in EntryStates, NEW t, Trimmed(s, t)
    PROVE  \/ t = s
           \/ t.status = "expired" /\ s.status # "absent"
           \/ t.status = "unknown" /\ s.status = "leased" /\ t.body = s.body
<1>1. CASE s.status = "leased" /\ t = [s EXCEPT !.status = "unknown", !.lease = 0]
    <2>1. t.status = "unknown"
        BY <1>1 DEF EntryStates
    <2>2. t.body = s.body
        BY <1>1 DEF EntryStates
    <2> QED BY <1>1, <2>1, <2>2
<1>2. CASE t = Expired /\ s.status # "absent"
    BY <1>2 DEF Expired
<1> QED BY <1>1, <1>2 DEF Trimmed

\* What an operation makes of an entry, field by field.
Outcome(e, s, t) ==
    \/ s.status = "absent" /\ t.status = "queued" /\ t.body
    \/ /\ s.status = "queued"
       /\ t.status = "leased" /\ t.lease = Len(attempts) + 1 /\ t.body = s.body
    \/ \E p \in Pages :
          /\ page[p].stage = "reporting" /\ attempts[page[p].lease].entry = e
          /\ s.status = "leased" /\ s.lease = page[p].lease
          /\ IF page[p].outcome = "succeeded" THEN t.status = "submitted"
             ELSE t.status = page[p].outcome /\ t.body = s.body
    \/ /\ s.status \in {"failed", "unknown"}
       /\ \/ t.status = "submitted" /\ ledger[e] = "succeeded"
          \/ t.status = "queued" /\ t.body = s.body /\ s.status = "failed"
          \/ t.status = "unknown" /\ t.body = s.body
    \/ s.status \in {"queued", "failed"} /\ t.status = "cancelled"

\* Every saved operation has such an outcome.
LEMMA OperatedIs ==
    ASSUME NEW e, NEW s \in EntryStates, NEW t, Operated(e, s, t)
    PROVE  Outcome(e, s, t)
<1>1. CASE s.status = "absent" /\ t = [status |-> "queued", body |-> TRUE, lease |-> 0]
    BY <1>1 DEF Outcome
<1>2. CASE s.status = "queued" /\ t = [s EXCEPT !.status = "leased", !.lease = Len(attempts) + 1]
    BY <1>2 DEF Outcome, EntryStates
<1>3. ASSUME NEW p \in Pages,
             page[p].stage = "reporting", attempts[page[p].lease].entry = e,
             s.status = "leased", s.lease = page[p].lease,
             t = Reported(s, page[p].outcome)
      PROVE  IF page[p].outcome = "succeeded" THEN t.status = "submitted"
             ELSE t.status = page[p].outcome /\ t.body = s.body
    BY <1>3 DEF Reported, EntryStates
<1>4. ASSUME NEW retry \in BOOLEAN,
             s.status = "failed" \/ (s.status = "unknown" /\ ~retry),
             t = Recovered(e, s, retry)
      PROVE  \/ t.status = "submitted" /\ ledger[e] = "succeeded"
             \/ t.status = "queued" /\ t.body = s.body /\ s.status = "failed"
             \/ t.status = "unknown" /\ t.body = s.body
    BY <1>4 DEF Recovered, EntryStates
<1>5. CASE s.status \in {"queued", "failed"} /\ t = [s EXCEPT !.status = "cancelled", !.body = FALSE]
    BY <1>5 DEF Outcome, EntryStates
<1> QED BY <1>1, <1>2, <1>3, <1>4, <1>5 DEF Operated, Outcome

\* What a restart makes of an entry.
LEMMA RestoredIs ==
    ASSUME NEW s \in EntryStates
    PROVE  \/ RestoredEntry(s) = s /\ s.status \notin {"leased", "submitted"}
           \/ /\ s.status \in {"leased", "submitted"}
              /\ RestoredEntry(s).status = "unknown" /\ RestoredEntry(s).body = s.body
    BY DEF RestoredEntry, EntryStates

\* What the turn makes of an entry.
LEMMA ReconciledIs ==
    ASSUME TypeOK, NEW e \in Entries, NEW s,
           \/ s = queue[e]
           \/ queue[e].status = "submitted" /\ s = [queue[e] EXCEPT !.status = "processing"]
           \/ queue[e].status = "processing" /\ s = [queue[e] EXCEPT !.status = "completed"]
    PROVE  /\ s.body = queue[e].body
           /\ \/ s = queue[e]
              \/ queue[e].status = "submitted" /\ s.status = "processing"
              \/ queue[e].status = "processing" /\ s.status = "completed"
<1>1. queue[e] \in EntryStates
    BY DEF TypeOK, Queues
<1> QED BY <1>1 DEF EntryStates

-----------------------------------------------------------------------------
(* What the queue says was sent, was sent *)

\* Entry state s of e says that Codex has the text, or no longer keeps it for it.
SaysSent(s) ==
    \/ s.status \in {"submitted", "processing", "completed"}
    \/ ~s.body /\ s.status \notin {"absent", "cancelled", "expired"}

EntriesTold == \A e \in Entries : SaysSent(queue[e]) \/ SaysSent(disk[e]) => sent[e] = 1

LedgerTold == \A e \in Entries : "succeeded" \in {ledger[e], ledgerDisk[e]} => sent[e] = 1

AttemptsTold == \A k \in DOMAIN attempts :
    attempts[k].post \in {"called", "succeeded"} => sent[attempts[k].entry] = 1

PagesTold == \A p \in Pages :
    page[p].outcome = "succeeded" => sent[attempts[page[p].lease].entry] = 1

\* The inductive invariant behind SubmittedWasSent and BodyKept.
ToldInv == EntriesTold /\ LedgerTold /\ AttemptsTold /\ PagesTold

-----------------------------------------------------------------------------
(* What the disk may hold beside what memory holds *)

\* Memory has the status q of an entry of which the disk has d.
Lags(d, q) ==
    \/ q = d
    \/ q = "expired"
    \/ d = "leased" /\ q = "unknown"
    \/ d = "submitted" /\ q \in {"processing", "completed", "unknown"}
    \/ d = "processing" /\ q = "completed"

LagInv == \A e \in Entries : Lags(disk[e].status, queue[e].status)

-----------------------------------------------------------------------------
(* An entry in the hands of a page *)

\* The entry is under lease k, or past being offered.
Past(s, k) ==
    \/ s.status = "leased" /\ s.lease = k
    \/ s.status \in {"unknown", "submitted", "processing", "completed", "expired"}

Holds(p) == page[p].stage \in {"claimed", "sending"}

HeldIsPast == \A p \in Pages : Holds(p) =>
    \A q \in {queue, disk} : Past(q[attempts[page[p].lease].entry], page[p].lease)

OnePagePerLease == \A p, r \in Pages :
    page[p].stage # "free" /\ page[r].stage # "free" /\ page[p].lease = page[r].lease => p = r

HoldInv == HeldIsPast /\ OnePagePerLease

-----------------------------------------------------------------------------
(* An entry that is unknown *)

\* Initially disk and memory agree.
LEMMA LagInit == Init => LagInv
    BY DEF Init, LagInv, Lags

\* However a save fails, and wherever a restart finds the disk, it lags so.
LEMMA LagStep == TypeOK /\ LagInv /\ [Next]_vars => LagInv'
<1> SUFFICES ASSUME TypeOK, LagInv, [Next]_vars, NEW e \in Entries
             PROVE  Lags(disk'[e].status, queue'[e].status)
    BY DEF LagInv
<1>1. /\ queue[e] \in EntryStates /\ disk[e] \in EntryStates
      /\ Lags(disk[e].status, queue[e].status)
    BY DEF TypeOK, Queues, LagInv
<1>2. CASE Idles(e)
    <2>1. \/ queue'[e] = queue[e]
          \/ queue'[e].status = "expired"
          \/ queue'[e].status = "unknown" /\ queue[e].status = "leased"
        BY <1>1, <1>2, TrimmedIs DEF Idles
    <2> QED BY <2>1, <1>1, <1>2 DEF Idles, Lags
<1>3. CASE Operates(e)
    BY <1>3 DEF Operates, Lags
<1>4. CASE Reconciles(e)
    <2>1. PICK s \in EntryStates :
              /\ \/ s = queue[e]
                 \/ queue[e].status = "submitted" /\ s = [queue[e] EXCEPT !.status = "processing"]
                 \/ queue[e].status = "processing" /\ s = [queue[e] EXCEPT !.status = "completed"]
              /\ Trimmed(s, queue'[e])
              /\ disk'[e] \in {disk[e], s, queue'[e]}
        BY <1>4 DEF Reconciles
    <2>2. \/ s = queue[e]
          \/ queue[e].status = "submitted" /\ s.status = "processing"
          \/ queue[e].status = "processing" /\ s.status = "completed"
        BY <2>1, ReconciledIs
    <2>3. \/ queue'[e] = s
          \/ queue'[e].status = "expired"
          \/ queue'[e].status = "unknown" /\ s.status = "leased"
        BY <2>1, TrimmedIs
    <2> QED BY <2>1, <2>2, <2>3, <1>1 DEF Lags
<1>5. CASE Restores(e)
    <2>1. queue'[e] = RestoredEntry(disk[e]) \/ queue'[e].status = "expired"
        BY <1>5 DEF Restores, Expired
    <2> QED BY <2>1, <1>1, <1>5, RestoredIs DEF Restores, Lags
<1> QED BY <1>2, <1>3, <1>4, <1>5, MoveStep DEF Moves

\* Only the ledger's proof or the end of its time moves an unknown entry.
LEMMA UnknownStep ==
    ASSUME TypeOK, LagInv, [Next]_vars, NEW e \in Entries, queue[e].status = "unknown"
    PROVE  queue'[e].status \in {"unknown", "submitted", "expired"}
<1>1. /\ queue[e] \in EntryStates /\ disk[e] \in EntryStates
      /\ Lags(disk[e].status, "unknown")
    BY DEF TypeOK, Queues, LagInv
<1>2. CASE Idles(e)
    BY <1>1, <1>2, TrimmedIs DEF Idles
<1>3. CASE Operates(e)
    <2>1. PICK s \in EntryStates : Trimmed(queue[e], s) /\ Operated(e, s, queue'[e])
        BY <1>3 DEF Operates
    <2>2. s.status \in {"unknown", "expired"}
        BY <2>1, <1>1, TrimmedIs
    <2> QED BY <2>1, <2>2, OperatedIs DEF Outcome
<1>4. CASE Reconciles(e)
    <2>1. Trimmed(queue[e], queue'[e])
        BY <1>4 DEF Reconciles
    <2> QED BY <2>1, <1>1, TrimmedIs
<1>5. CASE Restores(e)
    <2>1. queue'[e] = RestoredEntry(disk[e]) \/ queue'[e].status = "expired"
        BY <1>5 DEF Restores, Expired
    <2> QED BY <2>1, <1>1, RestoredIs DEF Lags
<1> QED BY <1>2, <1>3, <1>4, <1>5, MoveStep DEF Moves

\* An entry whose outcome is unknown stays so, over operations, failed saves and
\* restarts alike, until the ledger proves that it was sent or its time is up.
THEOREM UnknownNotResentHolds == Spec => UnknownNotResent
<1>1. TypeOK /\ LagInv /\ [Next]_vars =>
          [\A e \in Entries : queue[e].status = "unknown" =>
              queue'[e].status \in {"unknown", "submitted", "expired"}]_vars
    BY UnknownStep
<1> QED BY <1>1, InitType, StepType, LagInit, LagStep, PTL DEF Spec, UnknownNotResent

-----------------------------------------------------------------------------
(* How an attempt and a page move *)

\* Attempts are added, never withdrawn, and stay with their entry.
LEMMA AttemptsGrow ==
    ASSUME TypeOK, [Next]_vars
    PROVE  /\ \A k \in DOMAIN attempts :
                 k \in DOMAIN attempts' /\ attempts'[k].entry = attempts[k].entry
           /\ \A k \in DOMAIN attempts' \ DOMAIN attempts :
                 k = Len(attempts) + 1 /\ attempts'[k].post = "none"
<1>1. attempts \in Seq(Attempts) /\ \A k \in DOMAIN attempts : attempts[k] \in Attempts
    BY DEF TypeOK
<1>2. CASE UNCHANGED attempts
    BY <1>2
<1>3. ASSUME NEW k \in DOMAIN attempts, NEW a, Answered(k, a)
      PROVE  /\ DOMAIN attempts' = DOMAIN attempts
             /\ \A j \in DOMAIN attempts : attempts'[j].entry = attempts[j].entry
    BY <1>1, <1>3, AnsweredOthers
<1>4. ASSUME NEW k \in DOMAIN attempts, NEW a, attempts' = Settled(k, a)
      PROVE  /\ DOMAIN attempts' = DOMAIN attempts
             /\ \A j \in DOMAIN attempts : attempts'[j].entry = attempts[j].entry
    <2>1. \A j \in DOMAIN attempts : [attempts[j] EXCEPT !.post = a].entry = attempts[j].entry
        BY <1>1 DEF Attempts
    <2> QED BY <1>4, <2>1 DEF Settled
<1>5. CASE UNCHANGED vars \/ TurnEnds \/ OtherTurn \/ TimeStep \/ Refused
           \/ \E e \in Entries : Enqueue(e)
    BY <1>2, <1>5 DEF vars, pageVars, TurnEnds, OtherTurn, TimeStep,
                      LeaseRunsOut, EntryAges, TargetExpires, Refused, Enqueue
<1>6. ASSUME NEW p \in Pages, PageStep(p), ~UNCHANGED attempts
      PROVE  \/ page[p].stage # "free" /\ Answered(page[p].lease, "travelling")
             \/ \E e \in Entries, mode \in Modes : attempts' =
                   Append(attempts, [entry |-> e, mode |-> mode, post |-> "none"])
    <2>1. CASE Send(p)
        BY <2>1 DEF Send, Answered
    <2>2. CASE \E e \in Entries, mode \in Modes : Claim(p, e, mode)
        BY <2>2, <1>6 DEF Claim, pageVars
    <2> QED BY <2>1, <2>2, <1>6 DEF PageStep, Publish, Complete, Abandon, Receive, NetError,
                                    Reload, Recover, Cancel, pageVars
<1>7. CASE \E p \in Pages : PageStep(p)
    <2>1. PICK p \in Pages : PageStep(p)
        BY <1>7
    <2>2. CASE page[p].stage # "free" /\ Answered(page[p].lease, "travelling")
        <3>1. page[p].lease \in DOMAIN attempts
            BY <2>2 DEF TypeOK
        <3> QED BY <3>1, <2>2, <1>3
    <2>3. CASE \E e \in Entries, mode \in Modes : attempts' =
                   Append(attempts, [entry |-> e, mode |-> mode, post |-> "none"])
        BY <2>3, <1>1
    <2> QED BY <2>1, <2>2, <2>3, <1>6, <1>2
<1>8. CASE \E k \in DOMAIN attempts : PostStep(k)
    <2>1. PICK k \in DOMAIN attempts : PostStep(k)
        BY <1>8
    <2>2. CASE \E a : Answered(k, a)
        BY <2>2, <1>3
    <2>3. CASE \E a : attempts' = Settled(k, a)
        BY <2>3, <1>4
    <2> QED BY <2>1, <2>2, <2>3 DEF PostStep, Reject, Join, Recall, Begin, Perform,
                                          Succeed, Fail
<1>9. CASE Restart
    <2>1. \A j \in DOMAIN attempts : [attempts[j] EXCEPT !.post = "lost"].entry = attempts[j].entry
        BY <1>1 DEF Attempts
    <2> QED BY <2>1, <1>9 DEF Restart
<1> QED BY <1>5, <1>7, <1>8, <1>9 DEF Next

\* Page p goes on with the lease it has.
GoesOn(p) ==
    /\ page[p].stage # "free" /\ page'[p].lease = page[p].lease
    /\ Holds(p)' => Holds(p)
    /\ page'[p].outcome = "succeeded" =>
          page[p].outcome = "succeeded" \/ attempts[page[p].lease].post = "succeeded"

\* Page p takes a new lease, and the entry is under it in memory and on disk.
Takes(p) ==
    LET k == Len(attempts) + 1
        e == attempts'[k].entry
    IN  /\ page[p].stage = "free" /\ page'[p].lease = k /\ page'[p].outcome = "none"
        /\ \A q \in {queue', disk'} : q[e].status = "leased" /\ q[e].lease = k
        /\ \A r \in Pages \ {p} : page'[r] = page[r]

\* Whatever happens, a page has no entry, goes on with its own, or takes one.
LEMMA PageMoves ==
    ASSUME TypeOK, [Next]_vars, NEW p \in Pages
    PROVE  page'[p] = Free \/ GoesOn(p) \/ Takes(p)
<1>1. page \in [Pages -> PageStates] /\ page[p] \in PageStates
    BY DEF TypeOK
<1>2. page[p].stage = "free" => page[p] = Free
    BY <1>1 DEF PageStates, Free
<1>3. ASSUME page'[p] = page[p] PROVE page'[p] = Free \/ GoesOn(p)
    BY <1>2, <1>3 DEF GoesOn, Holds
<1>4. CASE page' = page
    BY <1>3, <1>4
<1>5. ASSUME NEW r \in Pages, PageStep(r) PROVE page'[p] = Free \/ GoesOn(p) \/ Takes(p)
    <2>1. CASE Publish(r) \/ \E e \in Entries : (\E retry \in BOOLEAN : Recover(r, e, retry))
                                                \/ Cancel(r, e)
        BY <2>1, <1>4 DEF Publish, Recover, Cancel, pageVars
    <2>2. CASE Complete(r) \/ Reload(r)
        BY <2>2, <1>1, <1>3 DEF Complete, Reload
    <2>3. CASE Send(r) \/ Abandon(r) \/ Receive(r) \/ NetError(r)
        <3>1. CASE r # p
            BY <3>1, <2>3, <1>1, <1>3 DEF Send, Abandon, Receive, NetError, SetPage
        <3>2. CASE r = p
            <4>1. PICK st, out :
                     /\ st \in {"sending", "reporting"}
                     /\ page' = [page EXCEPT ![p].stage = st, ![p].outcome = out]
                     /\ page[p].stage # "free"
                     /\ st = "sending" => page[p].stage = "claimed"
                     /\ out = "succeeded" => attempts[page[p].lease].post = "succeeded"
                BY <2>3, <3>2 DEF Send, Abandon, Receive, NetError, SetPage
            <4>2. page'[p].lease = page[p].lease /\ page'[p].stage = st /\ page'[p].outcome = out
                BY <4>1, <1>1 DEF PageStates
            <4> QED BY <4>1, <4>2 DEF GoesOn, Holds
        <3> QED BY <3>1, <3>2
    <2>4. ASSUME NEW e \in Entries, NEW mode \in Modes, Claim(r, e, mode)
          PROVE  page'[p] = Free \/ GoesOn(p) \/ Takes(p)
        <3> DEFINE q == Trim(queue)
                   k == Len(attempts) + 1
                   a == [entry |-> e, mode |-> mode, post |-> "none"]
        <3>1. CASE UNCHANGED page
            BY <3>1, <1>4
        <3>2. CASE /\ Saved([q EXCEPT ![e].status = "leased", ![e].lease = k])
                   /\ attempts' = Append(attempts, a)
                   /\ page' = [page EXCEPT ![r] = [stage |-> "claimed", lease |-> k,
                                                   outcome |-> "none"]]
            <4>1. CASE r # p
                BY <4>1, <3>2, <1>1, <1>3
            <4>2. CASE r = p
                <5>1. q \in Queues
                    BY TrimType DEF TypeOK
                <5>2. q[e] \in EntryStates
                    BY <5>1 DEF Queues
                <5>3. attempts \in Seq(Attempts)
                    BY DEF TypeOK
                <5>4. attempts'[k] = a
                    BY <5>3, <3>2
                <5>5. attempts'[k].entry = e
                    BY <5>4
                <5> HIDE DEF q, k, a
                <5>6. \A s \in {queue', disk'} : s[e].status = "leased" /\ s[e].lease = k
                    BY <5>1, <5>2, <3>2 DEF Queues, EntryStates, Saved
                <5>7. /\ page[p].stage = "free"
                      /\ page'[p].lease = k /\ page'[p].outcome = "none"
                      /\ \A s \in Pages \ {p} : page'[s] = page[s]
                    BY <2>4, <4>2, <3>2, <1>1 DEF Claim
                <5> QED BY <5>5, <5>6, <5>7 DEF Takes, k
            <4> QED BY <4>1, <4>2
        <3> QED BY <2>4, <3>1, <3>2 DEF Claim, pageVars
    <2> QED BY <1>5, <2>1, <2>2, <2>3, <2>4 DEF PageStep
<1>6. CASE \E k \in DOMAIN attempts : PostStep(k)
    BY <1>6, <1>4 DEF PostStep, Reject, Join, Recall, Begin, Perform, Succeed, Fail
<1>7. CASE UNCHANGED vars \/ TurnEnds \/ OtherTurn \/ TimeStep \/ Refused \/ Restart
           \/ \E e \in Entries : Enqueue(e)
    BY <1>7, <1>4 DEF vars, pageVars, TurnEnds, OtherTurn, TimeStep, LeaseRunsOut,
                      EntryAges, TargetExpires, Refused, Restart, Enqueue
<1> QED BY <1>5, <1>6, <1>7 DEF Next

-----------------------------------------------------------------------------
(* One executor at a time *)

\* Initially no page has an entry.
LEMMA HoldInit == Init => HoldInv
    BY DEF Init, HoldInv, HeldIsPast, OnePagePerLease, Holds, Free

\* A page has no lease but its own.
LEMMA OnePagePerLeaseStep ==
    ASSUME TypeOK, HoldInv, [Next]_vars
    PROVE  OnePagePerLease'
<1> SUFFICES ASSUME NEW p \in Pages, NEW r \in Pages, p # r,
                    page'[p].stage # "free", page'[r].stage # "free",
                    page'[p].lease = page'[r].lease
             PROVE  FALSE
    BY DEF OnePagePerLease
<1>1. attempts \in Seq(Attempts)
    BY DEF TypeOK
<1>2. \A s \in Pages : page[s].stage # "free" => page[s].lease # Len(attempts) + 1
    BY <1>1 DEF TypeOK
<1>3. \A s \in Pages : page'[s] = Free \/ GoesOn(s) \/ Takes(s)
    BY PageMoves
<1>4. ~(page'[p] = Free) /\ ~(page'[r] = Free)
    BY DEF Free
<1>5. CASE GoesOn(p) /\ GoesOn(r)
    BY <1>5 DEF GoesOn, HoldInv, OnePagePerLease
<1>6. CASE Takes(p) /\ GoesOn(r)
    BY <1>6, <1>2 DEF GoesOn, Takes
<1>7. CASE GoesOn(p) /\ Takes(r)
    BY <1>7, <1>2 DEF GoesOn, Takes
<1>8. CASE Takes(p) /\ Takes(r)
    BY <1>8 DEF Takes
<1> QED BY <1>3, <1>4, <1>5, <1>6, <1>7, <1>8

\* Trimming an entry that is held leaves it past being offered.
LEMMA TrimmedIsPast ==
    ASSUME NEW s \in EntryStates, NEW t, Trimmed(s, t), NEW k, Past(s, k)
    PROVE  Past(t, k)
    BY TrimmedIs DEF Past

\* An entry that a page goes on holding does not come back on offer.
LEMMA HeldStaysPast ==
    ASSUME TypeOK, HoldInv, [Next]_vars, NEW p \in Pages, Holds(p)
    PROVE  LET k == page[p].lease
               e == attempts[k].entry
           IN  Past(queue'[e], k) /\ Past(disk'[e], k)
<1> DEFINE k == page[p].lease
           e == attempts[k].entry
<1>1. e \in Entries
    <2>1. attempts \in Seq(Attempts) /\ k \in DOMAIN attempts
        BY DEF TypeOK, Holds
    <2>2. attempts[k] \in Attempts
        BY <2>1
    <2> QED BY <2>2 DEF Attempts
<1>2. Past(queue[e], k) /\ Past(disk[e], k)
    BY DEF HoldInv, HeldIsPast
<1>3. ASSUME NEW r \in Pages, page[r].stage = "reporting" PROVE page[r].lease # k
    BY <1>3 DEF HoldInv, OnePagePerLease, Holds
<1>4. SUFFICES Past(queue'[e], k) /\ Past(disk'[e], k)
    OBVIOUS
<1> HIDE DEF e, k
<1>5. queue[e] \in EntryStates /\ disk[e] \in EntryStates
    BY <1>1 DEF TypeOK, Queues
<1>6. CASE Idles(e)
    BY <1>6, <1>2, <1>5, TrimmedIsPast DEF Idles
<1>7. CASE Operates(e)
    <2>1. PICK s \in EntryStates : Trimmed(queue[e], s) /\ Operated(e, s, queue'[e])
        BY <1>7 DEF Operates
    <2>2. Past(s, k)
        BY <2>1, <1>2, <1>5, TrimmedIsPast
    <2>3. s.status \in {"unknown", "submitted", "processing", "completed", "expired"}
          \/ (s.status = "leased" /\ s.lease = k)
        BY <2>2 DEF Past
    <2>4. ~\E r \in Pages : page[r].stage = "reporting" /\ s.status = "leased" /\ s.lease = page[r].lease
        BY <2>3, <1>3
    <2>5. queue'[e].status \in {"submitted", "unknown"}
        BY <2>1, <2>3, <2>4, OperatedIs DEF Outcome
    <2> QED BY <2>5, <1>7 DEF Operates, Past
<1>8. CASE Reconciles(e)
    <2>1. PICK s \in EntryStates :
              /\ \/ s = queue[e]
                 \/ queue[e].status = "submitted" /\ s = [queue[e] EXCEPT !.status = "processing"]
                 \/ queue[e].status = "processing" /\ s = [queue[e] EXCEPT !.status = "completed"]
              /\ Trimmed(s, queue'[e])
              /\ disk'[e] \in {disk[e], s, queue'[e]}
        BY <1>8 DEF Reconciles
    <2>2. Past(s, k)
        BY <2>1, <1>1, <1>2, ReconciledIs DEF Past
    <2>3. Past(queue'[e], k)
        BY <2>1, <2>2, TrimmedIsPast
    <2> QED BY <2>1, <2>2, <2>3, <1>2
<1>9. CASE Restores(e)
    <2>1. queue'[e] = RestoredEntry(disk[e]) \/ queue'[e].status = "expired"
        BY <1>9 DEF Restores, Expired
    <2>2. Past(queue'[e], k)
        BY <2>1, <1>2, <1>5, RestoredIs DEF Past
    <2> QED BY <2>2, <1>2, <1>9 DEF Restores
<1> QED BY <1>1, <1>6, <1>7, <1>8, <1>9, MoveStep DEF Moves

\* Every step keeps HoldInv.
LEMMA HoldStep == TypeOK /\ HoldInv /\ [Next]_vars => HoldInv'
<1> SUFFICES ASSUME TypeOK, HoldInv, [Next]_vars PROVE HoldInv'
    OBVIOUS
<1>1. ASSUME NEW p \in Pages, Holds(p)'
      PROVE  LET k == page'[p].lease
                 e == attempts'[k].entry
             IN  Past(queue'[e], k) /\ Past(disk'[e], k)
    <2>1. page'[p] # Free
        BY <1>1 DEF Holds, Free
    <2>2. CASE GoesOn(p)
        <3>1. Holds(p) /\ page'[p].lease = page[p].lease
            BY <2>2, <1>1 DEF GoesOn
        <3>2. page[p].lease \in DOMAIN attempts
            BY <3>1 DEF Holds, TypeOK
        <3>3. attempts'[page[p].lease].entry = attempts[page[p].lease].entry
            BY <3>2, AttemptsGrow
        <3> QED BY <3>1, <3>3, HeldStaysPast
    <2>3. CASE Takes(p)
        BY <2>3 DEF Takes, Past
    <2> QED BY <2>1, <2>2, <2>3, PageMoves
<1>2. HeldIsPast'
    BY <1>1 DEF HeldIsPast
<1> QED BY <1>2, OnePagePerLeaseStep DEF HoldInv

\* An entry that can be claimed, or that the user has cancelled, is in nobody's
\* hands, and a restart, whatever the last saves left on disk, finds it so.
THEOREM ExclusiveExecutorHolds == Spec => []ExclusiveExecutor
<1>1. HoldInv => ExclusiveExecutor
    BY DEF HoldInv, HeldIsPast, Holds, Past, ExclusiveExecutor
<1> QED BY <1>1, InitType, StepType, HoldInit, HoldStep, PTL DEF Spec

-----------------------------------------------------------------------------
(* The queue does not say that a text was sent, or erase it, before it was *)

\* Initially nothing is said to be sent.
LEMMA ToldInit == Init => ToldInv
    BY DEF Init, ToldInv, EntriesTold, LedgerTold, AttemptsTold, PagesTold, SaysSent, Absent, Free

\* What has been sent once stays so.
LEMMA SentStays ==
    ASSUME TypeOK, LedgerInv, [Next]_vars, NEW e \in Entries, sent[e] = 1
    PROVE  sent'[e] = 1
<1>1. CASE UNCHANGED sent
    BY <1>1
<1>2. ASSUME NEW k \in DOMAIN attempts, Perform(k) PROVE sent'[e] = 1
    <2>1. sent[attempts[k].entry] = 0 /\ sent \in [Entries -> Nat]
        BY <1>2 DEF Perform, LedgerInv, UnderWayIsKnown, TypeOK
    <2> QED BY <2>1, <1>2 DEF Perform
<1>3. CASE \E k \in DOMAIN attempts : PostStep(k)
    BY <1>1, <1>2, <1>3 DEF PostStep, Reject, Join, Recall, Begin, Succeed, Fail
<1>4. CASE \E p \in Pages : PageStep(p)
    BY <1>1, <1>4 DEF PageStep, Publish, Claim, Recover, Cancel, Complete, Send, Abandon,
                      Receive, NetError, Reload
<1>5. CASE UNCHANGED vars \/ TurnEnds \/ OtherTurn \/ TimeStep \/ Refused \/ Restart
           \/ \E d \in Entries : Enqueue(d)
    BY <1>1, <1>5 DEF vars, TurnEnds, OtherTurn, TimeStep, LeaseRunsOut, EntryAges,
                      TargetExpires, Refused, Restart, Enqueue
<1> QED BY <1>3, <1>4, <1>5 DEF Next

\* Trimming an entry says nothing new.
LEMMA TrimmedSays ==
    ASSUME NEW s \in EntryStates, NEW t, Trimmed(s, t), SaysSent(t)
    PROVE  SaysSent(s)
    BY TrimmedIs DEF SaysSent

\* The queue says that a text was sent on the word of a page or of the ledger,
\* and both have it from Codex.
LEMMA EntriesToldStep ==
    ASSUME TypeOK, LedgerInv, ToldInv, [Next]_vars
    PROVE  EntriesTold'
<1> SUFFICES ASSUME NEW e \in Entries, SaysSent(queue'[e]) \/ SaysSent(disk'[e])
             PROVE  sent[e] = 1
    BY SentStays DEF EntriesTold, SaysSent
<1>1. queue[e] \in EntryStates /\ disk[e] \in EntryStates
    BY DEF TypeOK, Queues
<1>2. SaysSent(queue[e]) \/ SaysSent(disk[e]) => sent[e] = 1
    BY DEF ToldInv, EntriesTold
<1>3. ledger[e] = "succeeded" => sent[e] = 1
    BY DEF ToldInv, LedgerTold
<1>4. CASE Idles(e)
    BY <1>1, <1>2, <1>4, TrimmedSays DEF Idles
<1>5. CASE Operates(e)
    <2>1. PICK s \in EntryStates : Trimmed(queue[e], s) /\ Operated(e, s, queue'[e])
        BY <1>5 DEF Operates
    <2> DEFINE t == queue'[e]
    <2>2. SaysSent(t)
        BY <1>5 DEF Operates
    <2>3. SaysSent(s) => sent[e] = 1
        BY <2>1, <1>1, <1>2, TrimmedSays
    <2>4. CASE \/ s.status = "absent" /\ t.status = "queued" /\ t.body
               \/ s.status = "queued" /\ t.status = "leased" /\ t.body = s.body
               \/ s.status \in {"queued", "failed"} /\ t.status = "cancelled"
        BY <2>2, <2>3, <2>4 DEF SaysSent
    <2>5. ASSUME NEW p \in Pages,
                 page[p].stage = "reporting", attempts[page[p].lease].entry = e,
                 s.status = "leased",
                 IF page[p].outcome = "succeeded" THEN t.status = "submitted"
                 ELSE t.status = page[p].outcome /\ t.body = s.body
          PROVE  sent[e] = 1
        <3>1. CASE page[p].outcome = "succeeded"
            BY <2>5, <3>1 DEF ToldInv, PagesTold
        <3>2. CASE page[p].outcome # "succeeded"
            <4>1. page[p] \in PageStates
                BY DEF TypeOK
            <4>2. t.status \in {"failed", "unknown"} /\ t.body = s.body
                BY <4>1, <3>2, <2>5 DEF PageStates, Answers
            <4> QED BY <4>2, <2>2, <2>3, <2>5 DEF SaysSent
        <3> QED BY <3>1, <3>2
    <2>6. CASE /\ s.status \in {"failed", "unknown"}
               /\ \/ t.status = "submitted" /\ ledger[e] = "succeeded"
                  \/ t.status = "queued" /\ t.body = s.body /\ s.status = "failed"
                  \/ t.status = "unknown" /\ t.body = s.body
        BY <2>2, <2>3, <2>6, <1>3 DEF SaysSent
    <2>7. Outcome(e, s, t)
        BY <2>1, OperatedIs
    <2> HIDE DEF t
    <2> QED BY <2>4, <2>5, <2>6, <2>7 DEF Outcome
<1>6. CASE Reconciles(e)
    <2>1. PICK s \in EntryStates :
              /\ \/ s = queue[e]
                 \/ queue[e].status = "submitted" /\ s = [queue[e] EXCEPT !.status = "processing"]
                 \/ queue[e].status = "processing" /\ s = [queue[e] EXCEPT !.status = "completed"]
              /\ Trimmed(s, queue'[e])
              /\ disk'[e] \in {disk[e], s, queue'[e]}
        BY <1>6 DEF Reconciles
    <2>2. SaysSent(s) => sent[e] = 1
        BY <2>1, <1>2, ReconciledIs DEF SaysSent
    <2>3. SaysSent(queue'[e]) => sent[e] = 1
        BY <2>1, <2>2, TrimmedSays
    <2> QED BY <2>1, <2>2, <2>3, <1>2
<1>7. CASE Restores(e)
    <2>1. SaysSent(queue'[e]) => sent[e] = 1
        <3>1. CASE queue'[e] = RestoredEntry(disk[e])
            BY <3>1, <1>1, <1>2, RestoredIs DEF SaysSent
        <3>2. CASE queue'[e] = Expired
            BY <3>2 DEF SaysSent, Expired
        <3> QED BY <3>1, <3>2, <1>7 DEF Restores
    <2> QED BY <2>1, <1>2, <1>7 DEF Restores
<1> QED BY <1>4, <1>5, <1>6, <1>7, MoveStep DEF Moves

\* The ledger has its receipt from Codex, also after a restart.
LEMMA LedgerToldStep ==
    ASSUME TypeOK, LedgerInv, ToldInv, [Next]_vars
    PROVE  LedgerTold'
<1> SUFFICES ASSUME NEW e \in Entries, "succeeded" \in {ledger'[e], ledgerDisk'[e]}
             PROVE  sent[e] = 1
    BY SentStays DEF LedgerTold
<1>1. "succeeded" \in {ledger[e], ledgerDisk[e]} => sent[e] = 1
    BY DEF ToldInv, LedgerTold
<1>2. ledger \in [Entries -> Phases] /\ ledgerDisk \in [Entries -> Phases]
    BY DEF TypeOK
<1>3. CASE UNCHANGED ledgerVars
    BY <1>1, <1>3 DEF ledgerVars
<1>4. ASSUME NEW k \in DOMAIN attempts, Succeed(k) PROVE sent[e] = 1
    <2>1. sent[attempts[k].entry] = 1
        BY <1>4 DEF Succeed, ToldInv, AttemptsTold
    <2> QED BY <2>1, <1>1, <1>2, <1>4 DEF Succeed
<1>5. ASSUME NEW k \in DOMAIN attempts, Uncertain(k) PROVE sent[e] = 1
    BY <1>5, <1>1, <1>2 DEF Uncertain
<1>6. ASSUME NEW k \in DOMAIN attempts, Begin(k) PROVE sent[e] = 1
    BY <1>6, <1>1, <1>2 DEF Begin, WrittenAhead, ledgerVars
<1>7. CASE \E k \in DOMAIN attempts : PostStep(k)
    BY <1>3, <1>4, <1>5, <1>6, <1>7 DEF PostStep, Reject, Join, Recall, Perform, Fail
<1>8. CASE Restart
    BY <1>8, <1>1, <1>2 DEF Restart, RestoredPhase
<1>9. CASE \E p \in Pages : PageStep(p)
    BY <1>3, <1>9 DEF PageStep, Publish, Claim, Recover, Cancel, Complete, Send, Abandon,
                      Receive, NetError, Reload
<1>10. CASE UNCHANGED vars \/ TurnEnds \/ OtherTurn \/ TimeStep \/ Refused
            \/ \E d \in Entries : Enqueue(d)
    BY <1>3, <1>10 DEF vars, TurnEnds, OtherTurn, TimeStep, LeaseRunsOut, EntryAges,
                       TargetExpires, Refused, Enqueue
<1> QED BY <1>7, <1>8, <1>9, <1>10 DEF Next

\* An attempt is answered with success by Codex, by the ledger, or because it
\* joined one that was.
LEMMA AttemptsToldStep ==
    ASSUME TypeOK, LedgerInv, ToldInv, [Next]_vars
    PROVE  AttemptsTold'
<1> SUFFICES ASSUME NEW j \in DOMAIN attempts', attempts'[j].post \in {"called", "succeeded"}
             PROVE  sent'[attempts'[j].entry] = 1
    BY DEF AttemptsTold
<1>1. attempts \in Seq(Attempts)
    BY DEF TypeOK
<1>2. j \in DOMAIN attempts /\ attempts'[j].entry = attempts[j].entry
    BY AttemptsGrow
<1>3. attempts[j] \in Attempts /\ attempts[j].entry \in Entries
    <2>1. attempts[j] \in Attempts
        BY <1>1, <1>2
    <2> QED BY <2>1 DEF Attempts
<1>4. SUFFICES ASSUME ~(attempts[j].post \in {"called", "succeeded"})
               PROVE  sent'[attempts[j].entry] = 1
    BY <1>2, <1>3, SentStays DEF ToldInv, AttemptsTold
<1>5. attempts' # attempts
    BY <1>4
<1>6. CASE UNCHANGED vars \/ TurnEnds \/ OtherTurn \/ TimeStep \/ Refused
           \/ \E e \in Entries : Enqueue(e)
    BY <1>5, <1>6 DEF vars, pageVars, TurnEnds, OtherTurn, TimeStep,
                      LeaseRunsOut, EntryAges, TargetExpires, Refused, Enqueue
<1>7. CASE \E p \in Pages : PageStep(p)
    <2>1. PICK p \in Pages : PageStep(p)
        BY <1>7
    <2>2. CASE Send(p)
        <3>1. page[p].lease \in DOMAIN attempts
            BY <2>2 DEF Send, TypeOK
        <3>2. Answered(page[p].lease, "travelling")
            BY <2>2 DEF Send, Answered
        <3> QED BY <3>1, <3>2, <1>1, <1>2, <1>4, AnsweredOthers
    <2>3. ASSUME NEW e \in Entries, NEW mode \in Modes, Claim(p, e, mode) PROVE FALSE
        <3>1. attempts' = Append(attempts, [entry |-> e, mode |-> mode,
                                            post |-> "none"])
            BY <2>3, <1>5 DEF Claim, pageVars
        <3>2. attempts'[j] = attempts[j]
            BY <3>1, <1>1, <1>2
        <3> QED BY <3>2, <1>4
    <2> QED BY <2>1, <2>2, <2>3, <1>5 DEF PageStep, Publish, Complete, Abandon, Receive, NetError,
                                          Reload, Recover, Cancel, pageVars
<1>8. CASE \E k \in DOMAIN attempts : PostStep(k)
    <2>1. PICK k \in DOMAIN attempts : PostStep(k)
        BY <1>8
    <2>2. ASSUME NEW a, Answered(k, a)
          PROVE  j = k /\ a \in {"called", "succeeded"}
        BY <2>2, <1>1, <1>2, <1>4, AnsweredOthers
    <2>3. CASE Perform(k)
        <3>1. j = k /\ sent[attempts[k].entry] = 0
            BY <2>2, <2>3 DEF Perform, LedgerInv, UnderWayIsKnown
        <3>2. sent' = [sent EXCEPT ![attempts[k].entry] = @ + 1] /\ sent \in [Entries -> Nat]
            BY <2>3 DEF Perform, TypeOK
        <3> QED BY <3>1, <3>2, <1>3
    <2>4. CASE Recall(k)
        <3>1. j = k /\ ledger[attempts[k].entry] = "succeeded"
            BY <2>2, <2>4 DEF Recall
        <3> QED BY <3>1, <1>3, SentStays DEF ToldInv, LedgerTold
    <2>5. CASE Succeed(k)
        <3>1. attempts[k].post = "called" /\ attempts' = Settled(k, "succeeded")
            BY <2>5 DEF Succeed
        <3>2. attempts[j].entry = attempts[k].entry
            BY <3>1, <1>2, <1>4 DEF Settled
        <3> QED BY <3>1, <3>2, <1>3, SentStays DEF ToldInv, AttemptsTold
    <2>6. CASE Fail(k)
        <3> DEFINE s == Settled(k, "unknown")
        <3>1. s[j] = attempts[j] \/ s[j] = [attempts[j] EXCEPT !.post = "unknown"]
            BY <1>2 DEF Settled
        <3>3. [attempts[j] EXCEPT !.post = "unknown"] \in Attempts
              /\ [attempts[j] EXCEPT !.post = "unknown"].post = "unknown"
            BY <1>3 DEF Attempts, Posts, Answers
        <3>4. attempts' = s
            BY <2>6 DEF Fail
        <3> HIDE DEF s
        <3>5. s[j] \in Attempts /\ s[j].post \notin {"called", "succeeded"}
            BY <3>1, <3>3, <1>3, <1>4
        <3> QED BY <3>4, <3>5
    <2> QED BY <2>1, <2>2, <2>3, <2>4, <2>5, <2>6 DEF PostStep, Reject, Join, Begin
<1>9. CASE Restart
    <2>1. [attempts[j] EXCEPT !.post = "lost"].post = "lost"
        BY <1>3 DEF Attempts
    <2> QED BY <2>1, <1>2, <1>4, <1>9 DEF Restart
<1> QED BY <1>6, <1>7, <1>8, <1>9 DEF Next

\* A page reports success because its attempt was answered so.
LEMMA PagesToldStep ==
    ASSUME TypeOK, LedgerInv, ToldInv, [Next]_vars
    PROVE  PagesTold'
<1> SUFFICES ASSUME NEW p \in Pages, page'[p].outcome = "succeeded"
             PROVE  sent'[attempts'[page'[p].lease].entry] = 1
    BY DEF PagesTold
<1>1. GoesOn(p)
    BY PageMoves DEF Free, Takes
<1> DEFINE k == page[p].lease
<1>2. k \in DOMAIN attempts /\ page'[p].lease = k
    BY <1>1 DEF GoesOn, TypeOK
<1>3. attempts'[k].entry = attempts[k].entry
    BY <1>2, AttemptsGrow
<1>4. attempts[k].entry \in Entries
    <2>1. attempts \in Seq(Attempts)
        BY DEF TypeOK
    <2>2. attempts[k] \in Attempts
        BY <2>1, <1>2
    <2> QED BY <2>2 DEF Attempts
<1>5. sent[attempts[k].entry] = 1
    BY <1>1, <1>2 DEF GoesOn, ToldInv, AttemptsTold, PagesTold
<1> QED BY <1>2, <1>3, <1>4, <1>5, SentStays

\* Every step keeps ToldInv.
LEMMA ToldStep == TypeOK /\ LedgerInv /\ ToldInv /\ [Next]_vars => ToldInv'
    BY EntriesToldStep, LedgerToldStep, AttemptsToldStep, PagesToldStep DEF ToldInv

\* ToldInv holds in every reachable state.
LEMMA Told == Spec => []ToldInv
    BY InitType, StepType, LedgerInit, LedgerStep, ToldInit, ToldStep, PTL DEF Spec

\* An entry called submitted, processing or completed, in memory or on disk, is
\* one whose text Codex has taken.
THEOREM SubmittedWasSentHolds == Spec => []SubmittedWasSent
<1>1. ToldInv => SubmittedWasSent
    BY DEF ToldInv, EntriesTold, SaysSent, SubmittedWasSent
<1> QED BY <1>1, Told, PTL

\* The text of an entry is kept, in memory and on disk, until Codex has it, the
\* user cancels the entry, or its time is up.
THEOREM BodyKeptHolds == Spec => []BodyKept
<1>1. ToldInv => BodyKept
    BY DEF ToldInv, EntriesTold, SaysSent, BodyKept
<1> QED BY <1>1, Told, PTL
=============================================================================
