----------------------- MODULE RemoteWorkspaceProofs -----------------------
(***************************************************************************)
(* A remote node, for any cards, runs, queue limit and number of faults.   *)
(***************************************************************************)
EXTENDS RemoteWorkspace, TLAPS

RunType == [at : Requests \cup {"idle", "execution"},
            served : BOOLEAN, card : Cards \cup {NoCard},
            known : BOOLEAN, result : Outcomes \cup {"none"},
            todo : Seq(Entries), kept : Seq(Entries)]

\* Results of executions that have ended.
Done == {e \in [card : finished, result : Outcomes] :
            e.result = "completed" => e.card \in over}

WithCard == {"ack", "suppress", "beat", "execution", "return"}

Shape(s) ==
    /\ s.at \in WithCard => s.card \in Cards
    /\ s.at = "return" => /\ s.result \in Outcomes /\ s.card \in finished
                          /\ s.result = "completed" => s.card \in over
    /\ s.at = "flush" => /\ s.todo # <<>>
                         /\ s.todo \in Seq(Done) /\ s.kept \in Seq(Done)
                         /\ Len(s.todo) + Len(s.kept) <= QueueLimit

\* The queue, and what a flush holds of it, has only ended executions, and no
\* more of them than the queue has room for.
TypeInv ==
    /\ TypeOK
    /\ queue \in Seq(Done)
    /\ \A r \in Runs : Shape(run[r])

LEMMA SeqOfMore ==
    ASSUME NEW S, NEW T, S \subseteq T, NEW q \in Seq(S)
    PROVE  q \in Seq(T)
OBVIOUS

LEMMA IdleShape == Idle \in RunType /\ Shape(Idle)
BY DEF Idle, RunType, Shape, WithCard, Requests, Outcomes, NoCard

LEMMA TypeInit == Init => TypeInv
<1>1. ASSUME Init PROVE TypeInv
  <2>1. central \in [Cards -> {"absent", "queued", "acked", "active"} \cup Results]
        /\ executions \in [Cards -> Nat]
    BY <1>1 DEF Init
  <2>2. run \in [Runs -> RunType] /\ \A r \in Runs : Shape(run[r])
    BY <1>1, IdleShape DEF Init
  <2>3. arrived \in Seq(Cards) /\ queue \in Seq(Entries) /\ queue \in Seq(Done)
        /\ Len(queue) = 0
    BY <1>1 DEF Init
  <2>4. executed \in Seq(Cards) /\ Len(executed) = 0
    BY <1>1 DEF Init
  <2>5. /\ running \in BOOLEAN /\ finished = {} /\ lost = {} /\ late = {}
        /\ over = {} /\ deferred = {} /\ overlapped \in BOOLEAN
    BY <1>1 DEF Init
  <2>6. faults \in 0..MaxFaults
    BY <1>1, RemoteAssumption DEF Init
  <2>. QED
    BY <2>1, <2>2, <2>3, <2>4, <2>5, <2>6, RemoteAssumption DEF TypeInv, TypeOK, RunType
<1>. QED BY <1>1

-----------------------------------------------------------------------------
(* Types *)

Report == [card : Cards, status : {"acked", "active"} \cup Results]

LEMMA ReportsType ==
    ASSUME TypeInv, NEW r \in Runs
    PROVE  Reports(run[r]) \subseteq Report
<1>1. run[r] \in RunType /\ Shape(run[r]) /\ finished \subseteq Cards
  BY DEF TypeInv, TypeOK, RunType
<1>2. CASE run[r].at = "flush"
  <2>. DEFINE todo == run[r].todo
  <2>0. todo \in Seq(Done) /\ todo # <<>>
    BY <1>1, <1>2 DEF Shape
  <2>1. Head(todo) \in Done
    <3>. HIDE DEF todo
    <3>. QED BY <2>0
  <2>2. Head(run[r].todo).card \in Cards /\ Head(run[r].todo).result \in Outcomes
    BY <2>1, <1>1 DEF Done
  <2>. QED BY <2>2, <1>2 DEF Reports, Report, Results
<1>3. CASE run[r].at \in WithCard
  BY <1>1, <1>3 DEF Reports, Report, Results, Shape, WithCard, Outcomes
<1>4. CASE run[r].at \notin WithCard \cup {"flush"}
  BY <1>4 DEF Reports, WithCard
<1>. QED BY <1>2, <1>3, <1>4

LEMMA HandledType ==
    ASSUME TypeInv, NEW S, S \subseteq Report, Handled(S)
    PROVE  central' \in [Cards -> {"absent", "queued", "acked", "active"} \cup Results]
<1>. DEFINE Status == {"absent", "queued", "acked", "active"} \cup Results
<1>1. ASSUME NEW c \in Cards, \E l \in S : l.card = c
      PROVE  Reported(central[c], (CHOOSE l \in S : l.card = c).status) \in Status
  <2>1. (CHOOSE l \in S : l.card = c) \in Report
    BY <1>1
  <2>2. (CHOOSE l \in S : l.card = c).status \in Status
    BY <2>1 DEF Report
  <2>3. central[c] \in Status
    BY DEF TypeInv, TypeOK
  <2>. HIDE DEF Status
  <2>. QED BY <2>2, <2>3 DEF Reported
<1>2. \A c \in Cards : central[c] \in Status
  BY DEF TypeInv, TypeOK
<1>. HIDE DEF Status
<1>3. central' \in [Cards -> Status]
  BY <1>1, <1>2 DEF Handled
<1>. QED BY <1>3 DEF Status

LEMMA PutType ==
    ASSUME TypeInv, NEW r \in Runs, NEW s \in RunType, Shape(s),
           run' = [run EXCEPT ![r] = s], UNCHANGED <<finished, over>>
    PROVE  run' \in [Runs -> RunType] /\ \A q \in Runs : Shape(run[q])'
<1>1. run \in [Runs -> RunType] /\ \A q \in Runs : Shape(run[q])
  BY DEF TypeInv, TypeOK, RunType
<1>2. run' \in [Runs -> RunType]
  BY <1>1
<1>3. ASSUME NEW q \in Runs PROVE Shape(run[q])'
  <2>1. Shape(run'[q])
    BY <1>1
  <2>. QED BY <2>1 DEF Shape, Done
<1>. QED BY <1>2, <1>3

LEMMA EndType ==
    ASSUME TypeInv, NEW r \in Runs, End(r), UNCHANGED <<finished, over>>
    PROVE  /\ run' \in [Runs -> RunType] /\ \A q \in Runs : Shape(run[q])'
           /\ running' \in BOOLEAN
BY PutType, IdleShape DEF End

LEMMA AwaitType ==
    ASSUME TypeInv, NEW r \in Runs, NEW s \in RunType, Shape(s), Await(r, s),
           UNCHANGED <<finished, over>>
    PROVE  /\ run' \in [Runs -> RunType] /\ \A q \in Runs : Shape(run[q])'
           /\ running' \in BOOLEAN
<1>1. [s EXCEPT !.served = FALSE] \in RunType
  BY DEF RunType
<1>2. Shape([s EXCEPT !.served = FALSE])
  BY DEF Shape, RunType
<1>. QED BY <1>1, <1>2, PutType DEF Await, TypeInv, TypeOK

LEMMA FlushOnType ==
    ASSUME TypeInv, NEW r \in Runs, NEW todo \in Seq(Done), NEW kept \in Seq(Done),
           Len(todo) + Len(kept) <= QueueLimit, FlushOn(r, todo, kept),
           UNCHANGED <<finished, over>>
    PROVE  /\ run' \in [Runs -> RunType] /\ \A q \in Runs : Shape(run[q])'
           /\ running' \in BOOLEAN
           /\ queue' \in Seq(Done) /\ Len(queue') <= QueueLimit
<1>1. finished \subseteq Cards /\ queue \in Seq(Done) /\ Len(queue) <= QueueLimit
  BY DEF TypeInv, TypeOK
<1>2. todo \in Seq(Entries) /\ kept \in Seq(Entries)
  <2>1. Done \subseteq Entries
    BY <1>1 DEF Done, Entries
  <2>. QED BY <2>1, SeqOfMore
<1>3. CASE todo = <<>>
  <2>1. [Idle EXCEPT !.at = "poll"] \in RunType /\ Shape([Idle EXCEPT !.at = "poll"])
    BY IdleShape DEF RunType, Shape, WithCard, Requests
  <2>2. Len(kept) <= QueueLimit
    BY <1>3
  <2>. QED BY <1>1, <1>3, <2>1, <2>2, AwaitType DEF FlushOn
<1>4. CASE todo # <<>>
  <2>. DEFINE s == [Idle EXCEPT !.at = "flush", !.todo = todo, !.kept = kept]
  <2>1. s \in RunType
    BY <1>2 DEF Idle, RunType, Requests, Outcomes, NoCard
  <2>2. Shape(s)
    BY <1>4 DEF Idle, Shape, WithCard
  <2>. QED BY <1>1, <1>4, <2>1, <2>2, AwaitType DEF FlushOn
<1>. QED BY <1>3, <1>4

LEMMA FaultType ==
    ASSUME TypeInv, NEW S \in SUBSET Runs, Fault(S)
    PROVE  faults' \in 0..MaxFaults /\ late' \subseteq Report
<1>1. faults' \in 0..MaxFaults
  BY RemoteAssumption DEF TypeInv, TypeOK, Fault
<1>2. UNION {Reports(run[r]) : r \in {r \in S : ~run[r].served}} \subseteq Report
  BY ReportsType
<1>3. late \subseteq Report
  BY DEF TypeInv, TypeOK, Report
<1>4. late' \subseteq Report
  BY <1>2, <1>3 DEF Fault
<1>. QED BY <1>1, <1>4
\* The runner steps that leave the results and the queue alone.
RunnerOnly == /\ UNCHANGED <<arrived, central, queue, late, faults, over, results>>
              /\ overlapped' \in BOOLEAN
              /\ executed' \in Seq(Cards) /\ Len(executed') <= KeyLimit
              /\ executions' \in [Cards -> Nat]

LEMMA RunnerType ==
    ASSUME TypeInv, RunnerOnly, running' \in BOOLEAN,
           run' \in [Runs -> RunType], \A q \in Runs : Shape(run[q])'
    PROVE  TypeInv'
<1>1. (queue \in Seq(Done))'
  BY DEF TypeInv, RunnerOnly, Done, results
<1>2. TypeOK'
  BY DEF TypeInv, TypeOK, RunnerOnly, RunType, results
<1>. QED BY <1>1, <1>2 DEF TypeInv

LEMMA TypeEnqueue == ASSUME TypeInv, NEW c \in Cards, Enqueue(c) PROVE TypeInv'
<1>1. (queue \in Seq(Done))' /\ \A r \in Runs : Shape(run[r])'
  BY DEF TypeInv, Enqueue, node, history, results, Done, Shape
<1>2. arrived' \in Seq(Cards)
  BY DEF TypeInv, TypeOK, Enqueue
<1>3. central' \in [Cards -> {"absent", "queued", "acked", "active"} \cup Results]
  BY DEF TypeInv, TypeOK, Enqueue
<1>4. TypeOK'
  BY <1>2, <1>3 DEF TypeInv, TypeOK, Enqueue, node, history, results
<1>. QED BY <1>1, <1>4 DEF TypeInv

\* The turn of a card is over: more results of it may be "completed".
LEMMA TypeTurnEnds == ASSUME TypeInv, NEW c \in Cards, TurnEnds(c) PROVE TypeInv'
<1>. USE DEF TurnEnds, node, results
<1>1. over \subseteq over' /\ over' \subseteq Cards /\ finished' = finished
  BY DEF TypeInv, TypeOK
<1>2. Done \subseteq Done'
  BY <1>1 DEF Done
<1>3. ASSUME NEW r \in Runs PROVE Shape(run[r])'
  <2>1. run'[r] = run[r] /\ Shape(run[r])
    BY DEF TypeInv
  <2>2. run[r].at = "flush" => run[r].todo \in Seq(Done') /\ run[r].kept \in Seq(Done')
    BY <1>2, <2>1, SeqOfMore DEF Shape
  <2>. QED BY <1>1, <2>1, <2>2 DEF Shape
<1>4. (queue \in Seq(Done))'
  BY <1>2, SeqOfMore DEF TypeInv
<1>5. TypeOK'
  BY <1>1 DEF TypeInv, TypeOK
<1>. QED BY <1>3, <1>4, <1>5 DEF TypeInv

LEMMA TypeServe == ASSUME TypeInv, NEW r \in Runs, Serve(r) PROVE TypeInv'
<1>. USE DEF Serve, node, history, results
<1>1. central' \in [Cards -> {"absent", "queued", "acked", "active"} \cup Results]
  BY ReportsType, HandledType
<1>2. PICK c \in IF run[r].at # "poll" THEN {run[r].card}
                 ELSE IF Polled = {} THEN {NoCard} ELSE Polled :
             run' = [run EXCEPT ![r].served = TRUE, ![r].card = c]
  OBVIOUS
<1>. DEFINE s == [run[r] EXCEPT !.served = TRUE, !.card = c]
<1>3. run[r] \in RunType /\ Shape(run[r]) /\ run \in [Runs -> RunType]
  BY DEF TypeInv, TypeOK, RunType
<1>4. Polled \subseteq Cards
  BY DEF Polled, TypeInv, TypeOK
<1>5. c \in Cards \cup {NoCard}
  BY <1>3, <1>4 DEF RunType
<1>6. s \in RunType
  BY <1>3, <1>5 DEF RunType
<1>7. Shape(s)
  BY <1>3 DEF Shape, RunType, WithCard
<1>8. run' = [run EXCEPT ![r] = s]
  BY <1>2, <1>3 DEF RunType
<1>9. run' \in [Runs -> RunType] /\ \A q \in Runs : Shape(run[q])'
  BY <1>6, <1>7, <1>8, PutType
<1>10. (queue \in Seq(Done))'
  BY DEF TypeInv, Done
<1>11. TypeOK'
  BY <1>1, <1>9 DEF TypeInv, TypeOK, RunType
<1>. QED BY <1>9, <1>10, <1>11 DEF TypeInv

LEMMA TypeServeLate == ASSUME TypeInv, ServeLate PROVE TypeInv'
<1>1. PICK l \in late : Handled({l}) /\ late' = late \ {l}
                        /\ UNCHANGED <<arrived, node, running, run, faults, history>>
  BY DEF ServeLate
<1>2. {l} \subseteq Report
  BY DEF TypeInv, TypeOK, Report
<1>3. central' \in [Cards -> {"absent", "queued", "acked", "active"} \cup Results]
  BY <1>1, <1>2, HandledType
<1>4. (queue \in Seq(Done))' /\ \A r \in Runs : Shape(run[r])'
  BY <1>1 DEF TypeInv, node, history, results, Done, Shape
<1>5. TypeOK'
  BY <1>1, <1>3 DEF TypeInv, TypeOK, node, history, results
<1>. QED BY <1>4, <1>5 DEF TypeInv

LEMMA TypeStart == ASSUME TypeInv, NEW r \in Runs, Start(r) PROVE TypeInv'
<1>. DEFINE s == [Idle EXCEPT !.at = "register"]
<1>1. s \in RunType /\ Shape(s)
  BY IdleShape DEF RunType, Shape, WithCard, Requests
<1>2. run' = [run EXCEPT ![r] = s]
  BY DEF Start, TypeInv, TypeOK
<1>3. run' \in [Runs -> RunType] /\ \A q \in Runs : Shape(run[q])'
  BY <1>1, <1>2, PutType DEF Start, history, results
<1>. QED BY <1>3, RunnerType DEF Start, RunnerOnly, node, history, results, TypeInv, TypeOK

LEMMA TypeRegistered == ASSUME TypeInv, NEW r \in Runs, Registered(r) PROVE TypeInv'
<1>. USE DEF Registered, history, results
<1>1. <<>> \in Seq(Done) /\ queue \in Seq(Done) /\ Len(queue) + Len(<<>>) <= QueueLimit
  BY DEF TypeInv, TypeOK
<1>2. /\ run' \in [Runs -> RunType] /\ \A q \in Runs : Shape(run[q])'
      /\ running' \in BOOLEAN
      /\ queue' \in Seq(Done) /\ Len(queue') <= QueueLimit
  BY <1>1, FlushOnType
<1>3. (queue \in Seq(Done))' /\ (queue \in Seq(Entries))'
  <2>1. Done' = Done /\ Done \subseteq Entries
    BY DEF Done, Entries, TypeInv, TypeOK
  <2>. QED BY <1>2, <2>1, SeqOfMore
<1>4. TypeOK'
  BY <1>2, <1>3 DEF TypeInv, TypeOK, RunType
<1>. QED BY <1>2, <1>3, <1>4 DEF TypeInv

LEMMA TypeFlushed == ASSUME TypeInv, NEW r \in Runs, Flushed(r) PROVE TypeInv'
<1>. USE DEF Flushed, history, results
<1>. DEFINE todo == run[r].todo
            kept == run[r].kept
<1>1. todo # <<>> /\ todo \in Seq(Done) /\ kept \in Seq(Done)
      /\ Len(todo) + Len(kept) <= QueueLimit
  BY DEF TypeInv, Shape, Answered
<1>2. Tail(todo) \in Seq(Done) /\ Len(Tail(todo)) + Len(kept) <= QueueLimit
  <2>. HIDE DEF todo, kept
  <2>. QED BY <1>1, RemoteAssumption
<1>3. /\ run' \in [Runs -> RunType] /\ \A q \in Runs : Shape(run[q])'
      /\ running' \in BOOLEAN
      /\ queue' \in Seq(Done) /\ Len(queue') <= QueueLimit
  BY <1>1, <1>2, FlushOnType
<1>4. (queue \in Seq(Done))' /\ (queue \in Seq(Entries))'
  <2>1. Done' = Done /\ Done \subseteq Entries
    BY DEF Done, Entries, TypeInv, TypeOK
  <2>. QED BY <1>3, <2>1, SeqOfMore
<1>5. TypeOK'
  BY <1>3, <1>4 DEF TypeInv, TypeOK, RunType
<1>. QED BY <1>3, <1>4, <1>5 DEF TypeInv
LEMMA TypeGotCard == ASSUME TypeInv, NEW r \in Runs, GotCard(r) PROVE TypeInv'
<1>. USE DEF GotCard, node, history, results
<1>. DEFINE c == run[r].card
            s == [Idle EXCEPT !.at = "ack", !.card = c, !.known = Known(c)]
<1>1. RunnerOnly
  BY DEF RunnerOnly, TypeInv, TypeOK
<1>2. CASE c = NoCard
  BY <1>1, <1>2, EndType, RunnerType
<1>3. CASE c # NoCard
  <2>1. c \in Cards
    BY <1>3 DEF TypeInv, TypeOK
  <2>. DEFINE k == Known(c)
  <2>0. k \in BOOLEAN
    BY DEF Known
  <2>2. s \in RunType
    <3>1. [Idle EXCEPT !.at = "ack", !.card = c, !.known = k] \in RunType
      <4>. HIDE DEF k
      <4>. QED BY <2>0, <2>1, IdleShape DEF RunType, Requests
    <3>. QED BY <3>1
  <2>3. Shape(s)
    BY <2>1, IdleShape DEF RunType, Shape, WithCard
  <2>. QED BY <1>1, <1>3, <2>2, <2>3, AwaitType, RunnerType
<1>. QED BY <1>2, <1>3

LEMMA RememberedType ==
    ASSUME NEW q \in Seq(Cards), Len(q) <= KeyLimit, NEW c \in Cards
    PROVE  /\ Newest(Append(q, c), KeyLimit) \in Seq(Cards)
           /\ Len(Newest(Append(q, c), KeyLimit)) <= KeyLimit
BY RemoteAssumption DEF Newest

LEMMA TypeAcked == ASSUME TypeInv, NEW r \in Runs, Acked(r) PROVE TypeInv'
<1>. USE DEF Acked, history, results
<1>1. run[r] \in RunType /\ run[r].at = "ack" /\ run[r].card \in Cards
  BY DEF TypeInv, TypeOK, RunType, Answered, Shape, WithCard
<1>2. executed' \in Seq(Cards) /\ Len(executed') <= KeyLimit
  <2>1. executed \in Seq(Cards) /\ Len(executed) <= KeyLimit
    BY DEF TypeInv, TypeOK
  <2>2. executed' = executed \/ executed' = Newest(Append(executed, run[r].card), KeyLimit)
    BY DEF Remembered
  <2>. QED BY <1>1, <2>1, <2>2, RememberedType
<1>3. RunnerOnly
  BY <1>2 DEF RunnerOnly, TypeInv, TypeOK
<1>4. ASSUME NEW at \in {"suppress", "beat"}
      PROVE  [run[r] EXCEPT !.at = at] \in RunType /\ Shape([run[r] EXCEPT !.at = at])
  BY <1>1 DEF RunType, Requests, Shape, WithCard
<1>5. CASE run[r].known
  BY <1>3, <1>4, <1>5, AwaitType, RunnerType
<1>6. CASE ~run[r].known
  BY <1>3, <1>4, <1>6, AwaitType, RunnerType
<1>. QED BY <1>5, <1>6

LEMMA TypeExecute == ASSUME TypeInv, NEW r \in Runs, Execute(r) PROVE TypeInv'
<1>. USE DEF Execute, node, results
<1>. DEFINE s == [run[r] EXCEPT !.at = "execution"]
<1>1. run[r] \in RunType /\ run[r].at = "beat" /\ run[r].card \in Cards
  BY DEF TypeInv, TypeOK, RunType, Answered, Shape, WithCard
<1>2. RunnerOnly
  BY <1>1 DEF RunnerOnly, TypeInv, TypeOK
<1>3. s \in RunType /\ Shape(s)
  BY <1>1 DEF RunType, Shape, WithCard
<1>. QED BY <1>2, <1>3, AwaitType, RunnerType

LEMMA TypeExecuted == ASSUME TypeInv, NEW r \in Runs, Executed(r) PROVE TypeInv'
<1>. USE DEF Executed, node
<1>1. PICK o \in Outcomes :
          /\ o = "completed" => run[r].card \in over
          /\ Await(r, [run[r] EXCEPT !.at = "return", !.result = o])
  OBVIOUS
<1>. DEFINE s == [run[r] EXCEPT !.at = "return", !.result = o, !.served = FALSE]
<1>2. run \in [Runs -> RunType] /\ run[r] \in RunType
      /\ run[r].at = "execution" /\ run[r].card \in Cards
  BY DEF TypeInv, TypeOK, RunType, Shape, WithCard
<1>3. s \in RunType
  BY <1>2 DEF RunType, Requests
<1>4. run' = [run EXCEPT ![r] = s] /\ running' = running
  BY <1>1, <1>2 DEF Await, RunType
<1>5. run' \in [Runs -> RunType]
  BY <1>2, <1>3, <1>4
<1>6. finished \subseteq finished' /\ finished' \subseteq Cards
      /\ run[r].card \in finished'
  BY <1>2 DEF TypeInv, TypeOK
<1>7. Done \subseteq Done'
  BY <1>6 DEF Done
<1>8. ASSUME NEW q \in Runs PROVE Shape(run[q])'
  <2>1. CASE q = r
    <3>1. run'[q] = s
      BY <1>2, <1>4, <2>1
    <3>. QED BY <1>1, <1>2, <1>6, <3>1 DEF RunType, Shape
  <2>2. CASE q # r
    <3>1. run'[q] = run[q] /\ Shape(run[q])
      BY <1>2, <1>4, <2>2 DEF TypeInv
    <3>2. run[q].at = "flush" => run[q].todo \in Seq(Done') /\ run[q].kept \in Seq(Done')
      BY <1>7, <3>1, SeqOfMore DEF Shape
    <3>. QED BY <1>6, <3>1, <3>2 DEF Shape
  <2>. QED BY <2>1, <2>2
<1>9. (queue \in Seq(Done))'
  BY <1>7, SeqOfMore DEF TypeInv
<1>10. TypeOK'
  BY <1>4, <1>5, <1>6 DEF TypeInv, TypeOK, RunType
<1>. QED BY <1>8, <1>9, <1>10 DEF TypeInv

LEMMA TypeReturned == ASSUME TypeInv, NEW r \in Runs, Returned(r) PROVE TypeInv'
<1>1. RunnerOnly
  BY DEF Returned, RunnerOnly, node, history, results, TypeInv, TypeOK
<1>. QED BY <1>1, EndType, RunnerType DEF Returned, history, results

LEMMA TypeRequestFails == ASSUME TypeInv, NEW r \in Runs, RequestFails(r) PROVE TypeInv'
<1>. USE DEF RequestFails, node, history, results
<1>1. faults' \in 0..MaxFaults /\ late' \subseteq Report
  BY FaultType
<1>2. run' \in [Runs -> RunType] /\ (\A q \in Runs : Shape(run[q])')
      /\ running' \in BOOLEAN
  BY EndType
<1>3. (queue \in Seq(Done))'
  BY DEF TypeInv, Done
<1>4. TypeOK'
  BY <1>1, <1>2 DEF TypeInv, TypeOK, RunType, Report
<1>. QED BY <1>2, <1>3, <1>4 DEF TypeInv
LEMMA TypeFlushFails == ASSUME TypeInv, NEW r \in Runs, FlushFails(r) PROVE TypeInv'
<1>. USE DEF FlushFails, history, results
<1>. DEFINE todo == run[r].todo
            kept == run[r].kept
            more == Append(kept, Head(todo))
<1>1. todo # <<>> /\ todo \in Seq(Done) /\ kept \in Seq(Done)
      /\ Len(todo) + Len(kept) <= QueueLimit
  BY DEF TypeInv, Shape
<1>2. Tail(todo) \in Seq(Done) /\ more \in Seq(Done)
      /\ Len(Tail(todo)) + Len(more) <= QueueLimit
  <2>. HIDE DEF todo, kept
  <2>. QED BY <1>1, RemoteAssumption
<1>3. /\ run' \in [Runs -> RunType] /\ (\A q \in Runs : Shape(run[q])')
      /\ running' \in BOOLEAN
      /\ queue' \in Seq(Done) /\ Len(queue') <= QueueLimit
  BY <1>1, <1>2, FlushOnType DEF Kept
<1>4. (queue \in Seq(Done))' /\ (queue \in Seq(Entries))'
  <2>1. Done' = Done /\ Done \subseteq Entries
    BY DEF Done, Entries, TypeInv, TypeOK
  <2>. QED BY <1>3, <2>1, SeqOfMore
<1>5. faults' \in 0..MaxFaults /\ late' \subseteq Report
  BY FaultType
<1>6. deferred' \subseteq finished
  <2>1. Head(todo) \in Done
    <3>. HIDE DEF todo
    <3>. QED BY <1>1
  <2>. QED BY <2>1 DEF TypeInv, TypeOK, Done
<1>7. TypeOK'
  BY <1>3, <1>4, <1>5, <1>6 DEF TypeInv, TypeOK, RunType, Report
<1>. QED BY <1>3, <1>4, <1>7 DEF TypeInv

LEMMA TypeFlushRefused == ASSUME TypeInv, NEW r \in Runs, FlushRefused(r) PROVE TypeInv'
<1>. USE DEF FlushRefused, node, history, results
<1>1. faults' \in 0..MaxFaults /\ late' \subseteq Report
  BY FaultType
<1>2. run' \in [Runs -> RunType] /\ (\A q \in Runs : Shape(run[q])')
      /\ running' \in BOOLEAN
  BY EndType
<1>3. (queue \in Seq(Done))'
  BY DEF TypeInv, Done
<1>4. TypeOK'
  BY <1>1, <1>2 DEF TypeInv, TypeOK, RunType, Report
<1>. QED BY <1>2, <1>3, <1>4 DEF TypeInv

LEMMA TypeReturnFails == ASSUME TypeInv, NEW r \in Runs, ReturnFails(r) PROVE TypeInv'
<1>. USE DEF ReturnFails
<1>. DEFINE e == [card |-> run[r].card, result |-> run[r].result]
            q == Append(queue, e)
<1>1. e \in Done
  BY DEF TypeInv, Shape, Done
<1>2. queue \in Seq(Done) /\ Len(queue) <= QueueLimit /\ finished \subseteq Cards
      /\ lost \subseteq finished
  BY DEF TypeInv, TypeOK
<1>3. q \in Seq(Done) /\ Len(q) = Len(queue) + 1
  <2>. HIDE DEF e
  <2>. QED BY <1>1, <1>2
<1>4. Newest(q, QueueLimit) \in Seq(Done) /\ Len(Newest(q, QueueLimit)) <= QueueLimit
  <2>. HIDE DEF q
  <2>. QED BY <1>2, <1>3, RemoteAssumption DEF Newest
<1>5. queue' = Newest(q, QueueLimit) /\ finished' = finished
  OBVIOUS
<1>6. \A i \in 1..Len(q) - Len(queue') : q[i].card \in finished
  <2>1. ASSUME NEW i \in 1..Len(q) - Len(queue') PROVE q[i] \in Done
    <3>1. Len(queue') \in Nat /\ i \in 1..Len(q)
      BY <1>3, <1>4, <1>5
    <3>. HIDE DEF q
    <3>. QED BY <3>1, <1>3
  <2>. QED BY <2>1 DEF Done
<1>7. lost' \subseteq finished
  BY <1>2, <1>6
<1>8. Done' = Done /\ Done \subseteq Entries
  BY <1>2, <1>5 DEF Done, Entries
<1>9. (queue \in Seq(Done))' /\ (queue \in Seq(Entries))' /\ Len(queue') <= QueueLimit
  <2>. HIDE DEF q
  <2>. QED BY <1>4, <1>5, <1>8, SeqOfMore
<1>10. faults' \in 0..MaxFaults /\ late' \subseteq Report
  BY FaultType
<1>11. run' \in [Runs -> RunType] /\ (\A p \in Runs : Shape(run[p])')
       /\ running' \in BOOLEAN
  BY <1>5, EndType
<1>12. TypeOK'
  <2>. HIDE DEF q
  <2>. QED BY <1>5, <1>7, <1>9, <1>10, <1>11 DEF TypeInv, TypeOK, RunType, Report
<1>. QED BY <1>9, <1>11, <1>12 DEF TypeInv

LEMMA TypeCrash == ASSUME TypeInv, Crash PROVE TypeInv'
<1>. USE DEF Crash, node
<1>1. run' \in [Runs -> RunType] /\ (\A q \in Runs : Shape(run[q])')
  <2>1. Shape(Idle)'
    BY DEF Shape, Idle, WithCard
  <2>. QED BY <2>1, IdleShape
<1>2. lost' \subseteq finished
  BY DEF TypeInv, TypeOK, Shape
<1>3. faults' \in 0..MaxFaults /\ late' \subseteq Report
  BY FaultType
<1>4. (queue \in Seq(Done))'
  BY DEF TypeInv, Done
<1>5. TypeOK'
  BY <1>1, <1>2, <1>3 DEF TypeInv, TypeOK, RunType, Report
<1>. QED BY <1>1, <1>4, <1>5 DEF TypeInv
LEMMA TypeStep == TypeInv /\ [Next]_vars => TypeInv'
<1>. SUFFICES ASSUME TypeInv, [Next]_vars PROVE TypeInv'
  OBVIOUS
<1>1. ASSUME NEW r \in Runs, Progress(r) PROVE TypeInv'
  BY <1>1, TypeServe, TypeStart, TypeRegistered, TypeFlushed, TypeGotCard,
     TypeAcked, TypeExecute, TypeExecuted, TypeReturned DEF Progress
<1>2. ASSUME NEW r \in Runs,
             RequestFails(r) \/ ReturnFails(r) \/ FlushFails(r) \/ FlushRefused(r)
      PROVE  TypeInv'
  BY <1>2, TypeRequestFails, TypeReturnFails, TypeFlushFails, TypeFlushRefused
<1>3. ASSUME UNCHANGED vars PROVE TypeInv'
  BY <1>3 DEF vars, node, history, results, TypeInv, TypeOK, Done, Shape
<1>. QED BY <1>1, <1>2, <1>3, TypeEnqueue, TypeTurnEnds, TypeServeLate, TypeCrash DEF Next

LEMMA TypeInvHolds == Spec => []TypeInv
BY TypeInit, TypeStep, PTL DEF Spec

\* The state of the node and of the control plane keeps its shape: a run has
\* the card, the result and the returns that its next request needs, and the
\* queue of returns never outgrows its bound, which a flush keeps as well.
THEOREM TypeCorrect == Spec => []TypeOK
<1>1. TypeInv => TypeOK
  BY DEF TypeInv
<1>. QED BY <1>1, TypeInvHolds, PTL

-----------------------------------------------------------------------------
(* Terminal statuses *)

Settled(c) == central[c] \in Results

\* A terminal status never changes.
LEMMA SettledStays ==
    ASSUME NEW S, Handled(S), NEW c \in Cards, Settled(c)
    PROVE  Settled(c)'
BY DEF Handled, Reported, Settled

LEMMA SettledSteps ==
    ASSUME TypeInv, [Next]_vars, NEW c \in Cards, Settled(c)
    PROVE  Settled(c)'
<1>1. ASSUME NEW d \in Cards, Enqueue(d) PROVE Settled(c)'
  BY <1>1 DEF Enqueue, Settled, Results, Outcomes, Suppressed, TypeInv, TypeOK
<1>2. ASSUME ServeLate PROVE Settled(c)'
  BY <1>2, SettledStays DEF ServeLate
<1>3. ASSUME NEW r \in Runs, Progress(r) PROVE Settled(c)'
  BY <1>3, SettledStays DEF Progress, Serve, Start, Registered, Flushed, GotCard,
     Acked, Execute, Executed, Returned, Settled
<1>4. ASSUME central' = central PROVE Settled(c)'
  BY <1>4 DEF Settled
<1>5. ASSUME NEW r \in Runs,
             RequestFails(r) \/ ReturnFails(r) \/ FlushFails(r) \/ FlushRefused(r)
      PROVE  Settled(c)'
  BY <1>4, <1>5 DEF RequestFails, ReturnFails, FlushFails, FlushRefused
<1>. QED BY <1>1, <1>2, <1>3, <1>4, <1>5 DEF Next, TurnEnds, Crash, vars

-----------------------------------------------------------------------------
(* The runs, until two of them overlap *)

LEMMA OverlappedStays ==
    ASSUME TypeInv, [Next]_vars, ~overlapped'
    PROVE  /\ ~overlapped
           /\ \A r \in Runs : Start(r) => \A q \in Runs : run[q] = Idle
<1>1. ASSUME NEW r \in Runs, Start(r)
      PROVE  ~overlapped /\ \A q \in Runs : run[q] = Idle
  BY <1>1 DEF Start
<1>2. ASSUME NEW r \in Runs, Progress(r), ~Start(r) PROVE overlapped' = overlapped
  BY <1>2 DEF Progress, Serve, Registered, Flushed, GotCard, Acked, Execute, Executed,
              Returned, history
<1>3. ASSUME NEW r \in Runs,
             RequestFails(r) \/ ReturnFails(r) \/ FlushFails(r) \/ FlushRefused(r)
      PROVE  overlapped' = overlapped
  BY <1>3 DEF RequestFails, ReturnFails, FlushFails, FlushRefused, history
<1>4. ASSUME (\E c \in Cards : Enqueue(c) \/ TurnEnds(c)) \/ ServeLate \/ Crash
             \/ UNCHANGED vars
      PROVE  overlapped' = overlapped
  BY <1>4 DEF Enqueue, TurnEnds, ServeLate, Crash, vars, history
<1>. QED BY <1>1, <1>2, <1>3, <1>4 DEF Next

\* The flag of runOnce() is set while a run is under way, and keeps others out.
OneRun ==
    \A r \in Runs : run[r].at # "idle" =>
        /\ running
        /\ \A q \in Runs : run[q].at # "idle" => q = r

LEMMA OneRunStep ==
    ASSUME ~overlapped', TypeInv, OneRun, [Next]_vars
    PROVE  OneRun'
<1>1. run \in [Runs -> RunType]
  BY DEF TypeInv, TypeOK, RunType
<1>2. ASSUME NEW r \in Runs, NEW s \in RunType, run[r].at # "idle",
             run' = [run EXCEPT ![r] = s], running' = running
      PROVE  OneRun'
  BY <1>1, <1>2 DEF OneRun
<1>3. ASSUME NEW r \in Runs, run[r].at # "idle", End(r)
      PROVE  OneRun'
  <2>1. \A q \in Runs : run'[q].at = "idle"
    BY <1>1, <1>3 DEF OneRun, End, Idle
  <2>. QED BY <2>1 DEF OneRun
<1>4. ASSUME NEW r \in Runs, run[r].at # "idle", NEW s, Await(r, s)
      PROVE  OneRun'
  <2>1. \A q \in Runs \ {r} : run'[q] = run[q]
    BY <1>1, <1>4 DEF Await
  <2>. QED BY <1>1, <1>4, <2>1 DEF OneRun, Await
<1>5. ASSUME NEW r \in Runs, run[r].at # "idle", NEW todo, NEW kept, FlushOn(r, todo, kept)
      PROVE  OneRun'
  BY <1>4, <1>5 DEF FlushOn
<1>6. ASSUME NEW r \in Runs, Start(r) PROVE OneRun'
  <2>2. \A q \in Runs : run[q].at = "idle"
    BY <1>6, OverlappedStays DEF Idle
  <2>3. \A q \in Runs \ {r} : run'[q] = run[q]
    BY <1>1, <1>6 DEF Start
  <2>. QED BY <1>6, <2>2, <2>3 DEF OneRun, Start
<1>7. ASSUME NEW r \in Runs, Serve(r) PROVE OneRun'
  <2>1. run[r].at # "idle" /\ running' = running
    BY <1>7 DEF Serve, Requests
  <2>2. \A q \in Runs \ {r} : run'[q] = run[q]
    BY <1>1, <1>7 DEF Serve
  <2>. QED BY <2>1, <2>2 DEF OneRun
<1>8. ASSUME NEW r \in Runs, Progress(r), ~Start(r), ~Serve(r) PROVE OneRun'
  <2>1. run[r].at # "idle"
    BY <1>8 DEF Progress, Registered, Flushed, GotCard, Acked, Execute, Executed,
                Returned, Answered
  <2>2. \/ \E s : Await(r, s)
        \/ End(r)
        \/ \E todo, kept : FlushOn(r, todo, kept)
    BY <1>8 DEF Progress, Registered, Flushed, GotCard, Acked, Execute, Executed,
                Returned
  <2>. QED BY <2>1, <2>2, <1>3, <1>4, <1>5
<1>9. ASSUME NEW r \in Runs,
             RequestFails(r) \/ ReturnFails(r) \/ FlushFails(r) \/ FlushRefused(r)
      PROVE  OneRun'
  <2>1. run[r].at # "idle"
    BY <1>9 DEF RequestFails, ReturnFails, FlushFails, FlushRefused, Requests
  <2>2. End(r) \/ \E todo, kept : FlushOn(r, todo, kept)
    BY <1>9 DEF RequestFails, ReturnFails, FlushFails, FlushRefused
  <2>. QED BY <2>1, <2>2, <1>3, <1>5
<1>10. ASSUME Crash PROVE OneRun'
  BY <1>10 DEF Crash, Idle, OneRun
<1>11. ASSUME UNCHANGED <<run, running>> PROVE OneRun'
  BY <1>11 DEF OneRun
<1>12. ASSUME NEW c \in Cards, Enqueue(c) \/ TurnEnds(c) PROVE OneRun'
  BY <1>11, <1>12 DEF Enqueue, TurnEnds
<1>13. ASSUME ServeLate PROVE OneRun'
  BY <1>11, <1>13 DEF ServeLate
<1>14. ASSUME UNCHANGED vars PROVE OneRun'
  BY <1>11, <1>14 DEF vars
<1>. QED BY <1>6, <1>7, <1>8, <1>9, <1>10, <1>12, <1>13, <1>14 DEF Next
LEMMA OneRunInit == Init => OneRun
BY DEF Init, Idle, OneRun

-----------------------------------------------------------------------------
(* The executions, until runs overlap *)

\* The cards that arrived before c have their results.
Cleared(c) == \E i \in 1..Len(arrived) :
                 /\ arrived[i] = c
                 /\ \A j \in 1..(i - 1) : Settled(arrived[j])

\* No other card needs its key any more.
Alone(c) == \A d \in Cards \ {c} : executions[d] # 0 => Settled(d)

Arrivals == \A i \in 1..Len(arrived) : central[arrived[i]] # "absent"

\* A card keeps its key until it has a result, and is the first without one.
Keyed ==
    \A c \in Cards :
        /\ executions[c] <= 1
        /\ executions[c] # 0 /\ ~Settled(c) => Known(c) /\ Cleared(c)

\* The card of a run is the first that has no result, and the only one whose
\* key matters, from the poll that offered it to its execution.
OnItsWay ==
    \A r \in Runs, c \in Cards : run[r].card = c =>
        /\ run[r].at = "poll" /\ run[r].served /\ c # NoCard =>
              Cleared(c) /\ Alone(c) /\ (executions[c] # 0 => Known(c))
        /\ run[r].at = "ack" =>
              Cleared(c) /\ Alone(c) /\ (~run[r].known => executions[c] = 0)
        /\ run[r].at = "beat" =>
              Cleared(c) /\ Known(c) /\ executions[c] = 0

OnceInv == TypeInv /\ OneRun /\ Arrivals /\ Keyed /\ OnItsWay

LEMMA ArrivalsStep ==
    ASSUME TypeInv, Arrivals, [Next]_vars
    PROVE  Arrivals'
<1>1. /\ arrived \in Seq(Cards)
      /\ \A i \in 1..Len(arrived) : arrived[i] \in Cards
      /\ central \in [Cards -> {"absent", "queued", "acked", "active"} \cup Results]
  BY DEF TypeInv, TypeOK
<1>2. ASSUME NEW c \in Cards, Enqueue(c) PROVE Arrivals'
  <2>1. arrived' = Append(arrived, c) /\ central' = [central EXCEPT ![c] = "queued"]
    BY <1>2 DEF Enqueue
  <2>2. \A d \in Cards : central[d] # "absent" => central'[d] # "absent"
    BY <1>1, <2>1
  <2>3. central'[c] # "absent"
    BY <1>1, <2>1
  <2>4. ASSUME NEW i \in 1..Len(arrived')
        PROVE  arrived'[i] = c \/ (i \in 1..Len(arrived) /\ arrived'[i] = arrived[i])
    BY <1>1, <2>1
  <2>. QED BY <1>1, <2>2, <2>3, <2>4 DEF Arrivals
<1>3. ASSUME NEW S, S \subseteq Report, Handled(S), arrived' = arrived PROVE Arrivals'
  <2>1. ASSUME NEW d \in Cards, central[d] # "absent" PROVE central'[d] # "absent"
    <3>1. CASE \E l \in S : l.card = d
      <4>1. (CHOOSE l \in S : l.card = d) \in Report
        BY <1>3, <3>1
      <4>2. (CHOOSE l \in S : l.card = d).status # "absent"
        BY <4>1 DEF Report, Results, Outcomes, Suppressed
      <4>. QED BY <1>3, <2>1, <3>1, <4>2 DEF Handled, Reported
    <3>2. CASE ~\E l \in S : l.card = d
      BY <1>3, <2>1, <3>2 DEF Handled
    <3>. QED BY <3>1, <3>2
  <2>. QED BY <1>1, <1>3, <2>1 DEF Arrivals
<1>4. ASSUME NEW r \in Runs, Serve(r) PROVE Arrivals'
  BY <1>3, <1>4, ReportsType DEF Serve
<1>5. ASSUME ServeLate PROVE Arrivals'
  <2>1. \A l \in late : {l} \subseteq Report
    BY DEF TypeInv, TypeOK, Report
  <2>. QED BY <1>3, <1>5, <2>1 DEF ServeLate
<1>6. ASSUME UNCHANGED <<arrived, central>> PROVE Arrivals'
  BY <1>6 DEF Arrivals
<1>7. ASSUME NEW r \in Runs, Progress(r), ~Serve(r) PROVE UNCHANGED <<arrived, central>>
  BY <1>7 DEF Progress, Start, Registered, Flushed, GotCard, Acked, Execute, Executed,
              Returned
<1>8. ASSUME NEW r \in Runs,
             RequestFails(r) \/ ReturnFails(r) \/ FlushFails(r) \/ FlushRefused(r)
      PROVE  UNCHANGED <<arrived, central>>
  BY <1>8 DEF RequestFails, ReturnFails, FlushFails, FlushRefused
<1>. QED BY <1>2, <1>4, <1>5, <1>6, <1>7, <1>8 DEF Next, TurnEnds, Crash, vars

LEMMA ClearedStays ==
    ASSUME TypeInv, [Next]_vars, NEW c \in Cards, Cleared(c)
    PROVE  Cleared(c)'
<1>1. arrived \in Seq(Cards) /\ \A i \in 1..Len(arrived) : arrived[i] \in Cards
  BY DEF TypeInv, TypeOK
<1>2. \/ arrived' = arrived
      \/ \E d \in Cards : arrived' = Append(arrived, d)
  BY DEF Next, Enqueue, TurnEnds, Progress, Start, Serve, Registered, Flushed, GotCard,
         Acked, Execute, Executed, Returned, RequestFails, ReturnFails, FlushFails,
         FlushRefused, ServeLate, Crash, vars
<1>3. Len(arrived') >= Len(arrived)
      /\ \A i \in 1..Len(arrived) : i \in 1..Len(arrived') /\ arrived'[i] = arrived[i]
  BY <1>1, <1>2
<1>4. PICK i \in 1..Len(arrived) : /\ arrived[i] = c
                                   /\ \A j \in 1..(i - 1) : Settled(arrived[j])
  BY DEF Cleared
<1>5. ASSUME NEW d \in Cards, Settled(d) PROVE central'[d] \in Results
  BY <1>5, SettledSteps DEF Settled
<1>6. ASSUME NEW j \in 1..(i - 1) PROVE central'[arrived'[j]] \in Results
  <2>1. j \in 1..Len(arrived)
    BY <1>1
  <2>. QED BY <1>1, <1>3, <1>4, <1>5, <2>1
<1>. QED BY <1>3, <1>4, <1>6 DEF Cleared, Settled

\* A step that starts no execution and writes no key.
LEMMA KeyedStays ==
    ASSUME TypeInv, Keyed, [Next]_vars, UNCHANGED <<executed, executions>>
    PROVE  /\ Keyed'
           /\ \A c \in Cards : (Cleared(c) => Cleared(c)') /\ (Alone(c) => Alone(c)')
                              /\ (Known(c) <=> Known(c)')
<1>1. \A c \in Cards : Known(c) <=> Known(c)'
  BY DEF Known
<1>. QED BY <1>1, SettledSteps, ClearedStays DEF Keyed, Alone
LEMMA OnItsWayBut ==
    ASSUME TypeInv, Keyed, OnItsWay, [Next]_vars, UNCHANGED <<executed, executions>>,
           NEW r \in Runs, \A q \in Runs \ {r} : run'[q] = run[q],
           \/ run'[r].at \notin {"poll", "ack", "beat"}
           \/ run'[r].at = "poll" /\ ~run'[r].served
           \/ /\ run'[r].at = run[r].at /\ run'[r].at # "poll"
              /\ run'[r].card = run[r].card /\ run'[r].known = run[r].known
    PROVE  Keyed' /\ OnItsWay'
<1>1. /\ Keyed'
      /\ \A c \in Cards : (Cleared(c) => Cleared(c)') /\ (Alone(c) => Alone(c)')
                         /\ (Known(c) <=> Known(c)')
  BY KeyedStays
<1>2. ASSUME NEW q \in Runs, NEW c \in Cards, run'[q].card = c
      PROVE  /\ run'[q].at = "poll" /\ run'[q].served /\ c # NoCard =>
                   Cleared(c)' /\ Alone(c)' /\ (executions'[c] # 0 => Known(c)')
             /\ run'[q].at = "ack" =>
                   Cleared(c)' /\ Alone(c)' /\ (~run'[q].known => executions'[c] = 0)
             /\ run'[q].at = "beat" =>
                   Cleared(c)' /\ Known(c)' /\ executions'[c] = 0
  <2>1. CASE q = r
    BY <1>1, <1>2, <2>1 DEF OnItsWay
  <2>2. CASE q # r
    BY <1>1, <1>2, <2>2 DEF OnItsWay
  <2>. QED BY <2>1, <2>2
<1>. QED BY <1>1, <1>2 DEF OnItsWay

\* The poll offers the first card without a result: the one whose key is kept.
LEMMA OnceServe ==
    ASSUME TypeInv, Arrivals, Keyed, OnItsWay, [Next]_vars, NEW r \in Runs, Serve(r)
    PROVE  Keyed' /\ OnItsWay'
<1>. DEFINE Status == {"absent", "queued", "acked", "active"} \cup Results
<1>1. /\ run \in [Runs -> RunType] /\ central \in [Cards -> Status]
      /\ \A i \in 1..Len(arrived) : arrived[i] \in Cards
  BY DEF TypeInv, TypeOK, RunType
<1>2. /\ run'[r].at = run[r].at /\ run'[r].known = run[r].known
      /\ \A q \in Runs \ {r} : run'[q] = run[q]
      /\ UNCHANGED <<executed, executions>>
  BY <1>1 DEF Serve, node, history, results, RunType
<1>3. CASE run[r].at # "poll"
  <2>1. run'[r].card = run[r].card
    BY <1>1, <1>3 DEF Serve, RunType
  <2>. QED BY <1>2, <1>3, <2>1, OnItsWayBut
<1>4. CASE run[r].at = "poll"
  <2>1. /\ Keyed'
        /\ \A c \in Cards : (Cleared(c) => Cleared(c)') /\ (Alone(c) => Alone(c)')
                           /\ (Known(c) <=> Known(c)')
    BY <1>2, KeyedStays
  <2>2. run'[r].card # NoCard => run'[r].card \in Polled
    BY <1>1, <1>4 DEF Serve, RunType
  <2>3. ASSUME NEW c \in Cards, c \in Polled
        PROVE  Cleared(c) /\ Alone(c) /\ (executions[c] # 0 => Known(c))
    <3>1. PICK i \in 1..Len(arrived) :
              /\ arrived[i] = c /\ Offered(c)
              /\ \A j \in 1..(i - 1) : ~Offered(arrived[j])
      BY <2>3 DEF Polled
    <3>2. ~Settled(c)
      BY <3>1 DEF Offered, Settled, Results, Outcomes, Suppressed
    <3>3. Len(arrived) \in Nat
      BY DEF TypeInv, TypeOK
    <3>4. \A j \in 1..(i - 1) : Settled(arrived[j])
      <4>1. ASSUME NEW j \in 1..(i - 1) PROVE Settled(arrived[j])
        <5>1. j \in 1..Len(arrived)
          BY <3>3
        <5>2. arrived[j] \in Cards /\ central[arrived[j]] # "absent"
              /\ ~Offered(arrived[j])
          BY <1>1, <3>1, <5>1 DEF Arrivals
        <5>. QED BY <1>1, <5>2 DEF Offered, Settled
      <4>. QED BY <4>1
    <3>5. Cleared(c)
      BY <3>1, <3>4 DEF Cleared
    <3>6. ASSUME NEW d \in Cards \ {c}, executions[d] # 0, ~Settled(d) PROVE FALSE
      <4>1. Cleared(d)
        BY <3>6 DEF Keyed
      <4>2. PICK k \in 1..Len(arrived) :
                arrived[k] = d /\ \A j \in 1..(k - 1) : Settled(arrived[j])
        BY <4>1 DEF Cleared
      <4>3. CASE k < i
        BY <3>3, <3>4, <3>6, <4>2, <4>3
      <4>4. CASE i < k
        BY <3>1, <3>2, <3>3, <4>2, <4>4
      <4>5. CASE i = k
        BY <3>1, <3>6, <4>2, <4>5
      <4>. QED BY <3>3, <4>3, <4>4, <4>5
    <3>. QED BY <3>2, <3>5, <3>6 DEF Alone, Keyed
  <2>4. ASSUME NEW q \in Runs, NEW c \in Cards, run'[q].card = c
        PROVE  /\ run'[q].at = "poll" /\ run'[q].served /\ c # NoCard =>
                     Cleared(c)' /\ Alone(c)' /\ (executions'[c] # 0 => Known(c)')
               /\ run'[q].at = "ack" =>
                     Cleared(c)' /\ Alone(c)' /\ (~run'[q].known => executions'[c] = 0)
               /\ run'[q].at = "beat" =>
                     Cleared(c)' /\ Known(c)' /\ executions'[c] = 0
    <3>1. CASE q = r
      BY <1>2, <1>4, <2>1, <2>2, <2>3, <2>4, <3>1
    <3>2. CASE q # r
      BY <1>2, <2>1, <2>4, <3>2 DEF OnItsWay
    <3>. QED BY <3>1, <3>2
  <2>. QED BY <2>1, <2>4 DEF OnItsWay
<1>. QED BY <1>3, <1>4

LEMMA OnceGotCard ==
    ASSUME TypeInv, Keyed, OnItsWay, [Next]_vars, NEW r \in Runs, GotCard(r)
    PROVE  Keyed' /\ OnItsWay'
<1>. DEFINE d == run[r].card
            s == [Idle EXCEPT !.at = "ack", !.card = d, !.known = Known(d)]
<1>1. /\ run \in [Runs -> RunType] /\ run[r].at = "poll" /\ run[r].served
      /\ UNCHANGED <<executed, executions>>
  BY DEF TypeInv, TypeOK, RunType, GotCard, Answered, node, history, results
<1>2. CASE d = NoCard
  <2>1. run'[r].at \notin {"poll", "ack", "beat"} /\ \A q \in Runs \ {r} : run'[q] = run[q]
    BY <1>1, <1>2 DEF GotCard, End, Idle
  <2>. QED BY <1>1, <2>1, OnItsWayBut
<1>3. CASE d # NoCard
  <2>1. Await(r, s)
    BY <1>3 DEF GotCard
  <2>2. /\ run'[r].at = "ack" /\ run'[r].card = d /\ (run'[r].known <=> Known(d))
        /\ \A q \in Runs \ {r} : run'[q] = run[q]
    BY <1>1, <2>1 DEF Await, Idle
  <2>3. /\ Keyed'
        /\ \A c \in Cards : (Cleared(c) => Cleared(c)') /\ (Alone(c) => Alone(c)')
                           /\ (Known(c) <=> Known(c)')
    BY <1>1, KeyedStays
  <2>4. d \in Cards
    BY <1>1, <1>3 DEF RunType
  <2>5. Cleared(d) /\ Alone(d) /\ (executions[d] # 0 => Known(d))
    BY <1>1, <1>3, <2>4 DEF OnItsWay
  <2>6. ASSUME NEW q \in Runs, NEW c \in Cards, run'[q].card = c
        PROVE  /\ run'[q].at = "poll" /\ run'[q].served /\ c # NoCard =>
                     Cleared(c)' /\ Alone(c)' /\ (executions'[c] # 0 => Known(c)')
               /\ run'[q].at = "ack" =>
                     Cleared(c)' /\ Alone(c)' /\ (~run'[q].known => executions'[c] = 0)
               /\ run'[q].at = "beat" =>
                     Cleared(c)' /\ Known(c)' /\ executions'[c] = 0
    <3>1. CASE q = r
      BY <1>1, <2>2, <2>3, <2>5, <2>6, <3>1
    <3>2. CASE q # r
      BY <1>1, <2>2, <2>3, <2>6, <3>2 DEF OnItsWay
    <3>. QED BY <3>1, <3>2
  <2>. QED BY <2>3, <2>6 DEF OnItsWay
<1>. QED BY <1>2, <1>3

LEMMA NewestKnown ==
    ASSUME NEW q \in Seq(Cards), NEW c \in Cards
    PROVE  \E i \in 1..Len(Newest(Append(q, c), KeyLimit)) :
               Newest(Append(q, c), KeyLimit)[i] = c
<1>. DEFINE a == Append(q, c)
<1>1. Len(a) = Len(q) + 1 /\ a[Len(q) + 1] = c /\ Len(q) \in Nat /\ a \in Seq(Cards)
  OBVIOUS
<1>. HIDE DEF a
<1>2. CASE Len(a) > KeyLimit
  <2>1. Len(q) >= 1
    BY <1>1, <1>2, RemoteAssumption
  <2>2. Len(Tail(a)) = Len(q) /\ Tail(a)[Len(q)] = c
    BY <1>1, <2>1
  <2>. QED BY <1>2, <2>1, <2>2, <1>1 DEF Newest, a
<1>3. CASE ~(Len(a) > KeyLimit)
  <2>1. Len(q) + 1 \in 1..Len(a)
    BY <1>1
  <2>. QED BY <1>1, <1>3, <2>1 DEF Newest, a
<1>. QED BY <1>2, <1>3

\* The new key may drop the oldest one: no other card needs its own.
LEMMA OnceAcked ==
    ASSUME TypeInv, OneRun, Keyed, OnItsWay, [Next]_vars, NEW r \in Runs, Acked(r)
    PROVE  Keyed' /\ OnItsWay'
<1>. DEFINE d == run[r].card
<1>1. /\ run \in [Runs -> RunType] /\ run[r].at = "ack" /\ d \in Cards
      /\ executions' = executions /\ executed \in Seq(Cards)
  BY DEF TypeInv, TypeOK, RunType, Acked, Answered, Shape, WithCard, history, results
<1>2. Cleared(d) /\ Alone(d) /\ (~run[r].known => executions[d] = 0)
  BY <1>1 DEF OnItsWay
<1>3. CASE run[r].known
  <2>1. executed' = executed /\ Await(r, [run[r] EXCEPT !.at = "suppress"])
    BY <1>3 DEF Acked
  <2>2. run'[r].at = "suppress" /\ \A q \in Runs \ {r} : run'[q] = run[q]
    BY <1>1, <2>1 DEF Await, RunType
  <2>. QED BY <1>1, <2>1, <2>2, OnItsWayBut
<1>4. CASE ~run[r].known
  <2>1. executed' = Remembered(d) /\ Await(r, [run[r] EXCEPT !.at = "beat"])
    BY <1>4 DEF Acked
  <2>2. /\ run'[r].at = "beat" /\ run'[r].card = d
        /\ \A q \in Runs \ {r} : run'[q] = run[q]
    BY <1>1, <2>1 DEF Await, RunType
  <2>3. \A q \in Runs \ {r} : run[q].at = "idle"
    BY <1>1 DEF OneRun
  <2>4. \E i \in 1..Len(executed') : executed'[i] = d
    <3>1. CASE Known(d)
      BY <2>1, <3>1 DEF Remembered, Known
    <3>2. CASE ~Known(d)
      <4>1. executed' = Newest(Append(executed, d), KeyLimit)
        BY <2>1, <3>2 DEF Remembered
      <4>. HIDE DEF d
      <4>. QED BY <1>1, <4>1, NewestKnown
    <3>. QED BY <3>1, <3>2
  <2>5. \A c \in Cards : c = d => Known(c)'
    BY <2>4 DEF Known
  <2>6. \A c \in Cards : executions'[c] # 0 => Settled(c)'
    BY <1>1, <1>2, <1>4, SettledSteps DEF Alone
  <2>7. Keyed'
    BY <1>1, <2>6 DEF Keyed
  <2>8. \A c \in Cards : c = d => Cleared(c)'
    BY <1>2, ClearedStays
  <2>9. OnItsWay'
    BY <1>1, <1>2, <1>4, <2>2, <2>3, <2>5, <2>8 DEF OnItsWay
  <2>. QED BY <2>7, <2>9
<1>. QED BY <1>3, <1>4

LEMMA OnceExecute ==
    ASSUME TypeInv, OneRun, Keyed, OnItsWay, [Next]_vars, NEW r \in Runs, Execute(r)
    PROVE  Keyed' /\ OnItsWay'
<1>. DEFINE d == run[r].card
<1>1. /\ run \in [Runs -> RunType] /\ run[r].at = "beat" /\ d \in Cards
      /\ executed' = executed /\ executions \in [Cards -> Nat]
  BY DEF TypeInv, TypeOK, RunType, Execute, Answered, Shape, WithCard, node
<1>2. Cleared(d) /\ Known(d) /\ executions[d] = 0
  BY <1>1 DEF OnItsWay
<1>3. executions' = [executions EXCEPT ![d] = 1]
  BY <1>1, <1>2 DEF Execute
<1>4. run'[r].at = "execution" /\ \A q \in Runs \ {r} : run'[q] = run[q]
  BY <1>1 DEF Execute, Await, RunType
<1>5. \A q \in Runs \ {r} : run[q].at = "idle"
  BY <1>1 DEF OneRun
<1>6. OnItsWay'
  BY <1>4, <1>5 DEF OnItsWay
<1>7. \A c \in Cards : Known(c) <=> Known(c)'
  BY <1>1 DEF Known
<1>8. ASSUME NEW c \in Cards
      PROVE  /\ executions'[c] <= 1
             /\ executions'[c] # 0 /\ ~Settled(c)' => Known(c)' /\ Cleared(c)'
  <2>1. CASE c = d
    <3>1. Cleared(c) /\ Known(c)
      BY <1>2, <2>1
    <3>. QED BY <1>1, <1>3, <1>7, <2>1, <3>1, ClearedStays
  <2>2. CASE c # d
    BY <1>1, <1>3, <1>7, <2>2, SettledSteps, ClearedStays DEF Keyed
  <2>. QED BY <2>1, <2>2
<1>9. Keyed'
  BY <1>8 DEF Keyed
<1>. QED BY <1>6, <1>9
LEMMA OnceStep ==
    ASSUME TypeInv, OneRun, Arrivals, Keyed, OnItsWay, [Next]_vars
    PROVE  Keyed' /\ OnItsWay'
<1>1. run \in [Runs -> RunType]
  BY DEF TypeInv, TypeOK, RunType
<1>2. ASSUME NEW r \in Runs, UNCHANGED <<executed, executions>>, End(r)
      PROVE  Keyed' /\ OnItsWay'
  <2>1. run'[r].at \notin {"poll", "ack", "beat"} /\ \A q \in Runs \ {r} : run'[q] = run[q]
    BY <1>1, <1>2 DEF End, Idle
  <2>. QED BY <1>2, <2>1, OnItsWayBut
<1>3. ASSUME NEW r \in Runs, UNCHANGED <<executed, executions>>,
             NEW todo, NEW kept, FlushOn(r, todo, kept)
      PROVE  Keyed' /\ OnItsWay'
  <2>1. /\ run'[r].at \notin {"ack", "beat"} /\ ~run'[r].served
        /\ \A q \in Runs \ {r} : run'[q] = run[q]
    BY <1>1, <1>3 DEF FlushOn, Await, Idle
  <2>. QED BY <1>3, <2>1, OnItsWayBut
<1>4. ASSUME NEW r \in Runs, Start(r) PROVE Keyed' /\ OnItsWay'
  <2>1. /\ run'[r].at \notin {"poll", "ack", "beat"}
        /\ \A q \in Runs \ {r} : run'[q] = run[q]
        /\ UNCHANGED <<executed, executions>>
    BY <1>1, <1>4 DEF Start, RunType, node, history, results
  <2>. QED BY <2>1, OnItsWayBut
<1>5. ASSUME NEW r \in Runs, Executed(r) PROVE Keyed' /\ OnItsWay'
  <2>1. /\ run'[r].at \notin {"poll", "ack", "beat"}
        /\ \A q \in Runs \ {r} : run'[q] = run[q]
        /\ UNCHANGED <<executed, executions>>
    BY <1>1, <1>5 DEF Executed, Await, RunType, node
  <2>. QED BY <2>1, OnItsWayBut
<1>6. ASSUME NEW r \in Runs, Registered(r) \/ Flushed(r) \/ Returned(r)
      PROVE  Keyed' /\ OnItsWay'
  <2>1. UNCHANGED <<executed, executions>>
    BY <1>6 DEF Registered, Flushed, Returned, node, history, results
  <2>2. End(r) \/ \E todo, kept : FlushOn(r, todo, kept)
    BY <1>6 DEF Registered, Flushed, Returned
  <2>. QED BY <2>1, <2>2, <1>2, <1>3
<1>7. ASSUME NEW r \in Runs,
             RequestFails(r) \/ ReturnFails(r) \/ FlushFails(r) \/ FlushRefused(r)
      PROVE  Keyed' /\ OnItsWay'
  <2>1. UNCHANGED <<executed, executions>>
    BY <1>7 DEF RequestFails, ReturnFails, FlushFails, FlushRefused, node, history, results
  <2>2. End(r) \/ \E todo, kept : FlushOn(r, todo, kept)
    BY <1>7 DEF RequestFails, ReturnFails, FlushFails, FlushRefused
  <2>. QED BY <2>1, <2>2, <1>2, <1>3
<1>8. ASSUME UNCHANGED <<executed, executions, run>> PROVE Keyed' /\ OnItsWay'
  <2>1. /\ Keyed'
        /\ \A c \in Cards : (Cleared(c) => Cleared(c)') /\ (Alone(c) => Alone(c)')
                           /\ (Known(c) <=> Known(c)')
    BY <1>8, KeyedStays
  <2>2. OnItsWay'
    BY <1>8, <2>1 DEF OnItsWay
  <2>. QED BY <2>1, <2>2
<1>9. ASSUME Crash PROVE Keyed' /\ OnItsWay'
  <2>1. UNCHANGED <<executed, executions>> /\ \A r \in Runs : run'[r].at = "idle"
    BY <1>9 DEF Crash, Idle, node
  <2>2. Keyed'
    BY <2>1, KeyedStays
  <2>3. OnItsWay'
    BY <2>1 DEF OnItsWay
  <2>. QED BY <2>2, <2>3
<1>10. ASSUME (\E c \in Cards : Enqueue(c) \/ TurnEnds(c)) \/ ServeLate \/ UNCHANGED vars
       PROVE  Keyed' /\ OnItsWay'
  BY <1>8, <1>10 DEF Enqueue, TurnEnds, ServeLate, vars, node, history, results
<1>. QED BY <1>4, <1>5, <1>6, <1>7, <1>9, <1>10, OnceServe, OnceGotCard, OnceAcked,
            OnceExecute DEF Next, Progress

LEMMA OnceInit == Init => Arrivals /\ Keyed /\ OnItsWay
BY DEF Init, Idle, Arrivals, Keyed, OnItsWay

\* Until runs overlap, the execution of no card is started twice, whatever
\* requests fail, are served late or cross a restart, and although old keys are
\* dropped: the key is written before the execution, no other run can be
\* between the two, and a card is not offered before the earlier ones have
\* their results.
THEOREM ExecutedOnceHolds == Spec => []ExecutedOnce
<1>. DEFINE Inv == TypeInv /\ (~overlapped => OnceInv)
<1>1. Init => Inv
  BY TypeInit, OneRunInit, OnceInit DEF OnceInv
<1>2. Inv /\ [Next]_vars => Inv'
  <2>1. ASSUME Inv, [Next]_vars, ~overlapped' PROVE OnceInv'
    <3>1. OnceInv
      BY <2>1, OverlappedStays
    <3>. QED BY <2>1, <3>1, TypeStep, OneRunStep, ArrivalsStep, OnceStep DEF OnceInv
  <2>. QED BY <2>1, TypeStep
<1>3. Inv => ExecutedOnce
  BY DEF OnceInv, Keyed, ExecutedOnce
<1>. QED BY <1>1, <1>2, <1>3, PTL DEF Spec

-----------------------------------------------------------------------------
(* The results, until runs overlap *)

CardsOf(q) == {q[i].card : i \in 1..Len(q)}

\* A flush goes on with all of the queue that the control plane does not have,
\* and an answered report of a result is one that the control plane has.
Accounted ==
    \A r \in Runs :
        /\ run[r].at = "flush" =>
              /\ \A c \in CardsOf(queue) :
                    Settled(c) \/ c \in CardsOf(run[r].todo) \/ c \in CardsOf(run[r].kept)
              /\ run[r].served => Settled(Head(run[r].todo).card)
        /\ run[r].at = "return" /\ run[r].served => Settled(run[r].card)

LEMMA CardsOfTail ==
    ASSUME NEW S, NEW q \in Seq(S), q # <<>>
    PROVE  CardsOf(q) = {Head(q).card} \cup CardsOf(Tail(q))
<1>1. Len(q) \in Nat \ {0} /\ Len(Tail(q)) = Len(q) - 1 /\ Head(q) = q[1]
  OBVIOUS
<1>2. \A i \in 1..Len(Tail(q)) : Tail(q)[i] = q[i + 1]
  OBVIOUS
<1>3. ASSUME NEW i \in 1..Len(q) PROVE q[i].card \in {Head(q).card} \cup CardsOf(Tail(q))
  <2>1. CASE i = 1
    BY <1>1, <2>1
  <2>2. CASE i # 1
    <3>1. i - 1 \in 1..Len(Tail(q)) /\ Tail(q)[i - 1] = q[i]
      BY <1>1, <1>2, <2>2
    <3>. QED BY <3>1 DEF CardsOf
  <2>. QED BY <2>1, <2>2
<1>4. ASSUME NEW i \in 1..Len(Tail(q)) PROVE Tail(q)[i].card \in CardsOf(q)
  <2>1. i + 1 \in 1..Len(q) /\ Tail(q)[i] = q[i + 1]
    BY <1>1, <1>2
  <2>. QED BY <2>1 DEF CardsOf
<1>5. Head(q).card \in CardsOf(q)
  BY <1>1 DEF CardsOf
<1>. QED BY <1>3, <1>4, <1>5 DEF CardsOf

LEMMA CardsOfAppend ==
    ASSUME NEW S, NEW q \in Seq(S), NEW e \in S
    PROVE  CardsOf(Append(q, e)) = CardsOf(q) \cup {e.card}
<1>1. Len(Append(q, e)) = Len(q) + 1 /\ Len(q) \in Nat
  OBVIOUS
<1>2. \A i \in 1..Len(q) : Append(q, e)[i] = q[i]
  OBVIOUS
<1>3. Append(q, e)[Len(q) + 1] = e
  OBVIOUS
<1>4. ASSUME NEW i \in 1..(Len(q) + 1)
      PROVE  Append(q, e)[i].card \in CardsOf(q) \cup {e.card}
  <2>1. CASE i \in 1..Len(q)
    BY <1>2, <2>1 DEF CardsOf
  <2>2. CASE i = Len(q) + 1
    BY <1>3, <2>2
  <2>. QED BY <1>1, <2>1, <2>2
<1>5. ASSUME NEW i \in 1..Len(q) PROVE q[i].card \in CardsOf(Append(q, e))
  <2>1. i \in 1..Len(Append(q, e))
    BY <1>1
  <2>. QED BY <1>2, <2>1 DEF CardsOf
<1>6. e.card \in CardsOf(Append(q, e))
  <2>1. Len(q) + 1 \in 1..Len(Append(q, e))
    BY <1>1
  <2>. QED BY <1>3, <2>1 DEF CardsOf
<1>. QED BY <1>1, <1>4, <1>5, <1>6 DEF CardsOf

\* Serving the report of a result settles its card.
LEMMA ServeSettles ==
    ASSUME TypeInv, NEW r \in Runs, Serve(r)
    PROVE  /\ run[r].at = "flush" => central'[Head(run[r].todo).card] \in Results
           /\ run[r].at = "return" => central'[run[r].card] \in Results
<1>1. run[r] \in RunType /\ Shape(run[r]) /\ finished \subseteq Cards
  BY DEF TypeInv, TypeOK, RunType
<1>2. ASSUME NEW c \in Cards, NEW o \in Outcomes,
             Handled({[card |-> c, status |-> o]})
      PROVE  central'[c] \in Results
  <2>. DEFINE x == [card |-> c, status |-> o]
  <2>0. (CHOOSE l \in {x} : l.card = c) = x
    OBVIOUS
  <2>1. central'[c] = Reported(central[c], o)
    BY <1>2, <2>0 DEF Handled
  <2>2. o # "acked" /\ o \in Results
    BY DEF Outcomes, Results
  <2>. QED BY <2>1, <2>2 DEF Reported
<1>3. CASE run[r].at = "flush"
  <2>. DEFINE todo == run[r].todo
  <2>0. todo \in Seq(Done) /\ todo # <<>>
    BY <1>1, <1>3 DEF Shape
  <2>1. Head(todo) \in Done
    <3>. HIDE DEF todo
    <3>. QED BY <2>0
  <2>2. Head(todo).card \in Cards /\ Head(todo).result \in Outcomes
    BY <2>1, <1>1 DEF Done
  <2>3. Handled({[card |-> Head(todo).card, status |-> Head(todo).result]})
    BY <1>3 DEF Serve, Reports
  <2>. QED BY <1>2, <1>3, <2>2, <2>3
<1>4. CASE run[r].at = "return"
  <2>1. run[r].card \in Cards /\ run[r].result \in Outcomes
    BY <1>1, <1>4 DEF Shape, WithCard
  <2>2. Handled({[card |-> run[r].card, status |-> run[r].result]})
    BY <1>4 DEF Serve, Reports
  <2>. QED BY <1>2, <1>4, <2>1, <2>2
<1>. QED BY <1>3, <1>4
Returning(c) == \E r \in Runs : run[r].at = "return" /\ run[r].card = c

\* The control plane has a result of every card, or will be told of one.
AllKept ==
    \A c \in finished \ lost : Settled(c) \/ Returning(c) \/ c \in CardsOf(queue)

\* The one run under way takes a step that leaves the queue and the results.
LEMMA KeptBut ==
    ASSUME TypeInv, OneRun, Accounted, AllKept, [Next]_vars,
           UNCHANGED <<queue, finished, lost>>,
           NEW r \in Runs, run[r].at # "idle", \A q \in Runs \ {r} : run'[q] = run[q],
           run[r].at = "return" => run[r].served,
           run'[r].at \notin {"flush", "return"}
    PROVE  Accounted' /\ AllKept'
<1>1. \A q \in Runs \ {r} : run[q].at = "idle"
  BY DEF OneRun
<1>2. Accounted'
  BY <1>1 DEF Accounted
<1>3. ASSUME NEW c \in finished \ lost PROVE Settled(c)' \/ c \in CardsOf(queue)
  <2>1. c \in Cards
    BY DEF TypeInv, TypeOK
  <2>2. CASE Settled(c)
    BY <2>1, <2>2, SettledSteps
  <2>3. CASE Returning(c)
    <3>1. run[r].at = "return" /\ run[r].card = c
      BY <1>1, <2>3 DEF Returning
    <3>2. Settled(c)
      BY <3>1 DEF Accounted
    <3>. QED BY <2>1, <3>2, SettledSteps
  <2>. QED BY <2>2, <2>3 DEF AllKept
<1>4. CardsOf(queue)' = CardsOf(queue)
  BY DEF CardsOf
<1>. QED BY <1>2, <1>3, <1>4 DEF AllKept

\* Nothing of the runs, the queue or the results changes.
LEMMA KeptStable ==
    ASSUME TypeInv, Accounted, AllKept, [Next]_vars,
           UNCHANGED <<run, queue, finished, lost>>
    PROVE  Accounted' /\ AllKept'
<1>1. CardsOf(queue)' = CardsOf(queue) /\ \A c : Returning(c)' <=> Returning(c)
  BY DEF CardsOf, Returning
<1>2. AllKept'
  <2>1. \A c \in finished \ lost : c \in Cards
    BY DEF TypeInv, TypeOK
  <2>. QED BY <1>1, <2>1, SettledSteps DEF AllKept
<1>3. ASSUME NEW r \in Runs, run[r].at = "flush"
      PROVE  /\ \A c \in CardsOf(queue) :
                    \/ Settled(c)'
                    \/ c \in CardsOf(run[r].todo) \/ c \in CardsOf(run[r].kept)
             /\ run[r].served => central'[Head(run[r].todo).card] \in Results
  <2>. DEFINE todo == run[r].todo
  <2>1. CardsOf(queue) \subseteq Cards
    <3>1. \A i \in 1..Len(queue) : queue[i] \in Entries
      BY DEF TypeInv, TypeOK
    <3>. QED BY <3>1 DEF CardsOf, Entries
  <2>2. todo \in Seq(Done) /\ todo # <<>>
    BY <1>3 DEF TypeInv, Shape
  <2>3. Head(todo) \in Done
    <3>. HIDE DEF todo
    <3>. QED BY <2>2
  <2>4. Head(todo).card \in Cards
    BY <2>3 DEF Done, TypeInv, TypeOK
  <2>5. Settled(Head(todo).card) => central'[Head(todo).card] \in Results
    <3>1. ASSUME NEW d \in Cards, Settled(d) PROVE central'[d] \in Results
      BY <3>1, SettledSteps DEF Settled
    <3>. QED BY <2>4, <3>1
  <2>6. \A c \in CardsOf(queue) :
           Settled(c) \/ c \in CardsOf(todo) \/ c \in CardsOf(run[r].kept)
    BY <1>3 DEF Accounted
  <2>7. run[r].served => Settled(Head(todo).card)
    BY <1>3 DEF Accounted
  <2>. QED BY <2>1, <2>5, <2>6, <2>7, SettledSteps
<1>4. ASSUME NEW r \in Runs, run[r].at = "return", run[r].served
      PROVE  central'[run[r].card] \in Results
  <2>1. run[r].card \in Cards /\ Settled(run[r].card)
    BY <1>4 DEF TypeInv, Shape, WithCard, Accounted
  <2>2. ASSUME NEW d \in Cards, Settled(d) PROVE central'[d] \in Results
    BY <2>2, SettledSteps DEF Settled
  <2>. QED BY <2>1, <2>2
<1>5. Accounted'
  BY <1>1, <1>3, <1>4 DEF Accounted, Settled, CardsOf
<1>. QED BY <1>2, <1>5
LEMMA KeptFlushOn ==
    ASSUME TypeInv, OneRun, Accounted, AllKept, [Next]_vars,
           UNCHANGED <<finished, lost>>, NEW r \in Runs,
           run[r].at \in {"register", "flush"},
           NEW todo \in Seq(Done), NEW kept \in Seq(Done), FlushOn(r, todo, kept),
           \A c \in CardsOf(queue) :
               Settled(c) \/ c \in CardsOf(todo) \/ c \in CardsOf(kept)
    PROVE  Accounted' /\ AllKept'
<1>1. /\ run \in [Runs -> RunType] /\ \A q \in Runs \ {r} : run[q].at = "idle"
      /\ \A c \in finished \ lost : c \in Cards
  BY DEF OneRun, TypeInv, TypeOK, RunType
<1>2. \A c \in finished \ lost : Settled(c) \/ c \in CardsOf(queue)
  BY <1>1 DEF AllKept, Returning
<1>3. \A q \in Runs \ {r} : run'[q].at = "idle"
  BY <1>1 DEF FlushOn, Await
<1>4. CASE todo = <<>>
  <2>1. CardsOf(todo) = {}
    BY <1>4 DEF CardsOf
  <2>2. run'[r].at = "poll"
    BY <1>1, <1>4 DEF FlushOn, Await, Idle
  <2>3. queue' = queue \/ queue' = kept
    BY <1>4 DEF FlushOn
  <2>4. ASSUME NEW c \in CardsOf(queue), ~Settled(c) PROVE c \in CardsOf(queue)'
    BY <2>1, <2>3, <2>4 DEF CardsOf
  <2>5. Accounted'
    BY <1>3, <2>2 DEF Accounted
  <2>. QED BY <1>1, <1>2, <2>4, <2>5, SettledSteps DEF AllKept
<1>5. CASE todo # <<>>
  <2>1. queue' = queue
    BY <1>5 DEF FlushOn
  <2>2. /\ run'[r].at = "flush" /\ run'[r].todo = todo /\ run'[r].kept = kept
        /\ ~run'[r].served
    BY <1>1, <1>5 DEF FlushOn, Await, Idle
  <2>3. CardsOf(queue)' = CardsOf(queue)
    BY <2>1 DEF CardsOf
  <2>4. CardsOf(queue) \subseteq Cards
    <3>1. \A i \in 1..Len(queue) : queue[i] \in Entries
      BY DEF TypeInv, TypeOK
    <3>. QED BY <3>1 DEF CardsOf, Entries
  <2>5. \A c \in CardsOf(queue) :
            Settled(c)' \/ c \in CardsOf(todo) \/ c \in CardsOf(kept)
    BY <2>4, SettledSteps
  <2>6. AllKept'
    BY <1>1, <1>2, <2>3, SettledSteps DEF AllKept
  <2>7. \A c \in CardsOf(queue)' :
            Settled(c)' \/ c \in CardsOf(run[r].todo)' \/ c \in CardsOf(run[r].kept)'
    BY <2>2, <2>3, <2>5 DEF CardsOf
  <2>8. Accounted'
    BY <1>3, <2>2, <2>7 DEF Accounted
  <2>. QED BY <2>6, <2>8
<1>. QED BY <1>4, <1>5

LEMMA KeptServe ==
    ASSUME TypeInv, OneRun, Accounted, AllKept, [Next]_vars, NEW r \in Runs, Serve(r)
    PROVE  Accounted' /\ AllKept'
<1>. USE DEF Serve, node, history, results
<1>1. /\ run \in [Runs -> RunType] /\ run[r].at # "idle"
      /\ \A c \in finished \ lost : c \in Cards
  BY DEF TypeInv, TypeOK, RunType, Requests
<1>2. \A q \in Runs \ {r} : run'[q] = run[q] /\ run[q].at = "idle"
  BY <1>1 DEF OneRun
<1>3. /\ run'[r].at = run[r].at /\ run'[r].todo = run[r].todo
      /\ run'[r].kept = run[r].kept
      /\ run[r].at # "poll" => run'[r].card = run[r].card
  BY <1>1 DEF RunType
<1>4. CardsOf(queue)' = CardsOf(queue) /\ CardsOf(queue) \subseteq Cards
  <2>1. \A i \in 1..Len(queue) : queue[i] \in Entries
    BY DEF TypeInv, TypeOK
  <2>. QED BY <2>1 DEF CardsOf, Entries
<1>5. \A c : Returning(c)' <=> Returning(c)
  BY <1>2, <1>3 DEF Returning
<1>6. AllKept'
  BY <1>1, <1>4, <1>5, SettledSteps DEF AllKept
<1>7. ASSUME run[r].at = "flush"
      PROVE  /\ \A c \in CardsOf(queue)' :
                    Settled(c)' \/ c \in CardsOf(run[r].todo)' \/ c \in CardsOf(run[r].kept)'
             /\ central'[Head(run'[r].todo).card] \in Results
  <2>1. \A c \in CardsOf(queue) :
            Settled(c) \/ c \in CardsOf(run[r].todo) \/ c \in CardsOf(run[r].kept)
    BY <1>7 DEF Accounted
  <2>2. \A c \in CardsOf(queue) :
            Settled(c)' \/ c \in CardsOf(run[r].todo) \/ c \in CardsOf(run[r].kept)
    BY <1>4, <2>1, SettledSteps
  <2>3. CardsOf(run[r].todo)' = CardsOf(run[r].todo)
        /\ CardsOf(run[r].kept)' = CardsOf(run[r].kept)
    BY <1>3 DEF CardsOf
  <2>4. central'[Head(run'[r].todo).card] \in Results
    BY <1>3, <1>7, ServeSettles
  <2>. QED BY <1>4, <2>2, <2>3, <2>4
<1>8. run[r].at = "return" => central'[run'[r].card] \in Results
  BY <1>3, ServeSettles
<1>9. Accounted'
  BY <1>2, <1>3, <1>7, <1>8 DEF Accounted, Settled
<1>. QED BY <1>6, <1>9
LEMMA KeptStart ==
    ASSUME ~overlapped', TypeInv, AllKept, [Next]_vars, NEW r \in Runs, Start(r)
    PROVE  Accounted' /\ AllKept'
<1>0. \A q \in Runs : run[q].at = "idle"
  BY OverlappedStays DEF Idle
<1>. USE DEF Start, node, history, results
<1>1. /\ run \in [Runs -> RunType] /\ \A q \in Runs : run[q].at = "idle"
      /\ \A c \in finished \ lost : c \in Cards
  BY <1>0 DEF TypeInv, TypeOK, RunType
<1>2. \A q \in Runs : run'[q].at \in {"idle", "register"}
  BY <1>1 DEF RunType
<1>3. Accounted'
  BY <1>2 DEF Accounted
<1>4. \A c \in finished \ lost : Settled(c)' \/ c \in CardsOf(queue)
  BY <1>1, SettledSteps DEF AllKept, Returning
<1>5. CardsOf(queue)' = CardsOf(queue)
  BY DEF CardsOf
<1>. QED BY <1>3, <1>4, <1>5 DEF AllKept

LEMMA KeptFlushing ==
    ASSUME TypeInv, OneRun, Accounted, AllKept, [Next]_vars, NEW r \in Runs,
           Registered(r) \/ Flushed(r) \/ FlushFails(r)
    PROVE  Accounted' /\ AllKept'
<1>. DEFINE todo == run[r].todo
            kept == run[r].kept
<1>1. ASSUME run[r].at = "flush"
      PROVE  /\ todo # <<>> /\ todo \in Seq(Done) /\ kept \in Seq(Done)
             /\ \A c \in CardsOf(queue) :
                   Settled(c) \/ c \in CardsOf(todo) \/ c \in CardsOf(kept)
             /\ run[r].served => Settled(Head(todo).card)
  BY <1>1 DEF TypeInv, Shape, Accounted
<1>2. ASSUME run[r].at = "flush"
      PROVE  /\ Tail(todo) \in Seq(Done) /\ Append(kept, Head(todo)) \in Seq(Done)
             /\ CardsOf(todo) = {Head(todo).card} \cup CardsOf(Tail(todo))
             /\ CardsOf(Append(kept, Head(todo))) = CardsOf(kept) \cup {Head(todo).card}
  <2>1. todo # <<>> /\ todo \in Seq(Done) /\ kept \in Seq(Done)
    BY <1>1, <1>2
  <2>. HIDE DEF todo, kept
  <2>2. Head(todo) \in Done
    BY <2>1
  <2>. QED BY <2>1, <2>2, CardsOfTail, CardsOfAppend
<1>. HIDE DEF todo, kept
<1>3. CASE Registered(r)
  <2>1. queue \in Seq(Done) /\ <<>> \in Seq(Done)
    BY DEF TypeInv
  <2>2. run[r].at = "register" /\ FlushOn(r, queue, <<>>) /\ UNCHANGED <<finished, lost>>
    BY <1>3 DEF Registered, Answered, history, results
  <2>. QED BY <2>1, <2>2, KeptFlushOn
<1>4. CASE Flushed(r)
  <2>1. run[r].at = "flush" /\ run[r].served /\ FlushOn(r, Tail(todo), kept)
        /\ UNCHANGED <<finished, lost>>
    BY <1>4 DEF Flushed, Answered, history, results, todo, kept
  <2>2. \A c \in CardsOf(queue) :
            Settled(c) \/ c \in CardsOf(Tail(todo)) \/ c \in CardsOf(kept)
    BY <1>1, <1>2, <2>1
  <2>. QED BY <1>1, <1>2, <2>1, <2>2, KeptFlushOn
<1>5. CASE FlushFails(r)
  <2>. DEFINE more == Append(kept, Head(todo))
  <2>1. run[r].at = "flush" /\ FlushOn(r, Tail(todo), more)
        /\ UNCHANGED <<finished, lost>>
    BY <1>5 DEF FlushFails, Kept, history, results, todo, kept
  <2>2. \A c \in CardsOf(queue) :
            Settled(c) \/ c \in CardsOf(Tail(todo)) \/ c \in CardsOf(more)
    BY <1>1, <1>2, <2>1
  <2>. QED BY <1>2, <2>1, <2>2, KeptFlushOn
<1>. QED BY <1>3, <1>4, <1>5

LEMMA KeptExecuted ==
    ASSUME TypeInv, OneRun, Accounted, AllKept, [Next]_vars, NEW r \in Runs, Executed(r)
    PROVE  Accounted' /\ AllKept'
<1>. USE DEF Executed, node
<1>1. /\ run \in [Runs -> RunType] /\ run[r].at = "execution"
      /\ \A c \in finished \ lost : c \in Cards
  BY DEF TypeInv, TypeOK, RunType
<1>2. \A q \in Runs \ {r} : run'[q] = run[q] /\ run[q].at = "idle"
  BY <1>1 DEF OneRun, Await
<1>3. run'[r].at = "return" /\ run'[r].card = run[r].card /\ ~run'[r].served
  BY <1>1 DEF Await, RunType
<1>4. Accounted'
  BY <1>2, <1>3 DEF Accounted
<1>5. \A c : c = run[r].card => Returning(c)'
  BY <1>3 DEF Returning
<1>6. \A c \in finished \ lost : Settled(c)' \/ c \in CardsOf(queue)
  BY <1>1, <1>2, SettledSteps DEF AllKept, Returning
<1>7. CardsOf(queue)' = CardsOf(queue)
  BY DEF CardsOf
<1>. QED BY <1>4, <1>5, <1>6, <1>7 DEF AllKept

\* What the bound of the queue drops is lost, and only that.
LEMMA KeptReturnFails ==
    ASSUME TypeInv, OneRun, Accounted, AllKept, [Next]_vars, NEW r \in Runs, ReturnFails(r)
    PROVE  Accounted' /\ AllKept'
<1>. DEFINE e == [card |-> run[r].card, result |-> run[r].result]
            q == Append(queue, e)
<1>1. /\ run \in [Runs -> RunType] /\ run[r].at = "return"
      /\ \A c \in finished \ lost : c \in Cards
  BY DEF TypeInv, TypeOK, RunType, ReturnFails
<1>2. \A p \in Runs \ {r} : run[p].at = "idle"
  BY <1>1 DEF OneRun
<1>3. \A p \in Runs : run'[p].at = "idle"
  BY <1>1, <1>2 DEF ReturnFails, End, Idle
<1>4. Accounted'
  BY <1>3 DEF Accounted
<1>5. e \in Done /\ queue \in Seq(Done)
  BY <1>1 DEF TypeInv, Shape, Done
<1>6. q \in Seq(Done) /\ q # <<>> /\ CardsOf(q) = CardsOf(queue) \cup {run[r].card}
  <2>1. e.card = run[r].card
    OBVIOUS
  <2>. HIDE DEF e
  <2>. QED BY <1>5, <2>1, CardsOfAppend
<1>7. /\ queue' = Newest(q, QueueLimit) /\ finished' = finished
      /\ lost' = lost \cup {q[i].card : i \in 1..Len(q) - Len(queue')}
  BY DEF ReturnFails
<1>8. CardsOf(q) \subseteq CardsOf(queue)' \cup lost'
  <2>. HIDE DEF q
  <2>1. CASE queue' = q
    BY <2>1 DEF CardsOf
  <2>2. CASE queue' = Tail(q)
    <3>1. Len(q) - Len(queue') = 1 /\ Head(q) = q[1]
      BY <1>6, <2>2
    <3>2. Head(q).card \in lost'
      BY <1>7, <3>1
    <3>3. CardsOf(q) = {Head(q).card} \cup CardsOf(Tail(q))
      BY <1>6, CardsOfTail
    <3>4. CardsOf(queue)' = CardsOf(Tail(q))
      BY <2>2 DEF CardsOf
    <3>. QED BY <3>2, <3>3, <3>4
  <2>. QED BY <1>7, <2>1, <2>2 DEF Newest
<1>. HIDE DEF q, e
<1>9. \A c \in finished \ lost : Settled(c)' \/ c \in CardsOf(q)
  <2>1. \A c \in finished \ lost : Settled(c) \/ c \in CardsOf(q)
    BY <1>2, <1>6 DEF AllKept, Returning
  <2>. QED BY <1>1, <2>1, SettledSteps
<1>10. lost \subseteq lost'
  BY <1>7
<1>11. AllKept'
  BY <1>7, <1>8, <1>9, <1>10 DEF AllKept
<1>. QED BY <1>4, <1>11

\* A restart loses what is being returned, and the queue is on disk.
LEMMA KeptCrash ==
    ASSUME TypeInv, AllKept, [Next]_vars, Crash
    PROVE  Accounted' /\ AllKept'
<1>. USE DEF Crash, node
<1>1. Accounted'
  BY DEF Accounted, Idle
<1>2. \A c \in finished \ lost' : Settled(c) \/ c \in CardsOf(queue)
  BY DEF AllKept, Returning
<1>3. \A c \in finished \ lost' : Settled(c)' \/ c \in CardsOf(queue)
  BY <1>2, SettledSteps DEF TypeInv, TypeOK
<1>4. CardsOf(queue)' = CardsOf(queue)
  BY DEF CardsOf
<1>. QED BY <1>1, <1>3, <1>4 DEF AllKept

LEMMA KeptOther ==
    ASSUME TypeInv, OneRun, Accounted, AllKept, [Next]_vars, NEW r \in Runs,
           \/ GotCard(r) \/ Acked(r) \/ Execute(r) \/ Returned(r)
           \/ RequestFails(r) \/ FlushRefused(r)
    PROVE  Accounted' /\ AllKept'
<1>1. run \in [Runs -> RunType]
  BY DEF TypeInv, TypeOK, RunType
<1>2. run[r].at # "idle" /\ (run[r].at = "return" => run[r].served)
  BY DEF GotCard, Acked, Execute, Returned, RequestFails, FlushRefused, Answered, Requests
<1>3. UNCHANGED <<queue, finished, lost>>
  BY DEF GotCard, Acked, Execute, Returned, RequestFails, FlushRefused, node, history, results
<1>4. \A q \in Runs \ {r} : run'[q] = run[q]
  BY <1>1 DEF GotCard, Acked, Execute, Returned, RequestFails, FlushRefused, Await, End
<1>5. run'[r].at \notin {"flush", "return"}
  <2>1. CASE End(r)
    BY <1>1, <2>1 DEF End, Idle
  <2>2. CASE GotCard(r)
    BY <1>1, <2>1, <2>2 DEF GotCard, Await, Idle
  <2>3. CASE Acked(r)
    <3>1. ASSUME NEW at \in {"suppress", "beat"}, Await(r, [run[r] EXCEPT !.at = at])
          PROVE  run'[r].at = at
      BY <1>1, <3>1 DEF Await, RunType
    <3>2. \E at \in {"suppress", "beat"} : Await(r, [run[r] EXCEPT !.at = at])
      BY <2>3 DEF Acked
    <3>. QED BY <3>1, <3>2
  <2>4. CASE Execute(r)
    BY <1>1, <2>4 DEF Execute, Await, RunType
  <2>. QED BY <2>1, <2>2, <2>3, <2>4 DEF Returned, RequestFails, FlushRefused
<1>. QED BY <1>2, <1>3, <1>4, <1>5, KeptBut

LEMMA KeptStep ==
    ASSUME ~overlapped', TypeInv, OneRun, Accounted, AllKept, [Next]_vars
    PROVE  Accounted' /\ AllKept'
<1>1. ASSUME UNCHANGED <<run, queue, finished, lost>> PROVE Accounted' /\ AllKept'
  BY <1>1, KeptStable
<1>2. ASSUME (\E c \in Cards : Enqueue(c) \/ TurnEnds(c)) \/ ServeLate \/ UNCHANGED vars
      PROVE  Accounted' /\ AllKept'
  BY <1>1, <1>2 DEF Enqueue, TurnEnds, ServeLate, vars, node, history, results
<1>3. ASSUME NEW r \in Runs, Progress(r) PROVE Accounted' /\ AllKept'
  BY <1>3, KeptStart, KeptServe, KeptFlushing, KeptExecuted, KeptOther DEF Progress
<1>4. ASSUME NEW r \in Runs,
             RequestFails(r) \/ ReturnFails(r) \/ FlushFails(r) \/ FlushRefused(r)
      PROVE  Accounted' /\ AllKept'
  BY <1>4, KeptFlushing, KeptReturnFails, KeptOther
<1>. QED BY <1>2, <1>3, <1>4, KeptCrash DEF Next
=============================================================================
