-------------------------- MODULE RemoteCardProofs --------------------------
(***************************************************************************)
(* A remote node and its control plane implement CardExecution, and keep    *)
(* the results of executions.                                              *)
(***************************************************************************)
EXTENDS RemoteWorkspaceProofs

Present(c) == central[c] # "absent"

\* The card that a run knows has arrived.
RunPresent(s) ==
    \/ s.at \in WithCard
    \/ s.at = "poll" /\ s.served /\ s.card # NoCard
    => Present(s.card)

\* A report that was sent is of a card that arrived; an outcome is that of an
\* execution, and "completed" that of a turn that has ended.
ReportOK(l) ==
    /\ Present(l.card)
    /\ l.status \in Outcomes => l.card \in finished
    /\ l.status = "completed" => l.card \in over

\* What holds although runs overlap.
ToldInv ==
    /\ TypeInv
    /\ \A c \in finished : Present(c)
    /\ \A r \in Runs : RunPresent(run[r])
    /\ \A l \in late : ReportOK(l)

\* A report of a duplicate is of a card whose key is kept while it matters.
LateInv == \A l \in late : l.status = Suppressed => Known(l.card) \/ Settled(l.card)

\* No key is remembered of a card that is behind one without a result.
KeysInv == \A c \in Cards : Known(c) => Cleared(c)

FinishedInv == \A c \in finished : executions[c] # 0

\* The card has no result and none is on its way.
Clean(c) == ~Settled(c) /\ \A l \in late : l.card = c => l.status \notin Results

\* A card without a key has no result, from the poll to its execution, and none
\* can come in between.
RunOK(s) ==
    /\ s.at = "poll" /\ s.served /\ s.card # NoCard => Known(s.card) \/ ~Settled(s.card)
    /\ s.at = "ack" => /\ s.known <=> Known(s.card)
                       /\ s.known \/ ~Settled(s.card)
    /\ s.at = "suppress" => Known(s.card) \/ Settled(s.card)
    /\ s.at \in {"beat", "execution"} => Clean(s.card)
    /\ s.at = "execution" => executions[s.card] # 0 /\ s.card \notin finished

RunsOK == \A r \in Runs : RunOK(run[r])

\* What holds until runs overlap.
ReportsInv == OnceInv /\ ToldInv /\ LateInv /\ KeysInv /\ FinishedInv /\ RunsOK

-----------------------------------------------------------------------------
(* Reports *)

\* A request reports one thing at most.
LEMMA ReportsOne ==
    ASSUME NEW r \in Runs
    PROVE  Reports(run[r]) = {} \/ \E l : Reports(run[r]) = {l}
BY DEF Reports

LEMMA HandledNone ==
    ASSUME TypeInv, Handled({})
    PROVE  central' = central
BY DEF Handled, TypeInv, TypeOK

LEMMA HandledOne ==
    ASSUME TypeInv, NEW l \in Report, Handled({l})
    PROVE  central' = [central EXCEPT ![l.card] = Reported(central[l.card], l.status)]
<1>1. l.card \in Cards /\ (CHOOSE k \in {l} : TRUE) = l
  BY DEF Report
<1>2. \A c \in Cards : l.card = c => (CHOOSE k \in {l} : k.card = c) = l
  OBVIOUS
<1>3. \A c \in Cards : central'[c] = IF l.card = c THEN Reported(central[c], l.status)
                                     ELSE central[c]
  BY <1>2 DEF Handled
<1>4. DOMAIN central = Cards /\ central' = [c \in Cards |-> central'[c]]
  BY DEF Handled, TypeInv, TypeOK
<1>5. central = [c \in Cards |-> central[c]]
  BY DEF TypeInv, TypeOK
<1>. QED BY <1>1, <1>3, <1>4, <1>5

\* What the control plane is told: nothing, or what one request reports.
LEMMA CentralSteps ==
    ASSUME TypeInv, [Next]_vars
    PROVE  \/ central' = central
           \/ \E c \in Cards : Enqueue(c)
           \/ \E l \in late : ServeLate /\ Handled({l}) /\ late' \subseteq late
           \/ \E r \in Runs : \E l \in Reports(run[r]) : Serve(r) /\ Handled({l})
<1>1. ASSUME NEW r \in Runs, Serve(r)
      PROVE  central' = central \/ \E l \in Reports(run[r]) : Serve(r) /\ Handled({l})
  <2>1. CASE Reports(run[r]) = {}
    BY <1>1, <2>1, HandledNone DEF Serve
  <2>2. CASE \E l : Reports(run[r]) = {l}
    BY <1>1, <2>2 DEF Serve
  <2>. QED BY <2>1, <2>2, ReportsOne
<1>2. ASSUME ServeLate
      PROVE  \E l \in late : ServeLate /\ Handled({l}) /\ late' \subseteq late
  BY <1>2 DEF ServeLate
<1>3. ASSUME NEW r \in Runs, Progress(r), ~Serve(r) PROVE central' = central
  BY <1>3 DEF Progress, Start, Registered, Flushed, GotCard, Acked, Execute, Executed,
              Returned
<1>4. ASSUME NEW r \in Runs,
             RequestFails(r) \/ ReturnFails(r) \/ FlushFails(r) \/ FlushRefused(r)
      PROVE  central' = central
  BY <1>4 DEF RequestFails, ReturnFails, FlushFails, FlushRefused
<1>. QED BY <1>1, <1>2, <1>3, <1>4 DEF Next, TurnEnds, Crash, vars

LEMMA PresentStays ==
    ASSUME TypeInv, [Next]_vars, NEW c \in Cards, Present(c)
    PROVE  Present(c)'
<1>1. central \in [Cards -> {"absent", "queued", "acked", "active"} \cup Results]
  BY DEF TypeInv, TypeOK
<1>2. ASSUME NEW l \in Report, Handled({l}) PROVE Present(c)'
  <2>1. central' = [central EXCEPT ![l.card] = Reported(central[l.card], l.status)]
    BY <1>2, HandledOne
  <2>2. l.card \in Cards /\ l.status # "absent"
    BY DEF Report, Results, Outcomes, Suppressed
  <2>. QED BY <1>1, <2>1, <2>2 DEF Reported, Present
<1>3. late \subseteq Report
  BY DEF TypeInv, TypeOK, Report
<1>4. ASSUME NEW d \in Cards, Enqueue(d) PROVE Present(c)'
  BY <1>1, <1>4 DEF Enqueue, Present
<1>. QED BY <1>2, <1>3, <1>4, CentralSteps, ReportsType DEF Present

\* What a run reports is true when it is sent.
LEMMA ReportsOK ==
    ASSUME ToldInv, NEW r \in Runs, NEW l \in Reports(run[r])
    PROVE  /\ l \in Report /\ ReportOK(l)
           /\ l.status = Suppressed => run[r].at = "suppress" /\ l.card = run[r].card
<1>1. /\ TypeInv /\ run[r] \in RunType /\ Shape(run[r]) /\ RunPresent(run[r])
      /\ finished \subseteq Cards
  BY DEF ToldInv, TypeInv, TypeOK, RunType
<1>2. l \in Report
  BY <1>1, ReportsType
<1>3. CASE run[r].at = "flush"
  <2>. DEFINE todo == run[r].todo
  <2>1. todo \in Seq(Done) /\ todo # <<>>
    BY <1>1, <1>3 DEF Shape
  <2>2. Head(todo) \in Done
    <3>. HIDE DEF todo
    <3>. QED BY <2>1
  <2>3. /\ l.card \in finished /\ l.status \in Outcomes
        /\ l.status = "completed" => l.card \in over
    BY <1>3, <2>2 DEF Reports, Done
  <2>. QED BY <1>2, <2>3 DEF ToldInv, ReportOK, Outcomes, Suppressed
<1>4. CASE run[r].at = "return"
  <2>1. /\ l.card \in finished /\ l.status \in Outcomes
        /\ l.status = "completed" => l.card \in over
    BY <1>1, <1>4 DEF Reports, Shape
  <2>. QED BY <1>2, <2>1 DEF ToldInv, ReportOK, Outcomes, Suppressed
<1>5. CASE run[r].at \in {"ack", "beat", "suppress"}
  <2>1. l.card = run[r].card /\ l.status \in {"acked", "active", Suppressed}
        /\ (l.status = Suppressed => run[r].at = "suppress")
    BY <1>5 DEF Reports, Suppressed
  <2>. QED BY <1>1, <1>2, <1>5, <2>1 DEF RunPresent, WithCard, ReportOK, Outcomes, Suppressed
<1>6. run[r].at \in {"flush", "return", "suppress", "ack", "beat"}
  BY DEF Reports
<1>. QED BY <1>3, <1>4, <1>5, <1>6

\* Reports that are late were those of a run.
LEMMA LateGrows ==
    ASSUME [Next]_vars, NEW l \in late'
    PROVE  l \in late \/ \E r \in Runs : l \in Reports(run[r])
<1>1. ASSUME NEW S, S \subseteq Runs, Fault(S)
      PROVE  l \in late \/ \E r \in Runs : l \in Reports(run[r])
  BY <1>1 DEF Fault
<1>2. ASSUME NEW r \in Runs,
             RequestFails(r) \/ ReturnFails(r) \/ FlushFails(r) \/ FlushRefused(r)
      PROVE  \E S : S \subseteq Runs /\ Fault(S)
  BY <1>2 DEF RequestFails, ReturnFails, FlushFails, FlushRefused
<1>3. ASSUME NEW r \in Runs, Progress(r) PROVE late' = late
  BY <1>3 DEF Progress, Start, Serve, Registered, Flushed, GotCard, Acked, Execute,
              Executed, Returned
<1>4. ASSUME Crash PROVE \E S : S \subseteq Runs /\ Fault(S)
  BY <1>4 DEF Crash
<1>5. ASSUME (\E c \in Cards : Enqueue(c) \/ TurnEnds(c)) \/ ServeLate \/ UNCHANGED vars
      PROVE  late' \subseteq late
  BY <1>5 DEF Enqueue, TurnEnds, ServeLate, vars
<1>. QED BY <1>1, <1>2, <1>3, <1>4, <1>5 DEF Next

LEMMA HistoryGrows ==
    ASSUME TypeInv, [Next]_vars
    PROVE  finished \subseteq finished' /\ over \subseteq over'
<1>1. ASSUME NEW r \in Runs, Progress(r)
      PROVE  finished \subseteq finished' /\ over \subseteq over'
  BY <1>1 DEF Progress, Start, Serve, Registered, Flushed, GotCard, Acked, Execute,
              Executed, Returned, history, results
<1>2. ASSUME NEW r \in Runs,
             RequestFails(r) \/ ReturnFails(r) \/ FlushFails(r) \/ FlushRefused(r)
      PROVE  UNCHANGED <<finished, over>>
  BY <1>2 DEF RequestFails, ReturnFails, FlushFails, FlushRefused, history, results
<1>3. ASSUME (\E c \in Cards : Enqueue(c) \/ TurnEnds(c)) \/ ServeLate \/ Crash
             \/ UNCHANGED vars
      PROVE  finished \subseteq finished' /\ over \subseteq over'
  BY <1>3 DEF Enqueue, TurnEnds, ServeLate, Crash, vars, history, results
<1>. QED BY <1>1, <1>2, <1>3 DEF Next

\* One run moves, and keeps its card or has none yet.
LEMMA RunsPresent ==
    ASSUME ToldInv, [Next]_vars, NEW r \in Runs
    PROVE  RunPresent(run[r])'
<1>. DEFINE c == run[r].card
<1>1. /\ TypeInv /\ run \in [Runs -> RunType] /\ run[r] \in RunType
      /\ Shape(run[r]) /\ RunPresent(run[r])
  BY DEF ToldInv, TypeInv, TypeOK, RunType
<1>2. \A d \in Cards : Present(d) => Present(d)'
  BY <1>1, PresentStays
<1>3. ASSUME run'[r].card = c, run'[r].at \in WithCard,
             \/ run[r].at \in WithCard
             \/ run[r].at = "poll" /\ run[r].served /\ c # NoCard
      PROVE  RunPresent(run[r])'
  <2>1. c \in Cards /\ Present(c)
    BY <1>1, <1>3 DEF RunPresent, RunType, Shape
  <2>2. \A d \in Cards : d = run'[r].card => Present(d)'
    BY <1>2, <1>3, <2>1
  <2>. QED BY <1>3, <2>1, <2>2 DEF RunPresent, Present
<1>4. ASSUME run'[r] = run[r] PROVE RunPresent(run[r])'
  <2>1. CASE \/ run[r].at \in WithCard
             \/ run[r].at = "poll" /\ run[r].served /\ c # NoCard
    <3>1. c \in Cards /\ Present(c)
      BY <1>1, <2>1 DEF RunPresent, RunType, Shape
    <3>2. \A d \in Cards : d = run'[r].card => Present(d)'
      BY <1>2, <1>4, <3>1
    <3>. QED BY <1>4, <3>1, <3>2 DEF RunPresent, Present
  <2>2. CASE ~(\/ run[r].at \in WithCard
               \/ run[r].at = "poll" /\ run[r].served /\ c # NoCard)
    BY <1>4, <2>2 DEF RunPresent
  <2>. QED BY <2>1, <2>2
<1>5. ASSUME run'[r].at \notin WithCard, run'[r].at = "poll" => ~run'[r].served
      PROVE  RunPresent(run[r])'
  BY <1>5 DEF RunPresent
<1>6. ASSUME NEW q \in Runs, q # r, Progress(q) \/ RequestFails(q) \/ ReturnFails(q)
                                     \/ FlushFails(q) \/ FlushRefused(q)
      PROVE  run'[r] = run[r]
  BY <1>1, <1>6 DEF Progress, Start, Serve, Registered, Flushed, GotCard, Acked, Execute,
     Executed, Returned, RequestFails, ReturnFails, FlushFails, FlushRefused, FlushOn,
     Await, End
<1>7. ASSUME End(r) \/ (\E todo, kept : FlushOn(r, todo, kept)) PROVE RunPresent(run[r])'
  <2>1. ASSUME End(r) PROVE run'[r].at = "idle"
    BY <1>1, <2>1 DEF End, Idle
  <2>2. ASSUME NEW todo, NEW kept, FlushOn(r, todo, kept)
        PROVE  run'[r].at \in {"poll", "flush"} /\ ~run'[r].served
    BY <1>1, <2>2 DEF FlushOn, Await, Idle
  <2>3. /\ run'[r].at \in {"idle", "poll", "flush"}
        /\ run'[r].at = "poll" => ~run'[r].served
    BY <1>7, <2>1, <2>2
  <2>. QED BY <1>5, <2>3 DEF WithCard
<1>8. ASSUME Start(r) PROVE RunPresent(run[r])'
  <2>1. run'[r].at = "register"
    BY <1>1, <1>8 DEF Start, RunType
  <2>. QED BY <1>5, <2>1 DEF WithCard
<1>9. ASSUME Serve(r) PROVE RunPresent(run[r])'
  <2>1. run'[r].at = run[r].at /\ run[r].at \in Requests
    BY <1>1, <1>9 DEF Serve, RunType
  <2>2. CASE run[r].at = "poll"
    <3>1. run'[r].card # NoCard => run'[r].card \in Polled
      BY <1>1, <1>9, <2>2 DEF Serve, RunType
    <3>2. \A d \in Polled : d \in Cards /\ Present(d)
      BY <1>1 DEF Polled, Offered, Present, TypeInv, TypeOK
    <3>3. run'[r].card # NoCard => \A d \in Cards : d = run'[r].card => Present(d)'
      BY <1>2, <3>1, <3>2
    <3>. QED BY <2>1, <2>2, <3>1, <3>2, <3>3 DEF RunPresent, Present, WithCard
  <2>3. CASE run[r].at # "poll"
    <3>1. run'[r].card = c
      BY <1>1, <1>9, <2>3 DEF Serve, RunType
    <3>. QED BY <1>3, <1>5, <2>1, <2>3, <3>1
  <2>. QED BY <2>2, <2>3
<1>10. ASSUME GotCard(r) PROVE RunPresent(run[r])'
  <2>1. CASE c = NoCard
    BY <1>7, <1>10, <2>1 DEF GotCard
  <2>2. CASE c # NoCard
    <3>1. Await(r, [Idle EXCEPT !.at = "ack", !.card = c, !.known = Known(c)])
      BY <1>10, <2>2 DEF GotCard
    <3>2. run'[r].at = "ack" /\ run'[r].card = c
      BY <1>1, <3>1 DEF Await, Idle
    <3>. QED BY <1>3, <1>10, <2>2, <3>2 DEF GotCard, Answered, WithCard
  <2>. QED BY <2>1, <2>2
<1>11. ASSUME Acked(r) \/ Execute(r) \/ Executed(r) PROVE RunPresent(run[r])'
  <2>1. run[r].at \in WithCard
    BY <1>11 DEF Acked, Execute, Executed, Answered, WithCard
  <2>2. ASSUME NEW at, Await(r, [run[r] EXCEPT !.at = at])
        PROVE  run'[r].at = at /\ run'[r].card = c
    BY <1>1, <2>2 DEF Await, RunType
  <2>3. ASSUME NEW o, Await(r, [run[r] EXCEPT !.at = "return", !.result = o])
        PROVE  run'[r].at = "return" /\ run'[r].card = c
    BY <1>1, <2>3 DEF Await, RunType
  <2>4. \/ \E at \in {"suppress", "beat", "execution"} : Await(r, [run[r] EXCEPT !.at = at])
        \/ \E o : Await(r, [run[r] EXCEPT !.at = "return", !.result = o])
    BY <1>11 DEF Acked, Execute, Executed
  <2>. QED BY <1>3, <2>1, <2>2, <2>3, <2>4 DEF WithCard
<1>12. ASSUME Progress(r) PROVE RunPresent(run[r])'
  BY <1>7, <1>8, <1>9, <1>10, <1>11, <1>12 DEF Progress, Registered, Flushed, Returned
<1>13. ASSUME RequestFails(r) \/ ReturnFails(r) \/ FlushFails(r) \/ FlushRefused(r)
       PROVE  RunPresent(run[r])'
  BY <1>7, <1>13 DEF RequestFails, ReturnFails, FlushFails, FlushRefused
<1>14. ASSUME Crash PROVE RunPresent(run[r])'
  <2>1. run'[r].at = "idle"
    BY <1>14 DEF Crash, Idle
  <2>. QED BY <1>5, <2>1 DEF WithCard
<1>15. ASSUME (\E d \in Cards : Enqueue(d) \/ TurnEnds(d)) \/ ServeLate \/ UNCHANGED vars
       PROVE  RunPresent(run[r])'
  BY <1>4, <1>15 DEF Enqueue, TurnEnds, ServeLate, vars
<1>. QED BY <1>4, <1>6, <1>12, <1>13, <1>14, <1>15 DEF Next

LEMMA ToldStep ==
    ASSUME ToldInv, [Next]_vars
    PROVE  ToldInv'
<1>1. /\ TypeInv /\ TypeInv' /\ finished \subseteq finished' /\ over \subseteq over'
      /\ \A c \in Cards : Present(c) => Present(c)'
  BY TypeStep, HistoryGrows, PresentStays DEF ToldInv
<1>2. ASSUME NEW c \in finished' PROVE Present(c)'
  <2>1. CASE c \in finished
    BY <1>1, <2>1 DEF ToldInv, TypeInv, TypeOK
  <2>2. CASE c \notin finished
    <3>1. PICK r \in Runs : Executed(r)
      <4>1. ASSUME NEW r \in Runs, Progress(r), ~Executed(r) PROVE finished' = finished
        BY <4>1 DEF Progress, Start, Serve, Registered, Flushed, GotCard, Acked, Execute,
           Returned, history, results
      <4>2. ASSUME NEW r \in Runs,
                   RequestFails(r) \/ ReturnFails(r) \/ FlushFails(r) \/ FlushRefused(r)
            PROVE  finished' = finished
        BY <4>2 DEF RequestFails, ReturnFails, FlushFails, FlushRefused, history, results
      <4>3. ASSUME (\E d \in Cards : Enqueue(d) \/ TurnEnds(d)) \/ ServeLate \/ Crash
                   \/ UNCHANGED vars
            PROVE  finished' = finished
        BY <4>3 DEF Enqueue, TurnEnds, ServeLate, Crash, vars, history, results
      <4>. QED BY <2>2, <4>1, <4>2, <4>3 DEF Next
    <3>2. c = run[r].card /\ run[r].at = "execution"
      BY <2>2, <3>1 DEF Executed
    <3>3. c \in Cards /\ Present(c)
      BY <1>1, <3>2 DEF ToldInv, RunPresent, TypeInv, Shape, WithCard
    <3>. QED BY <1>1, <3>3
  <2>. QED BY <2>1, <2>2
<1>3. ASSUME NEW l \in late' PROVE ReportOK(l)'
  <2>1. l \in Report /\ ReportOK(l)
    BY LateGrows, ReportsOK DEF ToldInv, TypeInv, TypeOK, Report
  <2>2. l.card \in Cards
    BY <2>1 DEF Report
  <2>3. \A d \in Cards : d = l.card => Present(d)'
    BY <1>1, <2>1, <2>2 DEF ReportOK
  <2>4. Present(l.card)'
    BY <2>2, <2>3
  <2>. QED BY <1>1, <2>1, <2>4 DEF ReportOK
<1>. QED BY <1>1, <1>2, <1>3, RunsPresent DEF ToldInv

-----------------------------------------------------------------------------
(* The keys and the reports on their way *)

\* Of the cards that arrived, one alone is the first without a result.
LEMMA OneFirst ==
    ASSUME TypeInv, NEW c \in Cards, NEW d \in Cards,
           Cleared(c), Cleared(d), ~Settled(c), ~Settled(d)
    PROVE  c = d
<1>1. PICK i \in 1..Len(arrived) :
          arrived[i] = c /\ \A j \in 1..(i - 1) : Settled(arrived[j])
  BY DEF Cleared
<1>2. PICK k \in 1..Len(arrived) :
          arrived[k] = d /\ \A j \in 1..(k - 1) : Settled(arrived[j])
  BY DEF Cleared
<1>3. Len(arrived) \in Nat
  BY DEF TypeInv, TypeOK
<1>4. ~(i < k) /\ ~(k < i)
  BY <1>1, <1>2, <1>3
<1>. QED BY <1>1, <1>2, <1>3, <1>4

\* Keys are written in one place.
LEMMA KeysWritten ==
    ASSUME ReportsInv, [Next]_vars, executed' # executed
    PROVE  \E r \in Runs :
               /\ Acked(r)
               /\ run[r].card \in Cards /\ Cleared(run[r].card)
               /\ ~Known(run[r].card) /\ ~Settled(run[r].card)
               /\ executed' = Newest(Append(executed, run[r].card), KeyLimit)
<1>1. ASSUME NEW r \in Runs, Progress(r), ~Acked(r) PROVE executed' = executed
  BY <1>1 DEF Progress, Start, Serve, Registered, Flushed, GotCard, Execute, Executed,
              Returned, node
<1>2. ASSUME NEW r \in Runs,
             RequestFails(r) \/ ReturnFails(r) \/ FlushFails(r) \/ FlushRefused(r)
      PROVE  executed' = executed
  BY <1>2 DEF RequestFails, ReturnFails, FlushFails, FlushRefused, node
<1>3. ASSUME (\E c \in Cards : Enqueue(c) \/ TurnEnds(c)) \/ ServeLate \/ Crash
             \/ UNCHANGED vars
      PROVE  executed' = executed
  BY <1>3 DEF Enqueue, TurnEnds, ServeLate, Crash, vars, node
<1>4. PICK r \in Runs : Acked(r)
  BY <1>1, <1>2, <1>3 DEF Next
<1>5. ~run[r].known /\ executed' = Remembered(run[r].card)
  BY <1>4 DEF Acked
<1>6. run[r].at = "ack" /\ run[r].card \in Cards /\ RunOK(run[r])
  BY <1>4 DEF Acked, Answered, ReportsInv, OnceInv, TypeInv, Shape, WithCard, RunsOK
<1>7. ~Known(run[r].card) /\ ~Settled(run[r].card)
  BY <1>5, <1>6 DEF RunOK
<1>8. Cleared(run[r].card)
  BY <1>6 DEF ReportsInv, OnceInv, OnItsWay
<1>. QED BY <1>4, <1>5, <1>6, <1>7, <1>8 DEF Remembered

\* A card keeps its key until it has a result: the one that is dropped for a
\* new key is not the key of a card that may be offered again.
LEMMA KeyStays ==
    ASSUME ReportsInv, [Next]_vars, NEW c \in Cards, Known(c) \/ Settled(c)
    PROVE  (Known(c) \/ Settled(c))'
<1>1. CASE Settled(c)
  BY <1>1, SettledSteps DEF ReportsInv, OnceInv
<1>2. CASE executed' = executed
  BY <1>1, <1>2 DEF Known
<1>3. CASE ~Settled(c) /\ executed' # executed
  BY <1>3, KeysWritten, OneFirst DEF ReportsInv, OnceInv, KeysInv
<1>. QED BY <1>1, <1>2, <1>3

LEMMA NewestOnly ==
    ASSUME NEW q \in Seq(Cards), NEW c \in Cards,
           NEW i \in 1..Len(Newest(Append(q, c), KeyLimit))
    PROVE  \/ Newest(Append(q, c), KeyLimit)[i] = c
           \/ \E j \in 1..Len(q) : Newest(Append(q, c), KeyLimit)[i] = q[j]
<1>. DEFINE a == Append(q, c)
<1>1. /\ a \in Seq(Cards) /\ Len(q) \in Nat /\ Len(a) = Len(q) + 1
      /\ \A j \in 1..Len(a) : a[j] = c \/ \E k \in 1..Len(q) : a[j] = q[k]
  OBVIOUS
<1>. HIDE DEF a
<1>2. CASE Newest(a, KeyLimit) = a
  BY <1>1, <1>2 DEF a
<1>3. CASE Newest(a, KeyLimit) = Tail(a)
  <2>1. i \in 1..Len(Tail(a)) /\ a # <<>>
    BY <1>1, <1>3 DEF a
  <2>2. Tail(a)[i] = a[i + 1] /\ i + 1 \in 1..Len(a)
    BY <1>1, <2>1
  <2>. QED BY <1>1, <1>3, <2>2 DEF a
<1>. QED BY <1>2, <1>3 DEF Newest

LEMMA KeysStep ==
    ASSUME ReportsInv, [Next]_vars
    PROVE  KeysInv'
<1>1. TypeInv /\ executed \in Seq(Cards)
  BY DEF ReportsInv, OnceInv, TypeInv, TypeOK
<1>2. ASSUME NEW c \in Cards, Known(c)' PROVE Cleared(c)
  <2>1. CASE executed' = executed
    BY <1>2, <2>1 DEF Known, ReportsInv, KeysInv
  <2>2. CASE executed' # executed
    <3>1. PICK r \in Runs :
              /\ run[r].card \in Cards /\ Cleared(run[r].card)
              /\ executed' = Newest(Append(executed, run[r].card), KeyLimit)
      BY <2>2, KeysWritten
    <3>2. PICK i \in 1..Len(executed') : executed'[i] = c
      BY <1>2 DEF Known
    <3>3. c = run[r].card \/ \E j \in 1..Len(executed) : executed[j] = c
      BY <1>1, <3>1, <3>2, NewestOnly
    <3>4. c = run[r].card \/ Known(c)
      BY <3>3 DEF Known
    <3>. QED BY <3>1, <3>4 DEF ReportsInv, KeysInv
  <2>. QED BY <2>1, <2>2
<1>. QED BY <1>1, <1>2, ClearedStays DEF KeysInv

LEMMA FinishedStep ==
    ASSUME ReportsInv, [Next]_vars
    PROVE  FinishedInv' /\ finished \subseteq finished'
<1>1. executions \in [Cards -> Nat] /\ finished \subseteq Cards
  BY DEF ReportsInv, OnceInv, TypeInv, TypeOK
<1>2. ASSUME NEW r \in Runs, Executed(r) PROVE FinishedInv' /\ finished \subseteq finished'
  <2>1. executions[run[r].card] # 0
    BY <1>2 DEF Executed, ReportsInv, RunsOK, RunOK
  <2>. QED BY <1>2, <2>1 DEF Executed, FinishedInv, ReportsInv
<1>3. ASSUME NEW r \in Runs, Execute(r) PROVE FinishedInv' /\ finished \subseteq finished'
  <2>1. finished' = finished /\ executions' = [executions EXCEPT ![run[r].card] = @ + 1]
    BY <1>3 DEF Execute, results
  <2>2. \A c \in Cards : executions[c] # 0 => executions'[c] # 0
    BY <1>1, <2>1
  <2>. QED BY <1>1, <2>1, <2>2 DEF FinishedInv, ReportsInv
<1>4. ASSUME UNCHANGED <<executions, finished>>
      PROVE  FinishedInv' /\ finished \subseteq finished'
  BY <1>4 DEF FinishedInv, ReportsInv
<1>5. ASSUME NEW r \in Runs, Progress(r), ~Execute(r), ~Executed(r)
      PROVE  UNCHANGED <<executions, finished>>
  BY <1>5 DEF Progress, Start, Serve, Registered, Flushed, GotCard, Acked, Returned, history, results
<1>6. ASSUME NEW r \in Runs,
             RequestFails(r) \/ ReturnFails(r) \/ FlushFails(r) \/ FlushRefused(r)
      PROVE  UNCHANGED <<executions, finished>>
  BY <1>6 DEF RequestFails, ReturnFails, FlushFails, FlushRefused, history, results
<1>7. ASSUME (\E c \in Cards : Enqueue(c) \/ TurnEnds(c)) \/ ServeLate \/ Crash
             \/ UNCHANGED vars
      PROVE  UNCHANGED <<executions, finished>>
  BY <1>7 DEF Enqueue, TurnEnds, ServeLate, Crash, vars, history, results
<1>. QED BY <1>2, <1>3, <1>4, <1>5, <1>6, <1>7 DEF Next

LEMMA LateStep ==
    ASSUME ReportsInv, [Next]_vars
    PROVE  LateInv'
<1>1. ASSUME NEW l \in late', l.status = Suppressed
      PROVE  l.card \in Cards /\ (Known(l.card) \/ Settled(l.card))
  <2>1. CASE l \in late
    BY <1>1, <2>1 DEF ReportsInv, LateInv, OnceInv, TypeInv, TypeOK
  <2>2. ASSUME NEW r \in Runs, l \in Reports(run[r])
        PROVE  l.card \in Cards /\ (Known(l.card) \/ Settled(l.card))
    <3>1. run[r].at = "suppress" /\ l.card = run[r].card /\ l \in Report
      BY <1>1, <2>2, ReportsOK DEF ReportsInv
    <3>. QED BY <3>1 DEF ReportsInv, RunsOK, RunOK, Report
  <2>. QED BY <2>1, <2>2, LateGrows
<1>2. ASSUME NEW l \in late', l.status = Suppressed PROVE (Known(l.card) \/ Settled(l.card))'
  <2>1. \A d \in Cards : d = l.card => (Known(d) \/ Settled(d))'
    BY <1>1, <1>2, KeyStays
  <2>. QED BY <1>1, <1>2, <2>1
<1>. QED BY <1>2 DEF LateInv

-----------------------------------------------------------------------------
(* The runs *)

\* Nothing is on its way for a card that has no key and was not executed.
LEMMA UnknownClean ==
    ASSUME ReportsInv, NEW c \in Cards, ~Known(c), ~Settled(c), executions[c] = 0
    PROVE  Clean(c)
<1>1. \A l \in late : ReportOK(l) /\ (l.card = c => l.status \notin Results)
  BY DEF ReportsInv, ToldInv, LateInv, FinishedInv, ReportOK, Results
<1>. QED BY <1>1 DEF Clean

LEMMA OpenStays ==
    ASSUME TypeInv, NEW l \in Report, Handled({l}), NEW c \in Cards, ~Settled(c),
           l.card = c => l.status \notin Results
    PROVE  ~Settled(c)'
<1>1. central \in [Cards -> {"absent", "queued", "acked", "active"} \cup Results]
  BY DEF TypeInv, TypeOK
<1>2. central' = [central EXCEPT ![l.card] = Reported(central[l.card], l.status)]
  BY HandledOne
<1>. QED BY <1>1, <1>2 DEF Reported, Settled

\* Only a report of its result settles a card that has none.
LEMMA CleanStays ==
    ASSUME ReportsInv, [Next]_vars, late' \subseteq late, NEW c \in Cards, Clean(c),
           \A r \in Runs : \A l \in Reports(run[r]) :
               Serve(r) /\ l.card = c => l.status \notin Results
    PROVE  Clean(c)'
<1>1. TypeInv /\ late \subseteq Report
      /\ central \in [Cards -> {"absent", "queued", "acked", "active"} \cup Results]
  BY DEF ReportsInv, OnceInv, TypeInv, TypeOK, Report
<1>2. CASE central' = central
  BY <1>2 DEF Clean, Settled
<1>3. ASSUME NEW d \in Cards, Enqueue(d) PROVE ~Settled(c)'
  BY <1>1, <1>3 DEF Clean, Settled, Enqueue, Results, Outcomes, Suppressed
<1>4. ASSUME NEW l \in late, Handled({l}) PROVE ~Settled(c)'
  BY <1>1, <1>4, OpenStays DEF Clean
<1>5. ASSUME NEW r \in Runs, NEW l \in Reports(run[r]), Serve(r), Handled({l})
      PROVE  ~Settled(c)'
  BY <1>1, <1>5, OpenStays, ReportsType DEF Clean
<1>6. ~Settled(c)'
  BY <1>1, <1>2, <1>3, <1>4, <1>5, CentralSteps DEF Clean, Settled
<1>. QED BY <1>6 DEF Clean

\* The other runs are idle.
LEMMA RunsBut ==
    ASSUME ReportsInv, NEW r \in Runs, run[r].at # "idle",
           \A q \in Runs \ {r} : run'[q] = run[q], RunOK(run[r])'
    PROVE  RunsOK'
<1>1. \A q \in Runs \ {r} : run'[q].at = "idle"
  BY DEF ReportsInv, OnceInv, OneRun
<1>2. \A q \in Runs \ {r} : RunOK(run[q])'
  BY <1>1 DEF RunOK
<1>. QED BY <1>2 DEF RunsOK

\* A step that leaves the runs alone.
LEMMA RunsStay ==
    ASSUME ReportsInv, [Next]_vars, UNCHANGED <<run, executed, executions, finished>>,
           late' \subseteq late, \A r \in Runs : ~Serve(r)
    PROVE  RunsOK'
<1>1. /\ TypeInv
      /\ \A c \in Cards : /\ Known(c)' <=> Known(c)
                          /\ Settled(c) => Settled(c)'
                          /\ Clean(c) => Clean(c)'
  BY SettledSteps, CleanStays DEF ReportsInv, OnceInv, Known
<1>2. ASSUME NEW r \in Runs PROVE RunOK(run[r])'
  <2>. DEFINE c == run[r].card
  <2>1. RunOK(run[r]) /\ Shape(run[r]) /\ c \in Cards \cup {NoCard}
    BY <1>1 DEF ReportsInv, RunsOK, TypeInv, TypeOK
  <2>2. ASSUME c \in Cards, ~Known(c), ~Settled(c), executions[c] = 0
        PROVE  ~Settled(c)'
    BY <1>1, <2>2, UnknownClean DEF Clean
  <2>3. CASE run[r].at = "poll" /\ run[r].served /\ c # NoCard
    <3>1. c \in Cards /\ (executions[c] # 0 => Known(c)) /\ (Known(c) \/ ~Settled(c))
      BY <2>1, <2>3 DEF RunOK, ReportsInv, OnceInv, OnItsWay
    <3>. QED BY <1>1, <2>2, <2>3, <3>1 DEF RunOK
  <2>4. CASE run[r].at = "ack"
    <3>1. /\ c \in Cards /\ (run[r].known <=> Known(c))
          /\ ~run[r].known => ~Settled(c) /\ executions[c] = 0
      BY <2>1, <2>4 DEF RunOK, Shape, WithCard, ReportsInv, OnceInv, OnItsWay
    <3>. QED BY <1>1, <2>2, <2>4, <3>1 DEF RunOK
  <2>5. CASE run[r].at \in {"suppress", "beat", "execution"}
    <3>1. c \in Cards
      BY <2>1, <2>5 DEF Shape, WithCard
    <3>. QED BY <1>1, <2>1, <2>5, <3>1 DEF RunOK
  <2>. QED BY <2>3, <2>4, <2>5 DEF RunOK
<1>. QED BY <1>2 DEF RunsOK

LEMMA RunsServe ==
    ASSUME ReportsInv, [Next]_vars, NEW r \in Runs, Serve(r)
    PROVE  RunsOK'
<1>1. /\ TypeInv /\ run \in [Runs -> RunType] /\ run[r] \in RunType /\ Shape(run[r])
      /\ RunOK(run[r])
  BY DEF ReportsInv, OnceInv, TypeInv, TypeOK, RunType, RunsOK
<1>2. /\ run'[r].at = run[r].at /\ run'[r].known = run[r].known
      /\ \A q \in Runs \ {r} : run'[q] = run[q]
      /\ run[r].at \in Requests
      /\ UNCHANGED <<executed, executions, finished, late>>
  BY <1>1 DEF Serve, node, history, results, RunType
<1>3. \A c : Known(c)' <=> Known(c)
  BY <1>2 DEF Known
<1>4. run[r].at # "poll" => run'[r].card = run[r].card
  BY <1>1 DEF Serve, RunType
<1>5. ASSUME run[r].at \in {"ack", "beat"} PROVE \A l \in Reports(run[r]) : l.status \notin Results
  BY <1>5 DEF Reports, Results, Outcomes, Suppressed
<1>6. \A q \in Runs \ {r} : ~Serve(q)
  BY <1>2 DEF ReportsInv, OnceInv, OneRun, Serve, Requests
<1>7. ASSUME NEW d \in Cards, Clean(d), run[r].at \in {"ack", "beat"} PROVE Clean(d)'
  BY <1>2, <1>5, <1>6, <1>7, CleanStays
<1>8. CASE run[r].at = "poll"
  <2>1. central' = central
    BY <1>1, <1>8, HandledNone DEF Serve, Reports
  <2>2. run'[r].card # NoCard => run'[r].card \in Polled
    BY <1>1, <1>8 DEF Serve, RunType
  <2>3. run'[r].card # NoCard => ~Settled(run'[r].card)
    BY <2>2 DEF Polled, Offered, Settled, Results, Outcomes, Suppressed
  <2>4. RunOK(run[r])'
    BY <1>2, <1>8, <2>1, <2>3 DEF RunOK, Settled
  <2>. QED BY <1>2, <1>8, <2>4, RunsBut
<1>9. CASE run[r].at = "ack"
  <2>. DEFINE c == run[r].card
  <2>1. /\ c \in Cards /\ (run[r].known <=> Known(c))
        /\ ~run[r].known => ~Settled(c) /\ executions[c] = 0
    BY <1>1, <1>9 DEF RunOK, Shape, WithCard, ReportsInv, OnceInv, OnItsWay
  <2>2. ~run[r].known => Clean(c)
    BY <2>1, UnknownClean
  <2>3. ~run[r].known => \A d \in Cards : d = c => Clean(d)'
    BY <1>9, <1>7, <2>2
  <2>4. ~run[r].known => ~Settled(run[r].card)'
    BY <1>2, <1>4, <1>9, <2>1, <2>3 DEF Clean
  <2>5. RunOK(run[r])'
    BY <1>2, <1>3, <1>4, <1>9, <2>1, <2>4 DEF RunOK
  <2>. QED BY <1>2, <1>9, <2>5, RunsBut
<1>10. CASE run[r].at = "beat"
  <2>1. run[r].card \in Cards /\ Clean(run[r].card)
    BY <1>1, <1>10 DEF RunOK, Shape, WithCard
  <2>2. \A d \in Cards : d = run[r].card => Clean(d)'
    BY <1>10, <1>7, <2>1
  <2>3. RunOK(run[r])'
    BY <1>2, <1>4, <1>10, <2>1, <2>2 DEF RunOK
  <2>. QED BY <1>2, <1>10, <2>3, RunsBut
<1>11. CASE run[r].at = "suppress"
  <2>1. run[r].card \in Cards /\ (Known(run[r].card) \/ Settled(run[r].card))
    BY <1>1, <1>11 DEF RunOK, Shape, WithCard
  <2>2. \A d \in Cards : d = run[r].card => (Known(d) \/ Settled(d))'
    BY <2>1, KeyStays
  <2>3. RunOK(run[r])'
    BY <1>2, <1>4, <1>11, <2>1, <2>2 DEF RunOK
  <2>. QED BY <1>2, <1>11, <2>3, RunsBut
<1>12. CASE run[r].at \in {"register", "flush", "return"}
  <2>1. RunOK(run[r])'
    BY <1>2, <1>12 DEF RunOK
  <2>. QED BY <1>2, <1>12, <2>1, RunsBut
<1>. QED BY <1>2, <1>8, <1>9, <1>10, <1>11, <1>12 DEF Requests

LEMMA RunsGotCard ==
    ASSUME ReportsInv, [Next]_vars, NEW r \in Runs, GotCard(r), run[r].card # NoCard
    PROVE  RunsOK'
<1>. DEFINE c == run[r].card
<1>1. /\ run \in [Runs -> RunType] /\ c \in Cards /\ RunOK(run[r])
      /\ run[r].at = "poll" /\ run[r].served
  BY DEF ReportsInv, OnceInv, TypeInv, TypeOK, RunType, RunsOK, GotCard, Answered
<1>2. UNCHANGED <<central, executed>>
  BY DEF GotCard, node
<1>3. /\ run'[r].at = "ack" /\ run'[r].card = c /\ (run'[r].known <=> Known(c))
      /\ \A q \in Runs \ {r} : run'[q] = run[q]
  <2>1. Await(r, [Idle EXCEPT !.at = "ack", !.card = c, !.known = Known(c)])
    BY DEF GotCard
  <2>. QED BY <1>1, <2>1 DEF Await, Idle
<1>4. Known(c) \/ ~Settled(c)
  BY <1>1 DEF RunOK
<1>5. RunOK(run[r])'
  BY <1>2, <1>3, <1>4 DEF RunOK, Known, Settled
<1>. QED BY <1>1, <1>3, <1>5, RunsBut

LEMMA RunsAcked ==
    ASSUME ReportsInv, [Next]_vars, NEW r \in Runs, Acked(r)
    PROVE  RunsOK'
<1>. DEFINE c == run[r].card
<1>1. /\ run \in [Runs -> RunType] /\ c \in Cards /\ run[r].at = "ack"
      /\ run[r].known <=> Known(c)
      /\ ~run[r].known => ~Settled(c) /\ executions[c] = 0
  BY DEF ReportsInv, OnceInv, TypeInv, TypeOK, RunType, Shape, WithCard, OnItsWay,
         RunsOK, RunOK, Acked, Answered
<1>2. UNCHANGED <<central, late>>
  BY DEF Acked
<1>3. ASSUME NEW at, Await(r, [run[r] EXCEPT !.at = at])
      PROVE  /\ run'[r].at = at /\ run'[r].card = c
             /\ \A q \in Runs \ {r} : run'[q] = run[q]
  BY <1>1, <1>3 DEF Await, RunType
<1>4. CASE run[r].known
  <2>1. Await(r, [run[r] EXCEPT !.at = "suppress"]) /\ executed' = executed
    BY <1>4 DEF Acked
  <2>2. run'[r].at = "suppress" /\ run'[r].card = c /\ \A q \in Runs \ {r} : run'[q] = run[q]
    BY <1>3, <2>1
  <2>3. RunOK(run[r])'
    BY <1>1, <1>4, <2>1, <2>2 DEF RunOK, Known
  <2>. QED BY <1>1, <2>2, <2>3, RunsBut
<1>5. CASE ~run[r].known
  <2>1. Await(r, [run[r] EXCEPT !.at = "beat"])
    BY <1>5 DEF Acked
  <2>2. run'[r].at = "beat" /\ run'[r].card = c /\ \A q \in Runs \ {r} : run'[q] = run[q]
    BY <1>3, <2>1
  <2>3. Clean(c)
    BY <1>1, <1>5, UnknownClean
  <2>4. RunOK(run[r])'
    BY <1>2, <2>2, <2>3 DEF RunOK, Clean, Settled
  <2>. QED BY <1>1, <2>2, <2>4, RunsBut
<1>. QED BY <1>4, <1>5

LEMMA RunsExecute ==
    ASSUME ReportsInv, [Next]_vars, NEW r \in Runs, Execute(r)
    PROVE  RunsOK'
<1>. DEFINE c == run[r].card
<1>1. /\ run \in [Runs -> RunType] /\ c \in Cards /\ run[r].at = "beat"
      /\ Clean(c) /\ executions[c] = 0 /\ executions \in [Cards -> Nat]
  BY DEF ReportsInv, OnceInv, TypeInv, TypeOK, RunType, Shape, WithCard, OnItsWay,
         RunsOK, RunOK, Execute, Answered
<1>2. /\ UNCHANGED <<central, late, finished>>
      /\ executions' = [executions EXCEPT ![c] = 1]
  BY <1>1 DEF Execute, results
<1>3. /\ run'[r].at = "execution" /\ run'[r].card = c
      /\ \A q \in Runs \ {r} : run'[q] = run[q]
  BY <1>1 DEF Execute, Await, RunType
<1>4. c \notin finished
  BY <1>1 DEF ReportsInv, FinishedInv
<1>5. RunOK(run[r])'
  BY <1>1, <1>2, <1>3, <1>4 DEF RunOK, Clean, Settled
<1>. QED BY <1>1, <1>3, <1>5, RunsBut

\* The steps after which nothing is claimed of the run.
LEMMA RunsOther ==
    ASSUME ~overlapped', ReportsInv, [Next]_vars, NEW r \in Runs,
           \/ Start(r) \/ Registered(r) \/ Flushed(r) \/ Executed(r) \/ Returned(r)
           \/ GotCard(r) /\ run[r].card = NoCard
           \/ RequestFails(r) \/ ReturnFails(r) \/ FlushFails(r) \/ FlushRefused(r)
    PROVE  RunsOK'
<1>1. run \in [Runs -> RunType] /\ OneRun
  BY DEF ReportsInv, OnceInv, TypeInv, TypeOK, RunType
<1>2. ASSUME NEW todo, NEW kept, FlushOn(r, todo, kept)
      PROVE  run'[r].at \in {"poll", "flush"} /\ ~run'[r].served
             /\ \A q \in Runs \ {r} : run'[q] = run[q]
  BY <1>1, <1>2 DEF FlushOn, Await, Idle
<1>3. ASSUME End(r)
      PROVE  run'[r].at = "idle" /\ \A q \in Runs \ {r} : run'[q] = run[q]
  BY <1>1, <1>3 DEF End, Idle
<1>4. ASSUME Executed(r)
      PROVE  run'[r].at = "return" /\ \A q \in Runs \ {r} : run'[q] = run[q]
  <2>1. PICK o \in Outcomes : Await(r, [run[r] EXCEPT !.at = "return", !.result = o])
    BY <1>4 DEF Executed
  <2>. QED BY <1>1, <2>1 DEF Await, RunType
<1>5. ASSUME Start(r)
      PROVE  run'[r].at = "register" /\ \A q \in Runs \ {r} : run'[q] = run[q]
  BY <1>1, <1>5 DEF Start, RunType
<1>6. \/ End(r) \/ Start(r) \/ Executed(r)
      \/ \E todo, kept : FlushOn(r, todo, kept)
  BY DEF Registered, Flushed, Returned, GotCard, RequestFails, ReturnFails, FlushFails,
         FlushRefused
<1>7. /\ run'[r].at \in {"idle", "register", "flush", "poll", "return"}
      /\ run'[r].at = "poll" => ~run'[r].served
      /\ \A q \in Runs \ {r} : run'[q] = run[q]
  BY <1>2, <1>3, <1>4, <1>5, <1>6
<1>8. run[r].at = "idle" => Start(r)
  BY DEF Start, Registered, Flushed, Executed, Returned, GotCard, RequestFails, ReturnFails,
         FlushFails, FlushRefused, Answered, Requests
<1>9. \A q \in Runs \ {r} : run[q].at = "idle"
  <2>1. CASE Start(r)
    BY <2>1, OverlappedStays DEF ReportsInv, OnceInv, Idle
  <2>2. CASE run[r].at # "idle"
    BY <1>1, <2>2 DEF OneRun
  <2>. QED BY <1>8, <2>1, <2>2
<1>10. \A q \in Runs : /\ run'[q].at \in {"idle", "register", "flush", "poll", "return"}
                       /\ run'[q].at = "poll" => ~run'[q].served
  BY <1>7, <1>9
<1>11. \A q \in Runs : RunOK(run[q])'
  BY <1>10 DEF RunOK
<1>. QED BY <1>11 DEF RunsOK

LEMMA RunsStep ==
    ASSUME ~overlapped', ReportsInv, [Next]_vars
    PROVE  RunsOK'
<1>1. ASSUME (\E c \in Cards : Enqueue(c) \/ TurnEnds(c)) \/ ServeLate \/ UNCHANGED vars PROVE RunsOK'
  <2>1. CASE \E r \in Runs : Serve(r)
    BY <2>1, RunsServe
  <2>2. CASE \A r \in Runs : ~Serve(r)
    <3>1. UNCHANGED <<run, executed, executions, finished>> /\ late' \subseteq late
      BY <1>1 DEF Enqueue, TurnEnds, ServeLate, vars, node, history, results
    <3>. QED BY <2>2, <3>1, RunsStay
  <2>. QED BY <2>1, <2>2
<1>2. ASSUME Crash PROVE RunsOK'
  <2>1. \A r \in Runs : run'[r].at = "idle"
    BY <1>2 DEF Crash, Idle
  <2>. QED BY <2>1 DEF RunsOK, RunOK
<1>3. ASSUME NEW r \in Runs, Progress(r) PROVE RunsOK'
  BY <1>3, RunsServe, RunsGotCard, RunsAcked, RunsExecute, RunsOther DEF Progress
<1>4. ASSUME NEW r \in Runs,
             RequestFails(r) \/ ReturnFails(r) \/ FlushFails(r) \/ FlushRefused(r)
      PROVE  RunsOK'
  BY <1>4, RunsOther
<1>. QED BY <1>1, <1>2, <1>3, <1>4 DEF Next

LEMMA ToldInit == Init => ToldInv
<1>1. Init => /\ \A c \in finished : Present(c)
              /\ \A r \in Runs : RunPresent(run[r])
              /\ \A l \in late : ReportOK(l)
  BY DEF Init, Idle, RunPresent, WithCard
<1>. QED BY <1>1, TypeInit DEF ToldInv

LEMMA ReportsInit == Init => ReportsInv
<1>1. Init => OnceInv
  BY TypeInit, OneRunInit, OnceInit DEF OnceInv
<1>2. Init => LateInv /\ KeysInv /\ FinishedInv /\ RunsOK
  BY DEF Init, Idle, LateInv, KeysInv, Known, FinishedInv, RunsOK, RunOK
<1>. QED BY <1>1, <1>2, ToldInit DEF ReportsInv

LEMMA ReportsStep ==
    ASSUME ~overlapped', ReportsInv, [Next]_vars
    PROVE  ReportsInv'
<1>1. OnceInv'
  BY TypeStep, OneRunStep, ArrivalsStep, OnceStep DEF ReportsInv, OnceInv
<1>. QED BY <1>1, ToldStep, LateStep, KeysStep, FinishedStep, RunsStep DEF ReportsInv

-----------------------------------------------------------------------------
(* The steps of a card *)

\* The mapping, where a step leaves its parts alone.
LEMMA BegunSame ==
    ASSUME executions' = executions
    PROVE  Begun' = Begun
BY DEF Begun

LEMMA StandingSame ==
    ASSUME central' = central
    PROVE  Standing' = Standing
BY DEF Standing, Offered

LEMMA AwaitedSame ==
    ASSUME NEW r \in Runs, run[r].at # "execution", run'[r].at # "execution",
           \A q \in Runs \ {r} : run'[q] = run[q]
    PROVE  Awaited' = Awaited
BY DEF Awaited

\* What is waited for stays so, but for three steps.
LEMMA AwaitedStays ==
    ASSUME TypeInv, [Next]_vars, ~Crash, \A r \in Runs : ~Execute(r) /\ ~Executed(r)
    PROVE  Awaited' = Awaited
<1>1. run \in [Runs -> RunType]
  BY DEF TypeInv, TypeOK, RunType
<1>2. ASSUME NEW r \in Runs, Serve(r) PROVE Awaited' = Awaited
  <2>1. /\ run'[r].at = run[r].at /\ run[r].at \in Requests
        /\ \A q \in Runs \ {r} : run'[q] = run[q]
    BY <1>1, <1>2 DEF Serve, RunType
  <2>. QED BY <2>1, AwaitedSame DEF Requests
<1>3. ASSUME NEW r \in Runs, Acked(r) \/ (GotCard(r) /\ run[r].card # NoCard)
      PROVE  Awaited' = Awaited
  <2>1. run[r].at \in {"ack", "poll"}
    BY <1>3 DEF Acked, GotCard, Answered
  <2>2. ASSUME NEW at, Await(r, [run[r] EXCEPT !.at = at]) PROVE run'[r].at = at
    BY <1>1, <2>2 DEF Await, RunType
  <2>3. Acked(r) => \E at \in {"suppress", "beat"} : Await(r, [run[r] EXCEPT !.at = at])
    BY DEF Acked
  <2>4. GotCard(r) /\ run[r].card # NoCard => run'[r].at = "ack"
    BY <1>1 DEF GotCard, Await, Idle
  <2>5. run'[r].at \in {"suppress", "beat", "ack"}
    BY <1>3, <2>2, <2>3, <2>4
  <2>6. \A q \in Runs \ {r} : run'[q] = run[q]
    BY <1>1, <1>3 DEF Acked, GotCard, Await
  <2>. QED BY <2>1, <2>5, <2>6, AwaitedSame
<1>4. ASSUME NEW r \in Runs,
             \/ Start(r) \/ Registered(r) \/ Flushed(r) \/ Returned(r)
             \/ GotCard(r) /\ run[r].card = NoCard
             \/ RequestFails(r) \/ ReturnFails(r) \/ FlushFails(r) \/ FlushRefused(r)
      PROVE  Awaited' = Awaited
  <2>1. run[r].at # "execution"
    BY <1>4 DEF Start, Idle, Registered, Flushed, Returned, GotCard, RequestFails,
                ReturnFails, FlushFails, FlushRefused, Answered, Requests
  <2>2. ASSUME NEW todo, NEW kept, FlushOn(r, todo, kept)
        PROVE  run'[r].at # "execution" /\ \A q \in Runs \ {r} : run'[q] = run[q]
    BY <1>1, <2>2 DEF FlushOn, Await, Idle
  <2>3. ASSUME End(r)
        PROVE  run'[r].at # "execution" /\ \A q \in Runs \ {r} : run'[q] = run[q]
    BY <1>1, <2>3 DEF End, Idle
  <2>4. ASSUME Start(r)
        PROVE  run'[r].at # "execution" /\ \A q \in Runs \ {r} : run'[q] = run[q]
    BY <1>1, <2>4 DEF Start, RunType
  <2>5. End(r) \/ Start(r) \/ \E todo, kept : FlushOn(r, todo, kept)
    BY <1>4 DEF Registered, Flushed, Returned, GotCard, RequestFails, ReturnFails,
                FlushFails, FlushRefused
  <2>. QED BY <2>1, <2>2, <2>3, <2>4, <2>5, AwaitedSame
<1>5. ASSUME run' = run PROVE Awaited' = Awaited
  BY <1>5 DEF Awaited
<1>. QED BY <1>2, <1>3, <1>4, <1>5 DEF Next, Progress, Enqueue, TurnEnds, ServeLate, vars

\* A report settles its card, or changes nothing that its author is told.
LEMMA ToldSteps ==
    ASSUME TypeInv, NEW l \in Report, ReportOK(l), Handled({l}),
           overlapped \/ (l.status \in Results => l.card \notin Awaited),
           Begun' = Begun, Awaited' = Awaited, UNCHANGED <<finished, over, overlapped>>
    PROVE  [Execution!AbsNext]_(Execution!absVars)
<1>. DEFINE c == l.card
            Statuses == {"absent", "queued", "acked", "active"} \cup Results
<1>1. /\ central \in [Cards -> Statuses]
      /\ c \in Cards /\ l.status \in {"acked", "active"} \cup Results
  BY DEF TypeInv, TypeOK, Report
<1>2. central' = [central EXCEPT ![c] = Reported(central[c], l.status)]
  BY <1>1, HandledOne
<1>3. CASE Settled(c)
  <2>1. central' = central
    BY <1>1, <1>2, <1>3 DEF Reported, Settled
  <2>. QED BY <2>1, StandingSame DEF Execution!absVars
<1>4. CASE ~Settled(c) /\ l.status \in Results
  <2>1. central' = [central EXCEPT ![c] = l.status]
    BY <1>1, <1>2, <1>4 DEF Reported, Settled, Results, Outcomes, Suppressed
  <2>2. Standing[c] = "open" /\ Standing' = [Standing EXCEPT ![c] = l.status]
    BY <1>1, <1>4, <2>1
       DEF Standing, Offered, Settled, ReportOK, Present, Results, Outcomes, Suppressed
  <2>3. CASE l.status \in Outcomes
    BY <1>1, <2>2, <2>3 DEF ReportOK, Execution!AbsNext, Execution!Settle
  <2>4. CASE l.status = Suppressed
    BY <1>1, <1>4, <2>2, <2>4 DEF Execution!AbsNext, Execution!Suppress
  <2>. QED BY <1>4, <2>3, <2>4 DEF Results
<1>5. CASE ~Settled(c) /\ l.status \notin Results
  <2>1. central[c] \in {"queued", "acked", "active"}
    BY <1>1, <1>5 DEF Settled, ReportOK, Present
  <2>2. Reported(central[c], l.status) \in {"acked", "active"}
    BY <1>1, <1>5, <2>1 DEF Reported, Results, Outcomes, Suppressed
  <2>3. Standing' = Standing
    BY <1>1, <1>2, <2>1, <2>2 DEF Standing, Offered
  <2>. QED BY <2>3 DEF Execution!absVars
<1>. QED BY <1>3, <1>4, <1>5

LEMMA EnqueueArrives ==
    ASSUME TypeInv, NEW c \in Cards, Enqueue(c)
    PROVE  Execution!AbsNext
<1>1. central \in [Cards -> {"absent", "queued", "acked", "active"} \cup Results]
  BY DEF TypeInv, TypeOK
<1>2. Standing[c] = "absent" /\ Standing' = [Standing EXCEPT ![c] = "open"]
  BY <1>1 DEF Enqueue, Standing, Offered
<1>3. /\ Begun' = Begun /\ Awaited' = Awaited
      /\ UNCHANGED <<finished, over, overlapped>>
  BY DEF Enqueue, history, results, Begun, Awaited
<1>. QED BY <1>2, <1>3 DEF Execution!AbsNext, Execution!Arrive

LEMMA TurnEndsToo ==
    ASSUME TypeInv, NEW c \in Cards, TurnEnds(c)
    PROVE  Execution!AbsNext
<1>1. /\ Standing' = Standing /\ Begun' = Begun /\ Awaited' = Awaited
      /\ UNCHANGED <<finished, overlapped>>
  BY StandingSame, BegunSame DEF TurnEnds, results, Awaited
<1>2. c \in Begun \ over /\ over' = over \cup {c}
  BY DEF TurnEnds, Begun
<1>. QED BY <1>1, <1>2 DEF Execution!AbsNext, Execution!TurnEnds

LEMMA StartOverlaps ==
    ASSUME TypeInv, [Next]_vars, NEW r \in Runs, Start(r)
    PROVE  [Execution!AbsNext]_(Execution!absVars)
<1>1. Awaited' = Awaited
  <2>1. run[r].at = "idle"
    BY DEF Start, Idle
  <2>2. run'[r].at = "register" /\ \A q \in Runs \ {r} : run'[q] = run[q]
    BY DEF Start, TypeInv, TypeOK
  <2>. QED BY <2>1, <2>2, AwaitedSame
<1>2. Standing' = Standing /\ Begun' = Begun /\ UNCHANGED <<finished, over>>
  BY StandingSame, BegunSame DEF Start, results
<1>3. overlapped' \in {overlapped, TRUE}
  BY DEF Start, TypeInv, TypeOK
<1>. QED BY <1>1, <1>2, <1>3 DEF Execution!AbsNext, Execution!Overlap, Execution!absVars

LEMMA ExecuteBegins ==
    ASSUME ToldInv, ~overlapped => ReportsInv, NEW r \in Runs, Execute(r)
    PROVE  Execution!AbsNext
<1>. DEFINE c == run[r].card
<1>1. /\ TypeInv /\ run \in [Runs -> RunType] /\ run[r].at = "beat" /\ c \in Cards
      /\ executions \in [Cards -> Nat]
      /\ central \in [Cards -> {"absent", "queued", "acked", "active"} \cup Results]
  BY DEF ToldInv, TypeInv, TypeOK, RunType, Shape, WithCard, Execute, Answered
<1>2. Standing' = Standing /\ UNCHANGED <<finished, over, overlapped>>
  BY StandingSame DEF Execute, results
<1>3. Begun' = Begun \cup {c}
  BY <1>1 DEF Begun, Execute
<1>4. Awaited' = Awaited \cup {c}
  <2>1. /\ run'[r].at = "execution" /\ run'[r].card = c
        /\ \A q \in Runs \ {r} : run'[q] = run[q]
    BY <1>1 DEF Execute, Await, RunType
  <2>. QED BY <1>1, <2>1 DEF Awaited
<1>5. ASSUME ~overlapped
      PROVE  Standing[c] = "open" /\ c \notin Begun /\ Awaited = {}
  <2>1. ReportsInv
    BY <1>5
  <2>2. executions[c] = 0 /\ ~Settled(c)
    BY <1>1, <2>1 DEF ReportsInv, OnceInv, OnItsWay, RunsOK, RunOK, Clean
  <2>3. central[c] # "absent"
    BY <1>1 DEF ToldInv, RunPresent, WithCard, Present
  <2>4. Awaited = {}
    BY <1>1, <2>1 DEF ReportsInv, OnceInv, OneRun, Awaited
  <2>. QED BY <1>1, <2>2, <2>3, <2>4 DEF Standing, Offered, Settled, Begun
<1>. QED BY <1>1, <1>2, <1>3, <1>4, <1>5 DEF Execution!AbsNext, Execution!Begin

LEMMA ExecutedFinishes ==
    ASSUME ToldInv, ~overlapped => ReportsInv, NEW r \in Runs, Executed(r)
    PROVE  Execution!AbsNext
<1>. DEFINE c == run[r].card
<1>1. /\ run \in [Runs -> RunType] /\ run[r].at = "execution" /\ c \in Cards
      /\ central \in [Cards -> {"absent", "queued", "acked", "active"} \cup Results]
  BY DEF ToldInv, TypeInv, TypeOK, RunType, Shape, WithCard, Executed
<1>2. /\ Standing' = Standing /\ Begun' = Begun /\ finished' = finished \cup {c}
      /\ UNCHANGED <<over, overlapped>>
  BY StandingSame, BegunSame DEF Executed
<1>3. c \in Awaited
  BY <1>1 DEF Awaited
<1>4. run'[r].at = "return" /\ \A q \in Runs \ {r} : run'[q] = run[q]
  <2>1. PICK o \in Outcomes : Await(r, [run[r] EXCEPT !.at = "return", !.result = o])
    BY DEF Executed
  <2>. QED BY <1>1, <2>1 DEF Await, RunType
<1>5. Awaited' = Awaited \/ Awaited' = Awaited \ {c}
  <2>1. Awaited = Awaited' \cup {c}
    BY <1>1, <1>4 DEF Awaited
  <2>. QED BY <2>1
<1>6. ASSUME ~overlapped PROVE Standing[c] = "open" /\ Awaited' = {} /\ Awaited = {c}
  <2>1. ReportsInv
    BY <1>6
  <2>2. ~Settled(c)
    BY <1>1, <2>1 DEF ReportsInv, RunsOK, RunOK, Clean
  <2>3. central[c] # "absent"
    BY <1>1 DEF ToldInv, RunPresent, WithCard, Present
  <2>4. \A q \in Runs \ {r} : run[q].at = "idle"
    BY <1>1, <2>1 DEF ReportsInv, OnceInv, OneRun
  <2>5. Awaited' = {} /\ Awaited = {c}
    BY <1>1, <1>4, <2>4 DEF Awaited
  <2>. QED BY <1>1, <2>2, <2>3, <2>5 DEF Standing, Offered, Settled
<1>. QED BY <1>1, <1>2, <1>3, <1>5, <1>6 DEF Execution!AbsNext, Execution!Finish

LEMMA CrashAbandons ==
    ASSUME Crash
    PROVE  [Execution!AbsNext]_(Execution!absVars)
<1>1. /\ Standing' = Standing /\ Begun' = Begun
      /\ UNCHANGED <<finished, over, overlapped>>
  BY StandingSame, BegunSame DEF Crash
<1>2. Awaited' = {}
  BY DEF Crash, Idle, Awaited
<1>. QED BY <1>1, <1>2 DEF Execution!AbsNext, Execution!Abandon, Execution!absVars

\* The other steps are reports, or nothing to the author of a card.
LEMMA OtherSteps ==
    ASSUME ToldInv, ~overlapped => ReportsInv, [Next]_vars, ~Crash,
           \A c \in Cards : ~Enqueue(c) /\ ~TurnEnds(c),
           \A r \in Runs : ~Start(r) /\ ~Execute(r) /\ ~Executed(r)
    PROVE  [Execution!AbsNext]_(Execution!absVars)
<1>1. TypeInv /\ Awaited' = Awaited
  BY AwaitedStays DEF ToldInv
<1>2. UNCHANGED <<executions, finished, over, overlapped>>
  BY DEF Next, Progress, Serve, Registered, Flushed, GotCard, Acked, Returned,
         RequestFails, ReturnFails, FlushFails, FlushRefused, ServeLate, vars, history,
         results
<1>3. Begun' = Begun
  BY <1>2, BegunSame
<1>4. CASE central' = central
  BY <1>1, <1>2, <1>3, <1>4, StandingSame DEF Execution!absVars
<1>5. ASSUME NEW l \in late, Handled({l})
      PROVE  [Execution!AbsNext]_(Execution!absVars)
  <2>1. l \in Report /\ ReportOK(l)
    BY DEF ToldInv, TypeInv, TypeOK, Report
  <2>2. ~overlapped => (l.status \in Results => l.card \notin Awaited)
    BY DEF ReportsInv, RunsOK, RunOK, Clean, Awaited
  <2>. QED BY <1>1, <1>2, <1>3, <1>5, <2>1, <2>2, ToldSteps
<1>6. ASSUME NEW r \in Runs, NEW l \in Reports(run[r]), Serve(r), Handled({l})
      PROVE  [Execution!AbsNext]_(Execution!absVars)
  <2>1. l \in Report /\ ReportOK(l)
    BY ReportsOK
  <2>2. run[r].at \notin {"idle", "execution"}
    BY <1>6 DEF Serve, Requests
  <2>3. ~overlapped => Awaited = {}
    BY <2>2 DEF ReportsInv, OnceInv, OneRun, Awaited
  <2>. QED BY <1>1, <1>2, <1>3, <1>6, <2>1, <2>3, ToldSteps
<1>. QED BY <1>1, <1>4, <1>5, <1>6, CentralSteps

LEMMA CardSteps ==
    ASSUME ToldInv, ~overlapped => ReportsInv, [Next]_vars
    PROVE  [Execution!AbsNext]_(Execution!absVars)
<1>1. TypeInv
  BY DEF ToldInv
<1>. QED BY <1>1, EnqueueArrives, TurnEndsToo, StartOverlaps, ExecuteBegins,
            ExecutedFinishes, CrashAbandons, OtherSteps

LEMMA CardsInit == Init => Execution!AbsInit
<1>1. ASSUME Init PROVE Standing = [c \in Cards |-> "absent"]
  BY <1>1 DEF Init, Standing, Offered
<1>2. ASSUME Init
      PROVE  Begun = {} /\ Awaited = {} /\ finished = {} /\ over = {} /\ overlapped = FALSE
  BY <1>2 DEF Init, Begun, Awaited, Idle
<1>. QED BY <1>1, <1>2 DEF Execution!AbsInit

LEMMA CardInvStep ==
    ASSUME ToldInv, ~overlapped => ReportsInv, [Next]_vars
    PROVE  ToldInv' /\ (~overlapped' => ReportsInv')
<1>1. ASSUME ~overlapped' PROVE ReportsInv'
  <2>1. ReportsInv
    BY <1>1, OverlappedStays DEF ToldInv
  <2>. QED BY <1>1, <2>1, ReportsStep
<1>. QED BY <1>1, ToldStep

\* The node and the control plane implement CardExecution, whatever requests
\* fail, are served late or cross a restart.  A result is final, and an outcome
\* is that of an execution that has ended, "completed" that of a turn that has.
\* Until runs overlap, no card is started twice, once it has a result or while
\* another is waited for, and none gets a result while it is waited for.
THEOREM ImplementsCards == Spec => ImplementsCardExecution
<1>. DEFINE Inv == ToldInv /\ (~overlapped => ReportsInv)
<1>1. Init => Inv
  BY ToldInit, ReportsInit
<1>2. Inv /\ [Next]_vars => Inv'
  BY CardInvStep
<1>3. Inv /\ [Next]_vars => [Execution!AbsNext]_(Execution!absVars)
  BY CardSteps
<1>. QED BY <1>1, <1>2, <1>3, CardsInit, PTL
     DEF Spec, ImplementsCardExecution, Execution!AbsSpec

-----------------------------------------------------------------------------
(* The results, until runs overlap *)

\* Nobody needs the result of c, if there is one: a duplicate may be reported.
Waived(c) == c \in finished => c \in lost \cup deferred

\* What is polled, acked or told of as a duplicate.
Asking(s) == \/ s.at \in {"ack", "suppress"}
             \/ s.at = "poll" /\ s.served /\ s.card # NoCard

\* The queue that a poll leaves behind is of returns that failed once more, so
\* a card that is polled after its execution is one of these or has lost its
\* result.
DuplicateInv ==
    /\ \A r \in Runs :
          /\ run[r].at = "flush" => CardsOf(run[r].kept) \subseteq deferred
          /\ run[r].at = "poll" => CardsOf(queue) \subseteq deferred
          /\ Asking(run[r]) => Waived(run[r].card)
    /\ \A c \in Cards : central[c] = Suppressed => Waived(c)
    /\ \A l \in late : l.status = Suppressed => Waived(l.card)

KeptInv == ReportsInv /\ Accounted /\ AllKept /\ DuplicateInv

LEMMA WaivedStays ==
    ASSUME ReportsInv, [Next]_vars, NEW c \in Cards, Waived(c),
           \A r \in Runs : Executed(r) => run[r].card # c
    PROVE  Waived(c)'
<1>1. ASSUME NEW r \in Runs, Progress(r) PROVE Waived(c)'
  BY <1>1 DEF Progress, Start, Serve, Registered, Flushed, GotCard, Acked, Execute,
              Executed, Returned, history, results, Waived
<1>2. ASSUME NEW r \in Runs,
             RequestFails(r) \/ ReturnFails(r) \/ FlushFails(r) \/ FlushRefused(r)
      PROVE  Waived(c)'
  <2>1. finished' = finished /\ lost \subseteq lost' /\ deferred \subseteq deferred'
    BY <1>2 DEF RequestFails, ReturnFails, FlushFails, FlushRefused, history, results
  <2>. QED BY <2>1 DEF Waived
<1>3. ASSUME (\E d \in Cards : Enqueue(d) \/ TurnEnds(d)) \/ ServeLate \/ Crash
             \/ UNCHANGED vars
      PROVE  Waived(c)'
  BY <1>3 DEF Enqueue, TurnEnds, ServeLate, Crash, vars, history, results, Waived
<1>. QED BY <1>1, <1>2, <1>3 DEF Next

LEMMA DeferredGrows ==
    ASSUME [Next]_vars
    PROVE  deferred \subseteq deferred'
<1>1. ASSUME NEW r \in Runs, Progress(r) PROVE deferred' = deferred
  BY <1>1 DEF Progress, Start, Serve, Registered, Flushed, GotCard, Acked, Execute,
              Executed, Returned, history, results
<1>2. ASSUME NEW r \in Runs,
             RequestFails(r) \/ ReturnFails(r) \/ FlushFails(r) \/ FlushRefused(r)
      PROVE  deferred \subseteq deferred'
  BY <1>2 DEF RequestFails, ReturnFails, FlushFails, FlushRefused, history, results
<1>3. ASSUME (\E d \in Cards : Enqueue(d) \/ TurnEnds(d)) \/ ServeLate \/ Crash
             \/ UNCHANGED vars
      PROVE  deferred' = deferred
  BY <1>3 DEF Enqueue, TurnEnds, ServeLate, Crash, vars, history, results
<1>. QED BY <1>1, <1>2, <1>3 DEF Next

\* The duplicate that the control plane has, or is about to be told of.
LEMMA DuplicateTold ==
    ASSUME KeptInv, [Next]_vars
    PROVE  /\ \A c \in Cards : central'[c] = Suppressed => Waived(c)'
           /\ \A l \in late' : l.status = Suppressed => Waived(l.card)'
<1>1. /\ ToldInv /\ TypeInv /\ late \subseteq Report
      /\ central \in [Cards -> {"absent", "queued", "acked", "active"} \cup Results]
  BY DEF KeptInv, ReportsInv, ToldInv, TypeInv, TypeOK, Report
<1>2. ASSUME NEW l \in late', l.status = Suppressed
      PROVE  /\ l.card \in Cards /\ Waived(l.card)
             /\ l \in late \/ \E r \in Runs : run[r].at = "suppress" /\ run[r].card = l.card
  <2>1. CASE l \in late
    BY <1>1, <1>2, <2>1 DEF KeptInv, DuplicateInv, Report
  <2>2. ASSUME NEW r \in Runs, l \in Reports(run[r])
        PROVE  /\ l.card \in Cards /\ Waived(l.card)
               /\ run[r].at = "suppress" /\ run[r].card = l.card
    <3>1. run[r].at = "suppress" /\ l.card = run[r].card /\ l \in Report
      BY <1>1, <1>2, <2>2, ReportsOK
    <3>. QED BY <3>1 DEF KeptInv, DuplicateInv, Asking, Report
  <2>. QED BY <2>1, <2>2, LateGrows
<1>3. ASSUME NEW c \in Cards, central'[c] = Suppressed
      PROVE  /\ Waived(c)
             /\ \/ Settled(c) \/ \E l \in late : l.card = c /\ l.status = Suppressed
                \/ \E r \in Runs : run[r].at = "suppress"
  <2>1. CASE central[c] = Suppressed
    BY <2>1 DEF KeptInv, DuplicateInv, Settled, Results
  <2>2. CASE central[c] # Suppressed
    <3>1. ASSUME NEW l \in Report, Handled({l}) PROVE l.card = c /\ l.status = Suppressed
      <4>1. central' = [central EXCEPT ![l.card] = Reported(central[l.card], l.status)]
        BY <1>1, <3>1, HandledOne
      <4>. QED BY <1>1, <1>3, <2>2, <4>1 DEF Reported
    <3>2. ASSUME NEW d \in Cards, Enqueue(d) PROVE FALSE
      BY <1>1, <1>3, <2>2, <3>2 DEF Enqueue, Suppressed
    <3>3. ASSUME NEW l \in late, Handled({l})
          PROVE  l.card = c /\ l.status = Suppressed /\ Waived(c)
      BY <1>1, <3>1, <3>3 DEF KeptInv, DuplicateInv
    <3>4. ASSUME NEW r \in Runs, NEW l \in Reports(run[r]), Handled({l})
          PROVE  run[r].at = "suppress" /\ Waived(c)
      <4>1. l \in Report
        BY <1>1, ReportsOK
      <4>2. l.card = c /\ l.status = Suppressed
        BY <3>1, <3>4, <4>1
      <4>3. run[r].at = "suppress" /\ run[r].card = c
        BY <1>1, <4>2, ReportsOK
      <4>. QED BY <4>3 DEF KeptInv, DuplicateInv, Asking
    <3>. QED BY <1>1, <1>3, <2>2, <3>2, <3>3, <3>4, CentralSteps
  <2>. QED BY <2>1, <2>2
<1>4. ASSUME NEW r \in Runs, Executed(r)
      PROVE  /\ Clean(run[r].card)
             /\ \A q \in Runs : run[q].at # "suppress"
  <2>1. run[r].at = "execution"
    BY <1>4 DEF Executed
  <2>2. Clean(run[r].card)
    BY <2>1 DEF KeptInv, ReportsInv, RunsOK, RunOK
  <2>3. \A q \in Runs : run[q].at # "suppress"
    BY <2>1 DEF KeptInv, ReportsInv, OnceInv, OneRun
  <2>. QED BY <2>2, <2>3
<1>5. ASSUME NEW c \in Cards, central'[c] = Suppressed PROVE Waived(c)'
  <2>1. \A r \in Runs : Executed(r) => run[r].card # c
    BY <1>3, <1>4, <1>5 DEF Clean, Results
  <2>. QED BY <1>3, <1>5, <2>1, WaivedStays DEF KeptInv
<1>6. ASSUME NEW l \in late', l.status = Suppressed PROVE Waived(l.card)'
  <2>1. \A r \in Runs : Executed(r) => run[r].card # l.card
    BY <1>2, <1>4, <1>6 DEF Clean, Results
  <2>2. \A d \in Cards : d = l.card => Waived(d)'
    BY <1>2, <1>6, <2>1, WaivedStays DEF KeptInv
  <2>. QED BY <1>2, <1>6, <2>2
<1>. QED BY <1>5, <1>6

\* The card that is polled has no result, and the queue is all that has one.
LEMMA PolledWaived ==
    ASSUME KeptInv, NEW r \in Runs, run[r].at = "poll", NEW c \in Polled
    PROVE  c \in Cards /\ Waived(c)
<1>1. c \in Cards /\ ~Settled(c)
  BY DEF Polled, Offered, Settled, Results, Outcomes, Suppressed, KeptInv, ReportsInv,
         OnceInv, TypeInv, TypeOK
<1>2. ~Returning(c)
  BY DEF KeptInv, ReportsInv, OnceInv, OneRun, Returning
<1>3. CardsOf(queue) \subseteq deferred
  BY DEF KeptInv, DuplicateInv
<1>. QED BY <1>1, <1>2, <1>3 DEF KeptInv, AllKept, Waived

\* The one run under way takes a step.
LEMMA DuplicateBut ==
    ASSUME KeptInv, [Next]_vars, NEW r \in Runs,
           \A q \in Runs \ {r} : run'[q] = run[q] /\ run[q].at = "idle",
           run'[r].at = "flush" => CardsOf(run'[r].kept) \subseteq deferred',
           run'[r].at = "poll" => CardsOf(queue') \subseteq deferred',
           Asking(run'[r]) => run'[r].card \in Cards /\ Waived(run'[r].card) /\ ~Executed(r)
    PROVE  DuplicateInv'
<1>1. \A q \in Runs \ {r} : run'[q].at = "idle"
  OBVIOUS
<1>2. \A q \in Runs : Executed(q) => q = r
  BY DEF Executed
<1>3. \A c \in Cards : Waived(c) /\ ~Executed(r) => Waived(c)'
  BY <1>2, WaivedStays DEF KeptInv
<1>4. Asking(run'[r]) => \A c \in Cards : c = run'[r].card => Waived(c)'
  BY <1>3
<1>5. Asking(run[r])' => Waived(run[r].card)'
  BY <1>4 DEF Asking, Waived
<1>6. \A q \in Runs :
          /\ run'[q].at = "flush" => CardsOf(run'[q].kept) \subseteq deferred'
          /\ run'[q].at = "poll" => CardsOf(queue') \subseteq deferred'
          /\ Asking(run[q])' => Waived(run[q].card)'
  BY <1>1, <1>5 DEF Asking
<1>. QED BY <1>6, DuplicateTold DEF DuplicateInv, CardsOf

\* Nothing of the runs or the queue changes.
LEMMA DuplicateStable ==
    ASSUME KeptInv, [Next]_vars, UNCHANGED <<run, queue>>, \A r \in Runs : ~Executed(r)
    PROVE  DuplicateInv'
<1>1. deferred \subseteq deferred'
  BY DeferredGrows
<1>2. ASSUME NEW r \in Runs, Asking(run[r]) PROVE Waived(run[r].card)'
  <2>1. run[r].card \in Cards /\ Waived(run[r].card)
    BY <1>2 DEF KeptInv, DuplicateInv, Asking, ReportsInv, OnceInv, TypeInv, TypeOK, Shape,
                WithCard
  <2>2. \A d \in Cards : d = run[r].card => Waived(d)'
    BY <2>1, WaivedStays DEF KeptInv
  <2>. QED BY <2>1, <2>2 DEF Waived
<1>3. \A r \in Runs :
          /\ run'[r].at = "flush" => CardsOf(run'[r].kept) \subseteq deferred'
          /\ run'[r].at = "poll" => CardsOf(queue') \subseteq deferred'
          /\ Asking(run[r])' => Waived(run[r].card)'
  BY <1>1, <1>2 DEF KeptInv, DuplicateInv, Asking
<1>. QED BY <1>3, DuplicateTold DEF DuplicateInv, CardsOf

LEMMA DuplicateFlushOn ==
    ASSUME KeptInv, [Next]_vars, NEW r \in Runs, run[r].at \in {"register", "flush"},
           NEW todo \in Seq(Done), NEW kept \in Seq(Done), FlushOn(r, todo, kept),
           run[r].at = "register" => todo = queue,
           CardsOf(kept) \subseteq deferred'
    PROVE  DuplicateInv'
<1>1. run \in [Runs -> RunType]
  BY DEF KeptInv, ReportsInv, OnceInv, TypeInv, TypeOK, RunType
<1>2. \A q \in Runs \ {r} : run'[q] = run[q] /\ run[q].at = "idle"
  BY <1>1 DEF KeptInv, ReportsInv, OnceInv, OneRun, FlushOn, Await
<1>3. CASE todo = <<>>
  <2>1. run'[r].at = "poll" /\ ~run'[r].served
    BY <1>1, <1>3 DEF FlushOn, Await, Idle
  <2>2. queue' = kept \/ queue' = <<>>
    BY <1>3 DEF FlushOn
  <2>3. CardsOf(queue') \subseteq deferred'
    BY <2>2 DEF CardsOf
  <2>. QED BY <1>2, <2>1, <2>3, DuplicateBut DEF Asking
<1>4. CASE todo # <<>>
  <2>1. run'[r].at = "flush" /\ run'[r].kept = kept
    BY <1>1, <1>4 DEF FlushOn, Await, Idle
  <2>. QED BY <1>2, <2>1, DuplicateBut DEF Asking
<1>. QED BY <1>3, <1>4

LEMMA DuplicateFlushing ==
    ASSUME KeptInv, [Next]_vars, NEW r \in Runs,
           Registered(r) \/ Flushed(r) \/ FlushFails(r)
    PROVE  DuplicateInv'
<1>. DEFINE todo == run[r].todo
            kept == run[r].kept
<1>1. TypeInv
  BY DEF KeptInv, ReportsInv, OnceInv
<1>2. ASSUME run[r].at = "flush"
      PROVE  /\ todo # <<>> /\ todo \in Seq(Done) /\ kept \in Seq(Done)
             /\ CardsOf(kept) \subseteq deferred
  BY <1>1, <1>2 DEF TypeInv, Shape, KeptInv, DuplicateInv
<1>3. ASSUME run[r].at = "flush"
      PROVE  /\ Tail(todo) \in Seq(Done) /\ Append(kept, Head(todo)) \in Seq(Done)
             /\ CardsOf(Append(kept, Head(todo))) = CardsOf(kept) \cup {Head(todo).card}
  <2>1. todo # <<>> /\ todo \in Seq(Done) /\ kept \in Seq(Done)
    BY <1>2, <1>3
  <2>. HIDE DEF todo, kept
  <2>2. Head(todo) \in Done
    BY <2>1
  <2>. QED BY <2>1, <2>2, CardsOfAppend
<1>. HIDE DEF todo, kept
<1>4. CASE Registered(r)
  <2>1. queue \in Seq(Done) /\ <<>> \in Seq(Done) /\ CardsOf(<<>>) = {}
    BY <1>1 DEF TypeInv, CardsOf
  <2>2. run[r].at = "register" /\ FlushOn(r, queue, <<>>)
    BY <1>4 DEF Registered, Answered
  <2>. QED BY <2>1, <2>2, DuplicateFlushOn
<1>5. CASE Flushed(r)
  <2>1. run[r].at = "flush" /\ FlushOn(r, Tail(todo), kept)
    BY <1>5 DEF Flushed, Answered, todo, kept
  <2>2. CardsOf(kept) \subseteq deferred'
    BY <1>2, <2>1, DeferredGrows
  <2>. QED BY <1>2, <1>3, <2>1, <2>2, DuplicateFlushOn
<1>6. CASE FlushFails(r)
  <2>. DEFINE more == Append(kept, Head(todo))
  <2>1. /\ run[r].at = "flush" /\ FlushOn(r, Tail(todo), more)
        /\ deferred' = deferred \cup {Head(todo).card}
    BY <1>6 DEF FlushFails, Kept, todo, kept
  <2>2. CardsOf(more) \subseteq deferred'
    BY <1>2, <1>3, <2>1
  <2>. QED BY <1>3, <2>1, <2>2, DuplicateFlushOn
<1>. QED BY <1>4, <1>5, <1>6

LEMMA DuplicateStep ==
    ASSUME ~overlapped', KeptInv, [Next]_vars
    PROVE  DuplicateInv'
<1>1. TypeInv /\ OneRun /\ run \in [Runs -> RunType]
  BY DEF KeptInv, ReportsInv, OnceInv, TypeInv, TypeOK, RunType
<1>2. ASSUME NEW r \in Runs, run[r].at # "idle" \/ Start(r)
      PROVE  \A q \in Runs \ {r} : run[q].at = "idle"
  <2>1. CASE Start(r)
    BY <1>1, <2>1, OverlappedStays DEF Idle
  <2>2. CASE run[r].at # "idle"
    BY <1>1, <2>2 DEF OneRun
  <2>. QED BY <1>2, <2>1, <2>2
<1>3. ASSUME NEW r \in Runs, run[r].at # "idle" \/ Start(r),
             \A q \in Runs \ {r} : run'[q] = run[q],
             run'[r].at \notin {"flush", "poll", "ack", "suppress"}
      PROVE  DuplicateInv'
  BY <1>2, <1>3, DuplicateBut DEF Asking
<1>4. ASSUME NEW r \in Runs, End(r), run[r].at # "idle" PROVE DuplicateInv'
  <2>1. run'[r].at = "idle" /\ \A q \in Runs \ {r} : run'[q] = run[q]
    BY <1>1, <1>4 DEF End, Idle
  <2>. QED BY <1>3, <1>4, <2>1
<1>5. ASSUME NEW r \in Runs, Start(r) PROVE DuplicateInv'
  <2>1. run'[r].at = "register" /\ \A q \in Runs \ {r} : run'[q] = run[q]
    BY <1>1, <1>5 DEF Start, RunType
  <2>. QED BY <1>3, <1>5, <2>1
<1>6. ASSUME NEW r \in Runs, Execute(r) \/ Executed(r) PROVE DuplicateInv'
  <2>1. /\ run[r].at # "idle" /\ run'[r].at \in {"execution", "return"}
        /\ \A q \in Runs \ {r} : run'[q] = run[q]
    <3>1. CASE Execute(r)
      BY <1>1, <3>1 DEF Execute, Answered, Await, RunType
    <3>2. CASE Executed(r)
      <4>1. PICK o \in Outcomes : Await(r, [run[r] EXCEPT !.at = "return", !.result = o])
        BY <3>2 DEF Executed
      <4>2. run[r].at = "execution"
        BY <3>2 DEF Executed
      <4>. QED BY <1>1, <4>1, <4>2 DEF Await, RunType
    <3>. QED BY <1>6, <3>1, <3>2
  <2>. QED BY <1>3, <2>1
<1>7. ASSUME NEW r \in Runs, Serve(r) PROVE DuplicateInv'
  <2>1. /\ run[r].at \in Requests /\ run'[r].at = run[r].at /\ run'[r].kept = run[r].kept
        /\ \A q \in Runs \ {r} : run'[q] = run[q]
        /\ UNCHANGED <<queue, deferred>> /\ ~Executed(r)
    <3>1. run[r].at \in Requests /\ UNCHANGED <<queue, deferred>>
      BY <1>7 DEF Serve, node, history, results
    <3>2. /\ run'[r].at = run[r].at /\ run'[r].kept = run[r].kept
          /\ \A q \in Runs \ {r} : run'[q] = run[q]
      BY <1>1, <1>7 DEF Serve, RunType
    <3>3. ~Executed(r)
      BY <3>1 DEF Executed, Requests
    <3>. QED BY <3>1, <3>2, <3>3
  <2>2. \A q \in Runs \ {r} : run'[q] = run[q] /\ run[q].at = "idle"
    BY <1>2, <2>1 DEF Requests
  <2>3. Asking(run'[r]) => run'[r].card \in Cards /\ Waived(run'[r].card)
    <3>1. CASE run[r].at = "poll"
      <4>1. run'[r].card # NoCard => run'[r].card \in Polled
        BY <1>1, <1>7, <3>1 DEF Serve, RunType
      <4>. QED BY <2>1, <3>1, <4>1, PolledWaived DEF Asking
    <3>2. CASE run[r].at # "poll"
      <4>1. run'[r].card = run[r].card
        BY <1>1, <1>7, <3>2 DEF Serve, RunType
      <4>. QED BY <1>1, <2>1, <3>2, <4>1
           DEF Asking, KeptInv, DuplicateInv, TypeInv, Shape, WithCard
    <3>. QED BY <3>1, <3>2
  <2>. QED BY <2>1, <2>2, <2>3, DuplicateBut DEF KeptInv, DuplicateInv
<1>8. ASSUME NEW r \in Runs, GotCard(r), run[r].card # NoCard PROVE DuplicateInv'
  <2>1. Await(r, [Idle EXCEPT !.at = "ack", !.card = run[r].card, !.known = Known(run[r].card)])
    BY <1>8 DEF GotCard
  <2>2. /\ run'[r].at = "ack" /\ run'[r].card = run[r].card
        /\ \A q \in Runs \ {r} : run'[q] = run[q]
    BY <1>1, <2>1 DEF Await, Idle
  <2>3. run[r].at = "poll" /\ run[r].served /\ run[r].card \in Cards /\ ~Executed(r)
    BY <1>1, <1>8 DEF GotCard, Answered, RunType, Executed
  <2>4. Waived(run[r].card)
    BY <1>8, <2>3 DEF KeptInv, DuplicateInv, Asking
  <2>. QED BY <1>2, <2>2, <2>3, <2>4, DuplicateBut
<1>9. ASSUME NEW r \in Runs, Acked(r) PROVE DuplicateInv'
  <2>1. \E at \in {"suppress", "beat"} : Await(r, [run[r] EXCEPT !.at = at])
    BY <1>9 DEF Acked
  <2>2. ASSUME NEW at, Await(r, [run[r] EXCEPT !.at = at])
        PROVE  /\ run'[r].at = at /\ run'[r].card = run[r].card
               /\ \A q \in Runs \ {r} : run'[q] = run[q]
    BY <1>1, <2>2 DEF Await, RunType
  <2>3. /\ run'[r].at \in {"suppress", "beat"} /\ run'[r].card = run[r].card
        /\ \A q \in Runs \ {r} : run'[q] = run[q]
    BY <2>1, <2>2
  <2>4. run[r].at = "ack" /\ run[r].card \in Cards /\ ~Executed(r)
    BY <1>1, <1>9 DEF Acked, Answered, TypeInv, Shape, WithCard, Executed
  <2>5. Waived(run[r].card)
    BY <2>4 DEF KeptInv, DuplicateInv, Asking
  <2>. QED BY <1>2, <2>3, <2>4, <2>5, DuplicateBut
<1>10. ASSUME NEW r \in Runs,
              \/ Returned(r) \/ RequestFails(r) \/ ReturnFails(r) \/ FlushRefused(r)
              \/ GotCard(r) /\ run[r].card = NoCard
       PROVE  DuplicateInv'
  BY <1>4, <1>10 DEF Returned, RequestFails, ReturnFails, FlushRefused, GotCard, Answered,
                     Requests
<1>11. ASSUME Crash PROVE DuplicateInv'
  <2>1. \A r \in Runs : run'[r].at = "idle"
    BY <1>11 DEF Crash, Idle
  <2>2. \A r \in Runs :
          /\ run'[r].at = "flush" => CardsOf(run'[r].kept) \subseteq deferred'
          /\ run'[r].at = "poll" => CardsOf(queue') \subseteq deferred'
          /\ Asking(run[r])' => Waived(run[r].card)'
    BY <2>1 DEF Asking
  <2>. QED BY <2>2, DuplicateTold DEF DuplicateInv, CardsOf
<1>12. ASSUME (\E c \in Cards : Enqueue(c) \/ TurnEnds(c)) \/ ServeLate \/ UNCHANGED vars
       PROVE  DuplicateInv'
  <2>1. CASE \E r \in Runs : Executed(r)
    BY <1>6, <2>1
  <2>2. UNCHANGED <<run, queue>>
    BY <1>12 DEF Enqueue, TurnEnds, ServeLate, vars, node
  <2>. QED BY <2>1, <2>2, DuplicateStable
<1>. QED BY <1>5, <1>6, <1>7, <1>8, <1>9, <1>10, <1>11, <1>12, DuplicateFlushing
         DEF Next, Progress

\* The results of executions are kept, whatever requests fail: until runs
\* overlap, the control plane has the outcome of an execution that has ended, or
\* the outcome is being returned or is queued, unless a restart, the bound of the
\* queue or a duplicate reported after the second failure of its return cost it.
\* Replacing the queue at the end of a flush drops nothing else.
THEOREM ResultKeptHolds == Spec => []ResultKept
<1>. DEFINE Inv == TypeInv /\ (~overlapped => KeptInv)
<1>1. Init => Inv
  <2>1. Init => Accounted /\ AllKept /\ DuplicateInv
    BY DEF Init, Idle, Accounted, AllKept, DuplicateInv, Asking, Suppressed
  <2>. QED BY <2>1, TypeInit, ReportsInit DEF KeptInv
<1>2. Inv /\ [Next]_vars => Inv'
  <2>1. ASSUME Inv, [Next]_vars, ~overlapped' PROVE KeptInv'
    <3>1. KeptInv
      BY <2>1, OverlappedStays
    <3>. QED BY <2>1, <3>1, ReportsStep, KeptStep, DuplicateStep
         DEF KeptInv, ReportsInv, OnceInv
  <2>. QED BY <2>1, TypeStep
<1>3. Inv => ResultKept
  <2>1. ASSUME KeptInv, NEW c \in finished \ lost
        PROVE  \/ central[c] \in Outcomes
               \/ Returning(c) \/ c \in CardsOf(queue)
               \/ central[c] = Suppressed /\ c \in deferred
    <3>1. c \in Cards
      BY <2>1 DEF KeptInv, ReportsInv, OnceInv, TypeInv, TypeOK
    <3>. QED BY <2>1, <3>1 DEF KeptInv, AllKept, Settled, Results, DuplicateInv, Waived
  <2>. QED BY <2>1 DEF ResultKept, Returning, CardsOf
<1>. QED BY <1>1, <1>2, <1>3, PTL DEF Spec
=============================================================================
