-------------------------- MODULE RemoteWorkspace --------------------------
(***************************************************************************)
(* A remote managed workspace: the runner of a remote node (remote-managed-*)
(* workspace-node-runner-service.js) fetches task cards from the control   *)
(* plane, has them executed locally and returns a terminal result for each *)
(* (remote-managed-workspace-service.js stands for the control plane).     *)
(*                                                                         *)
(* Every request of the runner is awaited: the control plane may serve it, *)
(* and the runner may get the answer or an error, whether it was served,   *)
(* will be served late or never.  What the runner does between two         *)
(* requests is one step.                                                   *)
(***************************************************************************)
EXTENDS Sequences, Integers

CONSTANTS Cards,
          Runs,        \* calls of runOnce() under way at once
          Forced,      \* those made with force, by the settings page
          QueueLimit,  \* 20 in the code
          KeyLimit,    \* 200 in the code
          MaxFaults    \* bound on failed requests and restarts

ASSUME RemoteAssumption ==
    /\ Forced \subseteq Runs
    /\ QueueLimit \in Nat \ {0} /\ KeyLimit \in Nat \ {0}
    /\ MaxFaults \in Nat

VARIABLES
    arrived,     \* the cards of the control plane, in order
    central,     \* their status there; a terminal one is the result returned
    executed,    \* executedIdempotencyKeys, in the node's state file
    queue,       \* queuedTerminalReturns, in the same file
    running,     \* the flag of runOnce()
    run,         \* where each run is
    late,        \* reports of failed requests that may still be served
    faults,
    \* Of executions; the steps of the turns read the first two:
    executions,  \* times the local execution of a card was started,
    over,        \* the cards a local turn of which has ended,
    finished,    \* those the runner has a terminal result for,
    lost,        \* those whose result a restart or the bound of the queue cost,
    deferred,    \* those whose queued result could not be returned either,
    overlapped   \* whether a run ever started while another was under way

node == <<executed, queue>>
results == <<finished, lost, deferred>>
history == <<executions, over, results, overlapped>>
vars == <<arrived, central, node, running, run, late, faults, history>>

NoCard == "none"
Suppressed == "suppressed"   \* "completed", with duplicateSuppressed
Outcomes == {"completed", "failed"}
Results == Outcomes \cup {Suppressed}
Entries == [card : Cards, result : Outcomes]

\* at: the request awaited, or the local execution.  served: the control plane
\* has handled it.  known: the key was in the state that processCard read.
Idle == [at |-> "idle", served |-> FALSE, card |-> NoCard, known |-> FALSE,
         result |-> "none", todo |-> <<>>, kept |-> <<>>]
Requests == {"register", "flush", "poll", "ack", "suppress", "beat", "return"}

Init ==
    /\ arrived = <<>>
    /\ central = [c \in Cards |-> "absent"]
    /\ executed = <<>> /\ queue = <<>>
    /\ running = FALSE
    /\ run = [r \in Runs |-> Idle]
    /\ late = {}
    /\ faults = 0
    /\ executions = [c \in Cards |-> 0] /\ over = {}
    /\ finished = {} /\ lost = {} /\ deferred = {}
    /\ overlapped = FALSE

-----------------------------------------------------------------------------
(* The control plane *)

\* enqueueTaskCard.
Enqueue(c) ==
    /\ central[c] = "absent"
    /\ central' = [central EXCEPT ![c] = "queued"]
    /\ arrived' = Append(arrived, c)
    /\ UNCHANGED <<node, running, run, late, faults, history>>

\* Mutant: a card that was acked is not offered again.
MutOffered(c) == central[c] = "queued"

\* pollTaskCards: the cards it offers.
Offered(c) == central[c] \in {"queued", "acked", "active"}

\* pollTaskCards, with the runner's limit of one: the first of these, if any.
Polled == {arrived[i] : i \in {i \in 1..Len(arrived) :
             /\ Offered(arrived[i])
             /\ \A j \in 1..(i - 1) : ~Offered(arrived[j])}}

\* What a request reports about a card, if anything.
Reports(s) ==
    CASE s.at = "ack"      -> {[card |-> s.card, status |-> "acked"]}
      [] s.at = "beat"     -> {[card |-> s.card, status |-> "active"]}
      [] s.at = "suppress" -> {[card |-> s.card, status |-> Suppressed]}
      [] s.at = "return"   -> {[card |-> s.card, status |-> s.result]}
      [] s.at = "flush"    -> {[card |-> Head(s.todo).card,
                                status |-> Head(s.todo).result]}
      [] OTHER             -> {}

\* Mutant: a late report reopens a card that has its result.
MutReported(old, status) == IF old = "active" /\ status = "acked" THEN old ELSE status

\* ackTaskCard, heartbeatTaskCard, returnTaskCard: nothing changes a terminal
\* status.
Reported(old, status) ==
    IF old \in Results \/ (old = "active" /\ status = "acked") THEN old ELSE status

Handled(S) ==
    central' = [c \in Cards |->
                   IF \E l \in S : l.card = c
                   THEN Reported(central[c], (CHOOSE l \in S : l.card = c).status)
                   ELSE central[c]]

Serve(r) ==
    /\ run[r].at \in Requests /\ ~run[r].served
    /\ Handled(Reports(run[r]))
    /\ \E c \in IF run[r].at # "poll" THEN {run[r].card}
               ELSE IF Polled = {} THEN {NoCard} ELSE Polled :
          run' = [run EXCEPT ![r].served = TRUE, ![r].card = c]
    /\ UNCHANGED <<arrived, node, running, late, faults, history>>

\* The runner has given up on the request.
ServeLate ==
    \E l \in late :
        /\ Handled({l})
        /\ late' = late \ {l}
        /\ UNCHANGED <<arrived, node, running, run, faults, history>>

-----------------------------------------------------------------------------
(* runOnce *)

Answered(r, at) == run[r].at = at /\ run[r].served

Await(r, s) == run' = [run EXCEPT ![r] = [s EXCEPT !.served = FALSE]]
               /\ UNCHANGED running

\* The end of runOnce, which clears the flag whoever set it.
End(r) == run' = [run EXCEPT ![r] = Idle] /\ running' = FALSE

\* By the timer, or by the settings page, whose runs do not look at the flag.
Start(r) ==
    /\ run[r] = Idle
    /\ running => r \in Forced
    /\ running' = TRUE
    /\ run' = [run EXCEPT ![r].at = "register"]
    /\ overlapped' = (overlapped \/ \E q \in Runs : run[q] # Idle)
    /\ UNCHANGED <<arrived, central, node, late, faults, executions, over, results>>

\* flushQueuedTerminalReturns: it goes on with the queue it read, and at the
\* end replaces the queue by what it could not return.
FlushOn(r, todo, kept) ==
    IF todo = <<>>
    THEN /\ Await(r, [Idle EXCEPT !.at = "poll"])
         /\ queue' = IF run[r].at = "flush" THEN kept ELSE queue
    ELSE /\ Await(r, [Idle EXCEPT !.at = "flush", !.todo = todo, !.kept = kept])
         /\ UNCHANGED queue

Registered(r) ==
    /\ Answered(r, "register")
    /\ FlushOn(r, queue, <<>>)
    /\ UNCHANGED <<arrived, central, executed, late, faults, history>>

Flushed(r) ==
    /\ Answered(r, "flush")
    /\ FlushOn(r, Tail(run[r].todo), run[r].kept)
    /\ UNCHANGED <<arrived, central, executed, late, faults, history>>

Known(c) == \E i \in 1..Len(executed) : executed[i] = c

\* processCard reads the state file before it acks.
GotCard(r) ==
    LET c == run[r].card IN
    /\ Answered(r, "poll")
    /\ IF c = NoCard THEN End(r)
       ELSE Await(r, [Idle EXCEPT !.at = "ack", !.card = c,
                                  !.known = Known(c)])
    /\ UNCHANGED <<arrived, central, node, late, faults, history>>

\* Mutant: there is no bound.
MutNewest(q, n) == q

\* .slice(-n), of a list to which one entry was added.
Newest(q, n) == IF Len(q) > n THEN Tail(q) ELSE q

\* Mutant: the key is not written before the card is executed.
MutRemembered(c) == executed

\* rememberIdempotencyKey.
Remembered(c) == IF Known(c) THEN executed ELSE Newest(Append(executed, c), KeyLimit)

\* The key is taken for the card's execution from here on.
Acked(r) ==
    /\ Answered(r, "ack")
    /\ IF run[r].known
       THEN Await(r, [run[r] EXCEPT !.at = "suppress"]) /\ UNCHANGED executed
       ELSE /\ Await(r, [run[r] EXCEPT !.at = "beat"])
            /\ executed' = Remembered(run[r].card)
    /\ UNCHANGED <<arrived, central, queue, late, faults, history>>

\* executeCardWithHeartbeat: the first heartbeat comes before the execution.
Execute(r) ==
    /\ Answered(r, "beat")
    /\ Await(r, [run[r] EXCEPT !.at = "execution"])
    /\ executions' = [executions EXCEPT ![run[r].card] = @ + 1]
    /\ UNCHANGED <<arrived, central, node, late, faults, over, results, overlapped>>

\* The app-server is done with a local turn, whoever still waits for it.
TurnEnds(c) ==
    /\ executions[c] # 0 /\ c \notin over
    /\ over' = over \cup {c}
    /\ UNCHANGED <<arrived, central, node, running, run, late, faults, executions,
                   results, overlapped>>

\* The wait is over: a turn was seen to end, or none could be started, a request
\* about it failed or the deadline has passed.  Then the turn may run on, and
\* the result is not "completed".
Executed(r) ==
    /\ run[r].at = "execution"
    /\ \E o \in Outcomes :
          /\ o = "completed" => run[r].card \in over
          /\ Await(r, [run[r] EXCEPT !.at = "return", !.result = o])
    /\ finished' = finished \cup {run[r].card}
    /\ UNCHANGED <<arrived, central, node, late, faults, executions, over, lost,
                   deferred, overlapped>>

\* The result, or that of a duplicate, has been returned.
Returned(r) ==
    /\ Answered(r, "return") \/ Answered(r, "suppress")
    /\ End(r)
    /\ UNCHANGED <<arrived, central, node, late, faults, history>>

-----------------------------------------------------------------------------
(* Failures *)

\* The requests of the runs in S fail; those not served may be so later.
Fault(S) ==
    /\ faults < MaxFaults /\ faults' = faults + 1
    /\ \E sent \in SUBSET UNION {Reports(run[r]) : r \in {r \in S : ~run[r].served}} :
          late' = late \cup sent

\* The run ends; the timer will start another.
RequestFails(r) ==
    /\ run[r].at \in Requests \ {"flush", "return"}
    /\ Fault({r})
    /\ End(r)
    /\ UNCHANGED <<arrived, central, node, history>>

\* Mutant: a return that fails again is forgotten.
MutKept(r) == run[r].kept

Kept(r) == Append(run[r].kept, Head(run[r].todo))

FlushFails(r) ==
    /\ run[r].at = "flush"
    /\ Fault({r})
    /\ FlushOn(r, Tail(run[r].todo), Kept(r))
    /\ deferred' = deferred \cup {Head(run[r].todo).card}
    /\ UNCHANGED <<arrived, central, executed, executions, over, finished, lost,
                   overlapped>>

\* An invalid credential ends the run; the queue stays as it is.
FlushRefused(r) ==
    /\ run[r].at = "flush"
    /\ Fault({})
    /\ End(r)
    /\ UNCHANGED <<arrived, central, node, history>>

\* queueTerminalReturn.
ReturnFails(r) ==
    LET q == Append(queue, [card |-> run[r].card, result |-> run[r].result]) IN
    /\ run[r].at = "return"
    /\ Fault({r})
    /\ queue' = Newest(q, QueueLimit)
    /\ lost' = lost \cup {q[i].card : i \in 1..Len(q) - Len(queue')}
    /\ End(r)
    /\ UNCHANGED <<arrived, central, executed, executions, over, finished, deferred,
                   overlapped>>

\* The node restarts: its files are all that remains.
Crash ==
    /\ Fault(Runs)
    /\ lost' = lost \cup {run[r].card : r \in {r \in Runs : run[r].at = "return"}}
    /\ run' = [r \in Runs |-> Idle]
    /\ running' = FALSE
    /\ UNCHANGED <<arrived, central, node, executions, over, finished, deferred,
                   overlapped>>

-----------------------------------------------------------------------------
Progress(r) ==
    \/ Start(r) \/ Serve(r) \/ Registered(r) \/ Flushed(r) \/ GotCard(r)
    \/ Acked(r) \/ Execute(r) \/ Executed(r) \/ Returned(r)

Next ==
    \/ \E c \in Cards : Enqueue(c) \/ TurnEnds(c)
    \/ \E r \in Runs : \/ Progress(r)
                       \/ RequestFails(r) \/ ReturnFails(r)
                       \/ FlushFails(r) \/ FlushRefused(r)
    \/ ServeLate \/ Crash

Spec == Init /\ [][Next]_vars

\* The timer starts a run again and again, every request is served or fails,
\* and the wait for a local turn has a deadline.  Nobody has to force a run.
FairSpec ==
    /\ Spec
    /\ \A r \in Runs \ Forced : WF_vars(Progress(r))
    /\ \A r \in Forced : WF_vars(run[r] # Idle /\ Progress(r))

-----------------------------------------------------------------------------
(* Properties *)

TypeOK ==
    /\ arrived \in Seq(Cards)
    /\ central \in [Cards -> {"absent", "queued", "acked", "active"}
                             \cup Results]
    /\ executed \in Seq(Cards) /\ Len(executed) <= KeyLimit
    /\ queue \in Seq(Entries) /\ Len(queue) <= QueueLimit
    /\ running \in BOOLEAN
    /\ run \in [Runs -> [at : Requests \cup {"idle", "execution"},
                         served : BOOLEAN, card : Cards \cup {NoCard},
                         known : BOOLEAN, result : Outcomes \cup {"none"},
                         todo : Seq(Entries), kept : Seq(Entries)]]
    /\ late \subseteq [card : Cards, status : {"acked", "active"} \cup Results]
    /\ faults \in 0..MaxFaults
    /\ executions \in [Cards -> Nat] /\ over \subseteq Cards
    /\ finished \subseteq Cards
    /\ lost \subseteq finished /\ deferred \subseteq finished
    /\ overlapped \in BOOLEAN

\* As long as no run is forced while another is under way, the local execution
\* of a card is started at most once, however often the card is offered: after a
\* failed request, a lost answer or a restart, and though old keys are dropped.
ExecutedOnce == ~overlapped => \A c \in Cards : executions[c] <= 1

\* Until runs overlap, the result of an execution gets to the control plane: it
\* has the outcome, or the outcome is being returned or is queued.  Three things
\* can cost it: a restart, the bound of the queue, and the duplicate result that
\* the control plane is given when the card is polled again because its queued
\* return failed as well.
ResultKept ==
    ~overlapped => \A c \in finished \ lost :
        \/ central[c] \in Outcomes
        \/ \E r \in Runs : run[r].at = "return" /\ run[r].card = c
        \/ \E i \in 1..Len(queue) : queue[i].card = c
        \/ central[c] = Suppressed /\ c \in deferred

\* Once the faults are over, every card gets a terminal result: a card that
\* was interrupted does not stand in the way of those behind it.
CardSettles ==
    \A c \in Cards : central[c] = "queued" ~> central[c] \in Results

\* The promise to the author of a card: CardExecution, of the cards that the
\* control plane offers and of the executions that the runner waits for.
Standing == [c \in Cards |-> IF Offered(c) THEN "open" ELSE central[c]]
Begun == {c \in Cards : executions[c] # 0}
Awaited == {run[r].card : r \in {r \in Runs : run[r].at = "execution"}}

Execution == INSTANCE CardExecution
             WITH standing <- Standing, begun <- Begun, awaited <- Awaited,
                  ended <- finished

\* Whatever requests fail, are served late or cross a restart, the node and the
\* control plane do what CardExecution says.  A result is final, and an outcome is
\* that of an execution that has ended, "completed" that of a turn that has.  And
\* until runs overlap, no card is started twice, once it has a result or while
\* another is waited for, and none gets a result while it is waited for.
ImplementsCardExecution == Execution!AbsSpec

\* docs/REMOTE_MANAGED_WORKSPACE.md:146: the runner "sends one bounded terminal
\* return to Home AI central after the local turn completes, fails, or times
\* out".
ReturnedAfterExecution ==
    \A c \in Cards : central[c] \in Results => c \in finished
=============================================================================
