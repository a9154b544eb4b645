-------------------------------- MODULE Mux --------------------------------
(***************************************************************************)
(* codex-app-server-mux.js: one process that lets Codex Desktop (on stdio) *)
(* and any number of TCP clients (Codex Mobile Web, adapters) share one    *)
(* real app-server, its child process.                                     *)
(*                                                                         *)
(* The mux is single-threaded: each line it reads, from a client or from   *)
(* the child, is handled in one step.  Lines arrive in any order.          *)
(* Notifications are numbered in the order the mux broadcasts them         *)
(* (nextReplaySeq), so a set of numbers stands for an ordered stream.      *)
(***************************************************************************)
EXTENDS Naturals, Sequences, FiniteSets

CONSTANTS Clients,       \* every connection of the mux's lifetime (ids are never reused)
          Stdio,         \* the desktop-stdio client; not in Clients when STANDALONE
          Mobile,        \* the clients whose clientInfo says codex-mobile-web
          MayBreak,      \* the clients whose writes may start to throw
          Ids,           \* the request ids of a client, each used once, in order
          Questions,     \* ids of the child's own requests (approvals, user input)
          Threads, Turns,
          KeepAlive,         \* CODEX_MUX_KEEP_ALIVE or STANDALONE
          ReplayDesktop,     \* CODEX_MUX_REPLAY_DESKTOP_NOTIFICATIONS
          BufferLimit,       \* CODEX_MUX_REPLAY_BUFFER_LIMIT
          ClientLimit,       \* clientInfo.replayNotificationLimit, by client
          NotesBound         \* bound: notifications broadcast in a behaviour

ASSUME MuxAssumption ==
    /\ Mobile \subseteq Clients \ {Stdio}
    /\ MayBreak \subseteq Clients
    /\ Ids \subseteq Nat
    /\ KeepAlive \in BOOLEAN /\ ReplayDesktop \in BOOLEAN
    /\ BufferLimit \in Nat /\ NotesBound \in Nat
    /\ ClientLimit \in [Clients -> Nat]

VARIABLES
    \* the mux's own state
    up,              \* not shutting down
    clients,         \* the `clients` map
    info,            \* client.clientInfo: "none" before its initialize line
    cachedInit,      \* initializeResult is set
    pending,         \* the `pending` map, a set of entries with distinct keys
    starts,          \* pendingMobileTurnStarts
    serverRequests,  \* ids in the serverRequests map
    activeTurns,     \* activeTurnsByThread
    replayBuffer,    \* numbers of the buffered notifications
    \* the transports and the processes around it
    link,            \* link[c]: the client's socket, "new", "open" or "closed"
    broken,          \* clients a write to which throws
    stdin,           \* child.stdin is writable
    childInit,       \* the child has been initialized
    held,            \* requests the child holds and has not answered
    aged,            \* notifications 1..aged are past REPLAY_BUFFER_MAX_AGE_MS
    \* what has happened
    asked,           \* requests sent by clients
    replies,         \* replies[r]: answers delivered to the sender of r
    notes,           \* every notification broadcast
    live, replayed,  \* numbers of those delivered to each client, live or as replay
    initAt,          \* Len(notes) when the client got its initialize result
    ready,           \* clients that got their initialize result
    shown,           \* the child's questions written to each client
    raised, resolved,  \* questions the child asked, and those it settled
    answersOf        \* answers to each question forwarded to the child

muxVars == <<up, clients, info, cachedInit, pending, starts, serverRequests,
             activeTurns, replayBuffer>>
envVars == <<link, broken, stdin, childInit, held, aged>>
noteVars == <<notes, live, replayed, replayBuffer, activeTurns, starts>>
histVars == <<asked, replies, notes, live, replayed, initAt, ready, shown,
              raised, resolved, answersOf>>
vars == <<muxVars, envVars, histVars>>

Reqs == Clients \X Ids
NoReq == <<>>
NoThread == "none"
NoTurn == "none"

\* NoTurn stands for a missing turn id.
ASSUME NoTurnAssumption == NoTurn \notin Turns

Calls == [method : {"initialize", "other"}, thread : {NoThread}]
         \cup [method : {"turn/start"}, thread : Threads]

\* Entries of `pending`, and the same request as the child holds it.
Entries == [key : Reqs, client : Clients, id : Ids, call : Calls]

\* Entries of pendingMobileTurnStarts; `at` is receivedAt, as an order.
Starts == [key : Reqs, thread : Threads, at : Nat]

\* "item" is any turn/, item/ or thread/ notification not named below,
\* "delta" one of MOBILE_DROP_NOTIFICATION_METHODS, "echo" a synthetic
\* item/completed with a mux-user-* id, made from the request `from`.
Kinds == {"started", "completed", "item", "delta", "echo", "resolved"}
Notes == [kind : Kinds, thread : Threads \cup {NoThread},
          turn : Turns \cup {NoTurn}, from : Reqs \cup {NoReq}]

\* A reply says whose request the child answered; NoReq: the mux itself did.
Replies == [origin : Reqs \cup {NoReq}, ok : BOOLEAN]

TcpClients == Clients \ {Stdio}

-----------------------------------------------------------------------------
(* Helpers of the handlers *)

\* Mutants: the client left out of the internal id; its parts swapped.
MutInternalIdShared(c, i) == <<Stdio, i>>
MutInternalIdSwapped(c, i) == <<i, c>>

\* The id under which the child sees client c's request i.
InternalId(c, i) == <<c, i>>

\* Mutant: removing a client clears the whole map.
MutForget(p, gone) == IF gone = {} THEN p ELSE {}

\* removeClient: the entries of the clients that are gone.
Forget(p, gone) == {q \in p : q.client \notin gone}

\* Mutant: synthetic messages are not kept from other clients.
MutVisible(inf, note) == note.kind = "delta" => inf # "mobile"

\* messageForClient, for a client whose clientInfo is inf.
Visible(inf, note) ==
    /\ note.kind = "echo" => inf = "mobile"
    /\ note.kind = "delta" => inf # "mobile"

\* isReplayableNotification.
Replayable(note) == note.kind # "resolved"

\* Mutant: slice(0, k) for slice(-k).
MutNewest(b, k) == {n \in b : Cardinality({m \in b : m < n}) < k}

\* The k greatest numbers of the set b.
Newest(b, k) == {n \in b : Cardinality({m \in b : m > n}) < k}

\* pruneReplayBuffer: too old first, then down to the limit.
Prune(b) == Newest({n \in b : n > aged}, BufferLimit)

\* sendToClient, to one client: a throwing write removes the client.
Dropped(c) == {c} \cap clients \cap broken
Written(c) == c \notin broken

\* Mutant: broadcasts reach Mobile Web only.
MutReceivers == {c \in clients \ broken : info[c] = "mobile"}

\* The clients a broadcast reaches; it removes the other ones from `clients`.
Receivers == clients \ broken

\* Mutant: a question stays in the map when it has been dealt with.
MutWithout(s) == serverRequests

\* serverRequests.delete
Without(s) == serverRequests \ {s}

\* Mutant: a client with a limit gets the start of the buffer, not its end.
MutReplayTo(c, inf, b) ==
    {n \in b : Cardinality({m \in b : m < n}) < ClientLimit[c] /\ Visible(inf, notes[n])}

\* What replayMissedNotifications sends to client c of the pruned buffer b.
ReplayTo(c, inf, b) ==
    IF inf = "mobile" \/ ReplayDesktop
    THEN {n \in Newest(b, ClientLimit[c]) : Visible(inf, notes[n])}
    ELSE {}

-----------------------------------------------------------------------------
(* Steps shared by several handlers *)

\* cacheReplayNotification and broadcastToClients of the notifications ms.
Publish(ms) ==
    LET all == notes \o ms
        fresh == (Len(notes) + 1)..Len(all)
        cached == {n \in fresh : Replayable(all[n])}
        sent(c) == {n \in fresh : Visible(info[c], all[n])}
        gone == {c \in clients \cap broken : sent(c) # {}}
    IN  /\ Len(all) <= NotesBound
        /\ notes' = all
        /\ replayBuffer' = IF cached = {} THEN replayBuffer
                           ELSE Prune(replayBuffer \cup cached)
        /\ live' = [c \in Clients |-> IF c \in Receivers
                                      THEN live[c] \cup sent(c) ELSE live[c]]
        /\ clients' = clients \ gone
        /\ pending' = Forget(pending, gone)

\* sendToClient of the answer to request r, whose entry is already out of p.
Reply(r, origin, ok, p) ==
    /\ replies' = IF Written(r[1])
                  THEN [replies EXCEPT ![r] = Append(@, [origin |-> origin, ok |-> ok])]
                  ELSE replies
    /\ clients' = clients \ Dropped(r[1])
    /\ pending' = Forget(p, Dropped(r[1]))

\* The initialize result, then replayMissedNotifications: every open question
\* of the child, then the buffered notifications.
InitializeReply(c, i, inf, origin, p) ==
    LET buffer == Prune(replayBuffer) IN
    /\ Reply(<<c, i>>, origin, TRUE, p)
    /\ replayBuffer' = buffer
    /\ IF Written(c)
       THEN /\ shown' = [shown EXCEPT ![c] = @ \cup serverRequests]
            /\ replayed' = [replayed EXCEPT ![c] = @ \cup ReplayTo(c, inf, buffer)]
            /\ ready' = ready \cup {c}
            /\ initAt' = [initAt EXCEPT ![c] = Len(notes)]
       ELSE UNCHANGED <<shown, replayed, ready, initAt>>

\* The end of handleClientLine: a request goes to the child under its internal
\* id; if that throws, its entry is taken back and an error returned.
Forward(c, i, call) ==
    LET entry == [key |-> InternalId(c, i), client |-> c, id |-> i, call |-> call]
        others == {q \in pending : q.key # entry.key}
    IN  \/ /\ stdin
           /\ pending' = others \cup {entry}
           /\ held' = held \cup {entry}
           /\ UNCHANGED <<replies, clients>>
        \/ /\ ~stdin
           /\ Reply(<<c, i>>, NoReq, FALSE, others)
           /\ UNCHANGED held

-----------------------------------------------------------------------------
(* Connections *)

Connect(c) ==
    /\ up
    /\ link[c] = "new"
    /\ link' = [link EXCEPT ![c] = "open"]
    /\ clients' = clients \cup {c}
    /\ UNCHANGED <<up, info, cachedInit, pending, starts, serverRequests,
                   activeTurns, replayBuffer, broken, stdin, childInit, held,
                   aged, histVars>>

\* From now on socket.write throws; the mux notices at its next write.
WriteFails(c) ==
    /\ up
    /\ c \in MayBreak \ broken
    /\ link[c] = "open"
    /\ broken' = broken \cup {c}
    /\ UNCHANGED <<muxVars, link, stdin, childInit, held, aged, histVars>>

\* The socket closes (or stdin ends): removeClient, which does nothing for a
\* client that a failed write has removed.  The desktop takes the mux with it
\* unless KEEP_ALIVE.
Disconnect(c) ==
    /\ up
    /\ link[c] = "open"
    /\ link' = [link EXCEPT ![c] = "closed"]
    /\ clients' = clients \ {c}
    /\ pending' = IF c \in clients THEN Forget(pending, {c}) ELSE pending
    /\ up' = (c # Stdio \/ KeepAlive)
    /\ UNCHANGED <<info, cachedInit, starts, serverRequests, activeTurns,
                   replayBuffer, broken, stdin, childInit, held, aged, histVars>>

-----------------------------------------------------------------------------
(* handleClientLine *)

\* A line of client c is read.  A client that a failed write has removed is
\* still read from until its socket closes.
Line(c) == up /\ link[c] = "open"

\* Clients number their requests.
Fresh(c, i) == <<c, i>> \notin asked /\ \A j \in Ids : j < i => <<c, j>> \in asked

\* initialize: answered from initializeResult when there is one.
Initialize(c, i) ==
    LET inf == IF c \in Mobile THEN "mobile" ELSE "desktop" IN
    /\ Line(c)
    /\ info[c] = "none"
    /\ Fresh(c, i)
    /\ asked' = asked \cup {<<c, i>>}
    /\ info' = [info EXCEPT ![c] = inf]
    /\ \/ /\ cachedInit
          /\ InitializeReply(c, i, inf, NoReq, pending)
          /\ UNCHANGED held
       \/ /\ ~cachedInit
          /\ Forward(c, i, [method |-> "initialize", thread |-> NoThread])
          /\ UNCHANGED <<replayBuffer, shown, replayed, ready, initAt>>
    /\ UNCHANGED <<up, cachedInit, starts, serverRequests, activeTurns, link,
                   broken, stdin, childInit, aged, notes, live, raised,
                   resolved, answersOf>>

\* rememberPendingMobileTurnStart.
Remember(c, i, call) ==
    IF info[c] = "mobile" /\ call.method = "turn/start"
    THEN starts \cup {[key |-> InternalId(c, i), thread |-> call.thread,
                       at |-> Cardinality(asked)]}
    ELSE starts

\* Any other request of an initialized client.
Request(c, i, call) ==
    /\ Line(c)
    /\ info[c] # "none"
    /\ call.method # "initialize"
    /\ Fresh(c, i)
    /\ asked' = asked \cup {<<c, i>>}
    /\ starts' = Remember(c, i, call)
    /\ Forward(c, i, call)
    /\ UNCHANGED <<up, info, cachedInit, serverRequests, activeTurns,
                   replayBuffer, link, broken, stdin, childInit, aged, notes,
                   live, replayed, initAt, ready, shown, raised, resolved,
                   answersOf>>

\* A client answers a question it was shown.  An answer to a question that is
\* not in serverRequests any more is dropped; if the child cannot be written
\* to, the question stays.  Either changes nothing.
AnswerQuestion(c, s) ==
    /\ Line(c)
    /\ s \in shown[c]
    /\ s \in serverRequests
    /\ stdin
    /\ answersOf' = [answersOf EXCEPT ![s] = @ + 1]
    /\ serverRequests' = Without(s)
    /\ UNCHANGED <<up, clients, info, cachedInit, pending, starts, activeTurns,
                   replayBuffer, envVars, asked, replies, notes, live, replayed,
                   initAt, ready, shown, raised, resolved>>

\* mux/userMessage: the server has steered turn t of thread th, or leaves the
\* turn to activeTurnsByThread.  Only TCP clients may.
UserMessage(c, th, t) ==
    LET turn == IF t = NoTurn THEN activeTurns[th] ELSE t IN
    /\ Line(c)
    /\ info[c] = "mobile"
    /\ c \in TcpClients
    /\ turn # NoTurn
    /\ Publish(<<[kind |-> "echo", thread |-> th, turn |-> turn, from |-> NoReq]>>)
    /\ UNCHANGED <<up, info, cachedInit, starts, serverRequests, activeTurns,
                   envVars, asked, replies, replayed, initAt, ready, shown,
                   raised, resolved, answersOf>>

-----------------------------------------------------------------------------
(* handleChildLine *)

\* The entry of `pending` the child's answer to p is for, if there is one.
EntryFor(p) == {q \in pending : q.key = p.key}

\* An app-server that has been initialized refuses to be initialized again.
Outcomes(p) == IF p.call.method = "initialize" /\ childInit
               THEN {"already"} ELSE {"ok", "error"}

\* The child has written its answer to p.
ChildAnswers(p, outcome) ==
    /\ up
    /\ p \in held
    /\ outcome \in Outcomes(p)
    /\ held' = held \ {p}
    /\ childInit' = (childInit \/ (p.call.method = "initialize" /\ outcome = "ok"))

\* Mutant: a refused turn/start is still waiting for its turn.
MutAfterAnswer(p, outcome) == starts

\* pendingMobileTurnStarts after an answer the mux has an entry for.
AfterAnswer(p, outcome) ==
    IF outcome = "ok" THEN starts ELSE {e \in starts : e.key # p.key}

\* The asker is gone: `pending` has no entry and the answer is dropped.
AnswerUnknown(p, outcome) ==
    /\ ChildAnswers(p, outcome)
    /\ EntryFor(p) = {}
    /\ UNCHANGED <<muxVars, link, broken, stdin, aged, histVars>>

\* An answer goes back to its asker under the asker's own id.
AnswerRequest(p, outcome) ==
    /\ ChildAnswers(p, outcome)
    /\ p.call.method # "initialize" \/ outcome = "error"
    /\ \E q \in EntryFor(p) :
          Reply(<<q.client, q.id>>, <<p.client, p.id>>, outcome = "ok",
                pending \ {q})
    /\ starts' = AfterAnswer(p, outcome)
    /\ UNCHANGED <<up, info, cachedInit, serverRequests, activeTurns,
                   replayBuffer, link, broken, stdin, aged, asked, notes, live,
                   replayed, initAt, ready, shown, raised, resolved, answersOf>>

\* The answer to an initialize; "already initialized" counts as success.  The
\* result is kept for later clients, and this one gets what it has missed.
AnswerInitialize(p, outcome) ==
    /\ ChildAnswers(p, outcome)
    /\ p.call.method = "initialize" /\ outcome # "error"
    /\ \E q \in EntryFor(p) :
          InitializeReply(q.client, q.id, info[q.client], <<p.client, p.id>>,
                          pending \ {q})
    /\ cachedInit' = TRUE
    /\ UNCHANGED <<up, info, starts, serverRequests, activeTurns, link, broken,
                   stdin, aged, asked, notes, live, raised, resolved, answersOf>>

\* The child asks its clients something; all of them are told.
AskQuestion(s) ==
    LET gone == clients \cap broken IN
    /\ up
    /\ s \notin raised
    /\ raised' = raised \cup {s}
    /\ serverRequests' = serverRequests \cup {s}
    /\ shown' = [c \in Clients |-> IF c \in Receivers
                                   THEN shown[c] \cup {s} ELSE shown[c]]
    /\ clients' = clients \ gone
    /\ pending' = Forget(pending, gone)
    /\ UNCHANGED <<up, info, cachedInit, starts, activeTurns, replayBuffer,
                   envVars, asked, replies, notes, live, replayed, initAt,
                   ready, resolved, answersOf>>

\* serverRequest/resolved: the child has settled a question, answered or not.
Resolved(s) ==
    /\ up
    /\ s \in raised \ resolved
    /\ resolved' = resolved \cup {s}
    /\ serverRequests' = Without(s)
    /\ Publish(<<[kind |-> "resolved", thread |-> NoThread, turn |-> NoTurn,
                  from |-> NoReq]>>)
    /\ UNCHANGED <<up, info, cachedInit, starts, activeTurns, envVars, asked,
                   replies, replayed, initAt, ready, shown, raised, answersOf>>

\* Any other notification of the child: "item" or "delta".
Notification(kind, th) ==
    /\ up
    /\ kind \in {"item", "delta"}
    /\ Publish(<<[kind |-> kind, thread |-> th, turn |-> NoTurn, from |-> NoReq]>>)
    /\ UNCHANGED <<up, info, cachedInit, starts, serverRequests, activeTurns,
                   envVars, asked, replies, replayed, initAt, ready, shown,
                   raised, resolved, answersOf>>

NoteIs(n, kind, th, t) ==
    notes[n].kind = kind /\ notes[n].thread = th /\ notes[n].turn = t

TurnIsNew(t) == \A n \in DOMAIN notes : notes[n].kind = "started" => notes[n].turn # t

\* The pendingMobileTurnStarts entry of thread th that was put in first.
OldestStart(th) ==
    {e \in starts : /\ e.thread = th
                    /\ \A f \in starts : f.thread = th => e.at <= f.at}

\* turn/started: the turn becomes its thread's active one; the oldest turn/start
\* a mobile client has under way on the thread is taken to be its cause, and
\* its input is shown as a synthetic user message of the turn.
TurnStarted(th, t) ==
    LET started == [kind |-> "started", thread |-> th, turn |-> t, from |-> NoReq]
    IN  /\ up
        /\ TurnIsNew(t)
        /\ activeTurns' = [activeTurns EXCEPT ![th] = t]
        /\ \/ /\ OldestStart(th) = {}
              /\ Publish(<<started>>)
              /\ UNCHANGED starts
           \/ \E e \in OldestStart(th) :
                 /\ Publish(<<started, [kind |-> "echo", thread |-> th, turn |-> t,
                                        from |-> e.key]>>)
                 /\ starts' = starts \ {e}
        /\ UNCHANGED <<up, info, cachedInit, serverRequests, envVars, asked,
                       replies, replayed, initAt, ready, shown, raised,
                       resolved, answersOf>>

\* Mutant: any turn/completed clears the thread.
MutAfterCompleted(th, t) == [activeTurns EXCEPT ![th] = NoTurn]

\* activeTurnsByThread after turn/completed, with or without a turn id.
AfterCompleted(th, t) ==
    IF t = NoTurn \/ activeTurns[th] = t
    THEN [activeTurns EXCEPT ![th] = NoTurn] ELSE activeTurns

\* turn/completed of a turn that was started, the thread's latest or not.
TurnCompleted(th, t) ==
    /\ up
    /\ t # NoTurn =>
          /\ \E n \in DOMAIN notes : NoteIs(n, "started", th, t)
          /\ \A n \in DOMAIN notes : ~NoteIs(n, "completed", th, t)
    /\ activeTurns' = AfterCompleted(th, t)
    /\ Publish(<<[kind |-> "completed", thread |-> th, turn |-> t, from |-> NoReq]>>)
    /\ UNCHANGED <<up, info, cachedInit, starts, serverRequests, envVars, asked,
                   replies, replayed, initAt, ready, shown, raised, resolved,
                   answersOf>>

-----------------------------------------------------------------------------
(* Timers, the child process, shutdown *)

\* The 120 s timer of the oldest pendingMobileTurnStarts entry fires.
StartExpires ==
    /\ up
    /\ \E e \in starts :
          /\ \A f \in starts : e.at <= f.at
          /\ starts' = starts \ {e}
    /\ UNCHANGED <<up, clients, info, cachedInit, pending, serverRequests,
                   activeTurns, replayBuffer, envVars, histVars>>

\* Time passes: one more notification is past the buffer's age.
NoteAges ==
    /\ up
    /\ aged < Len(notes)
    /\ aged' = aged + 1
    /\ UNCHANGED <<muxVars, link, broken, stdin, childInit, held, histVars>>

\* The child dies.  Until its exit is handled, what it wrote is still read,
\* and what is written to it throws.
ChildDies ==
    /\ up
    /\ stdin
    /\ stdin' = FALSE
    /\ UNCHANGED <<muxVars, link, broken, childInit, held, aged, histVars>>

\* The child's exit event, or a signal: every client is closed, the process ends.
ChildExits ==
    /\ up
    /\ ~stdin
    /\ up' = FALSE
    /\ UNCHANGED <<clients, info, cachedInit, pending, starts, serverRequests,
                   activeTurns, replayBuffer, envVars, histVars>>

-----------------------------------------------------------------------------
Init ==
    /\ up = TRUE
    /\ clients = Clients \cap {Stdio}
    /\ info = [c \in Clients |-> "none"]
    /\ cachedInit = FALSE
    /\ pending = {}
    /\ starts = {}
    /\ serverRequests = {}
    /\ activeTurns = [th \in Threads |-> NoTurn]
    /\ replayBuffer = {}
    /\ link = [c \in Clients |-> IF c = Stdio THEN "open" ELSE "new"]
    /\ broken = {}
    /\ stdin = TRUE
    /\ childInit = FALSE
    /\ held = {}
    /\ aged = 0
    /\ asked = {}
    /\ replies = [r \in Reqs |-> <<>>]
    /\ notes = <<>>
    /\ live = [c \in Clients |-> {}]
    /\ replayed = [c \in Clients |-> {}]
    /\ initAt = [c \in Clients |-> 0]
    /\ ready = {}
    /\ shown = [c \in Clients |-> {}]
    /\ raised = {}
    /\ resolved = {}
    /\ answersOf = [s \in Questions |-> 0]

ClientStep(c) ==
    \/ Connect(c)
    \/ WriteFails(c)
    \/ Disconnect(c)
    \/ \E i \in Ids : Initialize(c, i)
    \/ \E i \in Ids, call \in Calls : Request(c, i, call)
    \/ \E s \in Questions : AnswerQuestion(c, s)
    \/ \E th \in Threads, t \in Turns \cup {NoTurn} : UserMessage(c, th, t)

ChildAnswer(p) ==
    \E outcome \in {"ok", "error", "already"} :
        \/ AnswerUnknown(p, outcome)
        \/ AnswerRequest(p, outcome)
        \/ AnswerInitialize(p, outcome)

ChildStep ==
    \/ \E p \in held : ChildAnswer(p)
    \/ \E s \in Questions : AskQuestion(s) \/ Resolved(s)
    \/ \E th \in Threads :
          \/ \E kind \in {"item", "delta"} : Notification(kind, th)
          \/ \E t \in Turns : TurnStarted(th, t)
          \/ \E t \in Turns \cup {NoTurn} : TurnCompleted(th, t)
    \/ ChildDies
    \/ ChildExits

Next ==
    \/ \E c \in Clients : ClientStep(c)
    \/ ChildStep
    \/ StartExpires
    \/ NoteAges

Spec == Init /\ [][Next]_vars

\* While it lives the child answers every request it holds, and its exit event
\* is delivered.  Clients, timers and the network owe the mux nothing.
AnswerTo(r) == stdin /\ \E p \in held : p.key = r /\ ChildAnswer(p)

Fairness ==
    /\ \A r \in Reqs : WF_vars(AnswerTo(r))
    /\ WF_vars(ChildExits)

FairSpec == Spec /\ Fairness

-----------------------------------------------------------------------------
(* Properties *)

\* Every variable has its type.
TypeOK ==
    /\ up \in BOOLEAN
    /\ clients \subseteq Clients
    /\ info \in [Clients -> {"none", "mobile", "desktop"}]
    /\ cachedInit \in BOOLEAN
    /\ pending \subseteq Entries
    /\ starts \subseteq Starts
    /\ serverRequests \subseteq Questions
    /\ activeTurns \in [Threads -> Turns \cup {NoTurn}]
    /\ replayBuffer \subseteq DOMAIN notes
    /\ link \in [Clients -> {"new", "open", "closed"}]
    /\ broken \subseteq Clients
    /\ stdin \in BOOLEAN
    /\ childInit \in BOOLEAN
    /\ held \subseteq Entries
    /\ aged \in Nat
    /\ asked \subseteq Reqs
    /\ replies \in [Reqs -> Seq(Replies)]
    /\ notes \in Seq(Notes)
    /\ live \in [Clients -> SUBSET DOMAIN notes]
    /\ replayed \in [Clients -> SUBSET DOMAIN notes]
    /\ initAt \in [Clients -> Nat]
    /\ ready \subseteq Clients
    /\ shown \in [Clients -> SUBSET Questions]
    /\ raised \subseteq Questions
    /\ resolved \subseteq Questions
    /\ answersOf \in [Questions -> Nat]

\* A client's request gets at most one answer, and that answer is the child's
\* answer to this very request or the mux's own: two clients that choose the
\* same id never see each other's results.  (handleClientLine's internal ids
\* and handleChildLine's way back.)
ResponsesReachAsker ==
    \A r \in Reqs :
        /\ Len(replies[r]) <= 1
        /\ \A k \in DOMAIN replies[r] : replies[r][k].origin \in {r, NoReq}

\* While a client is connected, each request of its own that has no answer yet
\* is in `pending` under the asker's name and id, and the child still holds it:
\* no disconnect, failed write or error path of another client loses it.
NoRequestForgotten ==
    \A c \in clients, i \in Ids :
        (<<c, i>> \in asked /\ replies[<<c, i>>] = <<>>) =>
            \E q \in pending :
                /\ q.client = c /\ q.id = i
                /\ \E p \in held : p.key = q.key /\ p.client = c /\ p.id = i

\* Why the two hold: the child holds a request only under its asker's name, at
\* most once and before it is answered; `pending` is part of what it holds; and
\* of what clients asked, only what is neither answered nor lost has an entry.
RpcInv ==
    /\ \A p \in held : /\ p.key = <<p.client, p.id>>
                       /\ p.key \in asked
                       /\ replies[p.key] = <<>>
    /\ \A p, q \in held : p.key = q.key => p = q
    /\ pending \subseteq held
    /\ \A r \in Reqs \ asked : replies[r] = <<>>
    /\ \A r \in asked : link[r[1]] # "new"
    /\ ResponsesReachAsker
    /\ \A r \in asked : (r[1] \in clients /\ replies[r] = <<>>) =>
          \E q \in pending : q.key = r

\* A connected client that has its initialize result has been shown every
\* question of the child that is still open, however late it came: a question
\* is broadcast when it arrives and replayed by replayMissedNotifications.
OpenQuestionsShown ==
    \A c \in clients \cap ready : serverRequests \subseteq shown[c]

\* What a client that asked for replay holds has no hole: it got live all that
\* was broadcast after its initialize result, and of what was cached before, all
\* but what was too old or more than the buffer's or its own limit back.
NothingMissed ==
    \A c \in clients \cap ready :
        (info[c] = "mobile" \/ ReplayDesktop) =>
            \A n \in DOMAIN notes :
                Visible(info[c], notes[n]) =>
                    IF n > initAt[c] THEN n \in live[c]
                    ELSE \/ ~Replayable(notes[n])
                         \/ n \in replayed[c]
                         \/ n <= aged
                         \/ LET newer == {m \in (n + 1)..initAt[c] : Replayable(notes[m])}
                            IN  \/ Cardinality(newer) >= BufferLimit
                                \/ Cardinality(newer) >= ClientLimit[c]

\* No client that is not Mobile Web is ever sent a synthetic user message, live
\* or from the replay buffer (messageForClient).
EchoesOffDesktop ==
    \A c \in Clients : info[c] # "mobile" =>
        \A n \in live[c] \cup replayed[c] : notes[n].kind # "echo"

\* activeTurnsByThread is what the stream of turn notifications says: the turn
\* last started on the thread, until that turn, or a turn without an id,
\* completes.  A late completion of an earlier turn does not clear it.
ActiveTurnFollowsStream ==
    \A th \in Threads, t \in Turns :
        (activeTurns[th] = t) <=>
            \E n \in DOMAIN notes :
                /\ NoteIs(n, "started", th, t)
                /\ \A m \in DOMAIN notes : m > n =>
                      /\ ~(notes[m].kind = "started" /\ notes[m].thread = th)
                      /\ ~NoteIs(m, "completed", th, t)
                      /\ ~NoteIs(m, "completed", th, NoTurn)

\* A mobile turn/start is echoed at most once, and none that waits for its turn
\* has been refused by the child with an answer its client saw: a refused
\* input never shows up in somebody else's turn while the sender is there.
EchoOncePerStart ==
    /\ \A n, m \in DOMAIN notes :
          (/\ notes[n].kind = "echo" /\ notes[m].kind = "echo"
           /\ notes[n].from = notes[m].from /\ notes[n].from # NoReq) => n = m
    /\ \A e \in starts :
          /\ \A n \in DOMAIN notes : notes[n].from # e.key
          /\ \A k \in DOMAIN replies[e.key] :
                replies[e.key][k].origin = e.key => replies[e.key][k].ok

\* Every request is answered, or its client is gone, or the mux is: neither the
\* removal of another client nor the death of the child leaves it open.
RequestAnswered ==
    \A r \in Reqs :
        (r \in asked) ~> (replies[r] # <<>> \/ r[1] \notin clients \/ ~up)

\* The mux implements SharedAppServer.  Requests of a client that is no longer
\* connected are lost; an answer delivered twice has no counterpart there.
AbstractReq ==
    [r \in Reqs |->
        IF r \notin asked THEN "new"
        ELSE IF replies[r] = <<>> THEN IF r[1] \in clients THEN "open" ELSE "lost"
        ELSE IF Len(replies[r]) = 1 THEN "answered" ELSE "answered twice"]

Abstract == INSTANCE SharedAppServer
            WITH req <- AbstractReq, withdrawn <- resolved, answers <- answersOf

ImplementsSharedAppServer == Abstract!AbsSpec
=============================================================================
