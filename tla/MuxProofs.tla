------------------------------ MODULE MuxProofs ------------------------------
(***************************************************************************)
(* Proofs about Mux, for any clients, ids, threads, turns and limits:      *)
(* requests and questions, and that they are what SharedAppServer allows.  *)
(* Notifications are in MuxNotesProofs.                                    *)
(***************************************************************************)
EXTENDS Mux, FiniteSetTheorems, SequenceTheorems, TLAPS

\* Only finitely many requests have been sent, so receivedAt is a number.
TypeInv == TypeOK /\ IsFiniteSet(asked)

\* What a broadcast leaves: the notes grow, everything else keeps its type.
PublishFacts ==
    /\ notes' \in Seq(Notes)
    /\ DOMAIN notes \subseteq DOMAIN notes'
    /\ replayBuffer' \subseteq DOMAIN notes'
    /\ live' \in [Clients -> SUBSET DOMAIN notes']
    /\ clients' \subseteq Clients
    /\ pending' \subseteq Entries

\* A broadcast leaves the note stream, the buffer, what clients hold, and the
\* two maps that a failed write shrinks, of their types.
LEMMA PublishType ==
    ASSUME TypeOK, NEW ms \in Seq(Notes), Publish(ms)
    PROVE  PublishFacts
<1>. DEFINE all == notes \o ms
            fresh == (Len(notes) + 1)..Len(all)
<1>1. notes \in Seq(Notes)
  BY DEF TypeOK
<1>2. /\ all \in Seq(Notes)
      /\ DOMAIN all = 1..Len(all) /\ DOMAIN notes = 1..Len(notes)
      /\ Len(notes) \in Nat /\ Len(ms) \in Nat
      /\ Len(all) = Len(notes) + Len(ms)
  BY <1>1
<1>3. notes' = all
  BY DEF Publish
<1>4. DOMAIN notes \subseteq DOMAIN notes' /\ fresh \subseteq DOMAIN notes'
  BY <1>2, <1>3
<1>5. replayBuffer' \subseteq DOMAIN notes'
  <2>1. replayBuffer' \subseteq replayBuffer \cup fresh
    BY DEF Publish, Prune, Newest
  <2>. QED
    BY <2>1, <1>4 DEF TypeOK
<1>6. live' \in [Clients -> SUBSET DOMAIN notes']
  <2>. DEFINE sent(c) == {n \in fresh : Visible(info[c], all[n])}
  <2>1. live' = [c \in Clients |-> IF c \in Receivers
                                   THEN live[c] \cup sent(c) ELSE live[c]]
    BY DEF Publish
  <2>2. \A c \in Clients : live[c] \subseteq DOMAIN notes' /\ sent(c) \subseteq DOMAIN notes'
    BY <1>4 DEF TypeOK
  <2>. QED
    BY <2>1, <2>2
<1>7. clients' \subseteq Clients /\ pending' \subseteq Entries
  BY DEF Publish, TypeOK, Forget
<1>. QED
  BY <1>2, <1>3, <1>4, <1>5, <1>6, <1>7 DEF PublishFacts

\* An answer to a request of a client is appended to what the client got.
LEMMA ReplyType ==
    ASSUME TypeOK, NEW r \in Reqs, NEW origin \in Reqs \cup {NoReq},
           NEW ok \in BOOLEAN, NEW p \in SUBSET Entries, Reply(r, origin, ok, p)
    PROVE  /\ replies' \in [Reqs -> Seq(Replies)]
           /\ clients' \subseteq Clients
           /\ pending' \subseteq Entries
<1>1. [origin |-> origin, ok |-> ok] \in Replies
  BY DEF Replies
<1>2. Append(replies[r], [origin |-> origin, ok |-> ok]) \in Seq(Replies)
  BY <1>1 DEF TypeOK
<1>3. replies' \in [Reqs -> Seq(Replies)]
  BY <1>2 DEF Reply, TypeOK
<1>. QED
  BY <1>3 DEF Reply, TypeOK, Forget

\* The initialize result and the replay behind it.
LEMMA InitializeReplyType ==
    ASSUME TypeOK, NEW c \in Clients, NEW i \in Ids, NEW inf,
           NEW origin \in Reqs \cup {NoReq}, NEW p \in SUBSET Entries,
           InitializeReply(c, i, inf, origin, p)
    PROVE  /\ replies' \in [Reqs -> Seq(Replies)]
           /\ clients' \subseteq Clients
           /\ pending' \subseteq Entries
           /\ replayBuffer' \subseteq DOMAIN notes
           /\ replayed' \in [Clients -> SUBSET DOMAIN notes]
           /\ initAt' \in [Clients -> Nat]
           /\ ready' \subseteq Clients
           /\ shown' \in [Clients -> SUBSET Questions]
<1>. DEFINE buffer == Prune(replayBuffer)
<1>1. Reply(<<c, i>>, origin, TRUE, p) /\ replayBuffer' = buffer
  BY DEF InitializeReply
<1>2. <<c, i>> \in Reqs
  BY DEF Reqs
<1>3. /\ replies' \in [Reqs -> Seq(Replies)]
      /\ clients' \subseteq Clients
      /\ pending' \subseteq Entries
  BY <1>1, <1>2, ReplyType
<1>4. buffer \subseteq DOMAIN notes
  BY DEF Prune, Newest, TypeOK
<1>5. ReplayTo(c, inf, buffer) \subseteq DOMAIN notes
  BY <1>4 DEF ReplayTo, Newest
<1>6. Len(notes) \in Nat
  BY DEF TypeOK
<1>7. CASE Written(c)
  <2>1. /\ shown' = [shown EXCEPT ![c] = shown[c] \cup serverRequests]
        /\ replayed' = [replayed EXCEPT ![c] = replayed[c] \cup ReplayTo(c, inf, buffer)]
        /\ ready' = ready \cup {c}
        /\ initAt' = [initAt EXCEPT ![c] = Len(notes)]
    BY <1>7 DEF InitializeReply
  <2>2. shown' \in [Clients -> SUBSET Questions]
    BY <2>1 DEF TypeOK
  <2>3. replayed' \in [Clients -> SUBSET DOMAIN notes]
    BY <2>1, <1>5 DEF TypeOK
  <2>4. initAt' \in [Clients -> Nat] /\ ready' \subseteq Clients
    BY <2>1, <1>6 DEF TypeOK
  <2>. QED
    BY <1>1, <1>3, <1>4, <2>2, <2>3, <2>4
<1>8. CASE ~Written(c)
  BY <1>1, <1>3, <1>4, <1>8 DEF InitializeReply, TypeOK
<1>. QED
  BY <1>7, <1>8

\* A request is forwarded to the child, or refused because it cannot be.
LEMMA ForwardType ==
    ASSUME TypeOK, NEW c \in Clients, NEW i \in Ids, NEW call \in Calls,
           Forward(c, i, call)
    PROVE  /\ replies' \in [Reqs -> Seq(Replies)]
           /\ clients' \subseteq Clients
           /\ pending' \subseteq Entries
           /\ held' \subseteq Entries
<1>. DEFINE entry == [key |-> InternalId(c, i), client |-> c, id |-> i, call |-> call]
            others == {q \in pending : q.key # entry.key}
<1>1. <<c, i>> \in Reqs /\ entry \in Entries
  BY DEF Reqs, Entries, InternalId
<1>2. others \in SUBSET Entries
  BY DEF TypeOK
<1>3. CASE stdin /\ pending' = others \cup {entry} /\ held' = held \cup {entry}
           /\ UNCHANGED <<replies, clients>>
  BY <1>1, <1>2, <1>3 DEF TypeOK
<1>4. CASE Reply(<<c, i>>, NoReq, FALSE, others) /\ UNCHANGED held
  BY <1>1, <1>2, <1>4, ReplyType DEF TypeOK
<1>. QED
  BY <1>3, <1>4 DEF Forward

\* The initial state has its types.
LEMMA InitType == Init => TypeInv
<1>. SUFFICES ASSUME Init PROVE TypeInv
  OBVIOUS
<1>1. replies \in [Reqs -> Seq(Replies)] /\ notes \in Seq(Notes)
  BY DEF Init
<1>2. IsFiniteSet(asked)
  BY FS_EmptySet DEF Init
<1>. QED
  BY <1>1, <1>2 DEF Init, TypeInv, TypeOK

\* Every step of the clients, the child and the timers keeps the types.
LEMMA StepType == TypeInv /\ [Next]_vars => TypeInv'
<1>. SUFFICES ASSUME TypeInv, [Next]_vars PROVE TypeInv'
  OBVIOUS
<1>. USE DEF TypeInv
<1>0. CASE UNCHANGED vars
  BY <1>0 DEF TypeOK, vars, muxVars, envVars, histVars
<1>1. ASSUME NEW c \in Clients, Connect(c) PROVE TypeInv'
  BY <1>1 DEF Connect, TypeOK, histVars
<1>2. ASSUME NEW c \in Clients, WriteFails(c) PROVE TypeInv'
  BY <1>2, MuxAssumption DEF WriteFails, TypeOK, muxVars, histVars
<1>3. ASSUME NEW c \in Clients, Disconnect(c) PROVE TypeInv'
  BY <1>3, MuxAssumption DEF Disconnect, TypeOK, Forget, histVars
<1>4. ASSUME NEW c \in Clients, NEW i \in Ids, Initialize(c, i) PROVE TypeInv'
  <2>. DEFINE inf == IF c \in Mobile THEN "mobile" ELSE "desktop"
  <2>1. /\ asked' = asked \cup {<<c, i>>} /\ <<c, i>> \in Reqs
        /\ info' = [info EXCEPT ![c] = inf]
    BY <1>4 DEF Initialize, Reqs
  <2>2. IsFiniteSet(asked')
    BY <2>1, FS_AddElement
  <2>3. info' \in [Clients -> {"none", "mobile", "desktop"}] /\ asked' \subseteq Reqs
    BY <2>1 DEF TypeOK
  <2>4. CASE InitializeReply(c, i, inf, NoReq, pending) /\ UNCHANGED held
    <3>1. pending \in SUBSET Entries
      BY DEF TypeOK
    <3>2. /\ replies' \in [Reqs -> Seq(Replies)]
          /\ clients' \subseteq Clients
          /\ pending' \subseteq Entries
          /\ replayBuffer' \subseteq DOMAIN notes
          /\ replayed' \in [Clients -> SUBSET DOMAIN notes]
          /\ initAt' \in [Clients -> Nat]
          /\ ready' \subseteq Clients
          /\ shown' \in [Clients -> SUBSET Questions]
      BY <2>4, <3>1, InitializeReplyType
    <3>. QED
      BY <1>4, <2>2, <2>3, <2>4, <3>2 DEF Initialize, TypeOK
  <2>5. CASE /\ Forward(c, i, [method |-> "initialize", thread |-> NoThread])
             /\ UNCHANGED <<replayBuffer, shown, replayed, ready, initAt>>
    <3>1. [method |-> "initialize", thread |-> NoThread] \in Calls
      BY DEF Calls
    <3>2. /\ replies' \in [Reqs -> Seq(Replies)]
          /\ clients' \subseteq Clients
          /\ pending' \subseteq Entries
          /\ held' \subseteq Entries
      BY <2>5, <3>1, ForwardType
    <3>. QED
      BY <1>4, <2>2, <2>3, <2>5, <3>2 DEF Initialize, TypeOK
  <2>. QED
    BY <1>4, <2>4, <2>5 DEF Initialize
<1>5. ASSUME NEW c \in Clients, NEW i \in Ids, NEW call \in Calls, Request(c, i, call)
      PROVE  TypeInv'
  <2>1. asked' = asked \cup {<<c, i>>} /\ <<c, i>> \in Reqs
    BY <1>5 DEF Request, Reqs
  <2>2. IsFiniteSet(asked') /\ asked' \subseteq Reqs
    BY <2>1, FS_AddElement DEF TypeOK
  <2>3. starts' \subseteq Starts
    <3>1. Cardinality(asked) \in Nat
      BY FS_CardinalityType
    <3>2. CASE call.method = "turn/start"
      <4>1. call.thread \in Threads
        BY <3>2 DEF Calls
      <4>2. [key |-> InternalId(c, i), thread |-> call.thread,
             at |-> Cardinality(asked)] \in Starts
        BY <2>1, <3>1, <4>1 DEF Starts, InternalId
      <4>. QED
        BY <1>5, <4>2 DEF Request, Remember, TypeOK
    <3>3. CASE call.method # "turn/start"
      BY <1>5, <3>3 DEF Request, Remember, TypeOK
    <3>. QED
      BY <3>2, <3>3
  <2>4. /\ replies' \in [Reqs -> Seq(Replies)]
        /\ clients' \subseteq Clients
        /\ pending' \subseteq Entries
        /\ held' \subseteq Entries
    BY <1>5, ForwardType DEF Request
  <2>. QED
    BY <1>5, <2>2, <2>3, <2>4 DEF Request, TypeOK
<1>6. ASSUME NEW c \in Clients, NEW s \in Questions, AnswerQuestion(c, s) PROVE TypeInv'
  <2>1. answersOf' \in [Questions -> Nat]
    BY <1>6 DEF AnswerQuestion, TypeOK
  <2>. QED
    BY <1>6, <2>1 DEF AnswerQuestion, Without, TypeOK, envVars
<1>7. ASSUME NEW c \in Clients, NEW th \in Threads, NEW t \in Turns \cup {NoTurn},
             UserMessage(c, th, t)
      PROVE  TypeInv'
  <2>. DEFINE turn == IF t = NoTurn THEN activeTurns[th] ELSE t
              note == [kind |-> "echo", thread |-> th, turn |-> turn, from |-> NoReq]
  <2>1. turn \in Turns \cup {NoTurn}
    BY DEF TypeOK
  <2>2. note \in Notes
    BY <2>1 DEF Notes, Kinds
  <2>3. <<note>> \in Seq(Notes) /\ Publish(<<note>>)
    BY <1>7, <2>2 DEF UserMessage
  <2>4. PublishFacts
    BY <2>3, PublishType
  <2>. QED
    BY <1>7, <2>4 DEF UserMessage, PublishFacts, TypeOK, envVars
<1>8. ASSUME NEW p \in held, NEW o \in {"ok", "error", "already"}, AnswerUnknown(p, o)
      PROVE  TypeInv'
  BY <1>8 DEF AnswerUnknown, ChildAnswers, TypeOK, muxVars, histVars
<1>9. ASSUME NEW p \in held, NEW o \in {"ok", "error", "already"}, AnswerRequest(p, o)
      PROVE  TypeInv'
  <2>1. PICK q \in EntryFor(p) :
           Reply(<<q.client, q.id>>, <<p.client, p.id>>, o = "ok", pending \ {q})
    BY <1>9 DEF AnswerRequest
  <2>2. /\ <<q.client, q.id>> \in Reqs /\ <<p.client, p.id>> \in Reqs
        /\ pending \ {q} \in SUBSET Entries
    BY DEF EntryFor, TypeOK, Entries, Reqs
  <2>3. /\ replies' \in [Reqs -> Seq(Replies)]
        /\ clients' \subseteq Clients
        /\ pending' \subseteq Entries
    BY <2>1, <2>2, ReplyType
  <2>4. starts' \subseteq Starts
    BY <1>9 DEF AnswerRequest, AfterAnswer, TypeOK
  <2>. QED
    BY <1>9, <2>3, <2>4 DEF AnswerRequest, ChildAnswers, TypeOK
<1>10. ASSUME NEW p \in held, NEW o \in {"ok", "error", "already"}, AnswerInitialize(p, o)
       PROVE  TypeInv'
  <2>1. PICK q \in EntryFor(p) :
           InitializeReply(q.client, q.id, info[q.client], <<p.client, p.id>>,
                           pending \ {q})
    BY <1>10 DEF AnswerInitialize
  <2>2. /\ q.client \in Clients /\ q.id \in Ids /\ <<p.client, p.id>> \in Reqs
        /\ pending \ {q} \in SUBSET Entries
    BY DEF EntryFor, TypeOK, Entries, Reqs
  <2>3. /\ replies' \in [Reqs -> Seq(Replies)]
        /\ clients' \subseteq Clients
        /\ pending' \subseteq Entries
        /\ replayBuffer' \subseteq DOMAIN notes
        /\ replayed' \in [Clients -> SUBSET DOMAIN notes]
        /\ initAt' \in [Clients -> Nat]
        /\ ready' \subseteq Clients
        /\ shown' \in [Clients -> SUBSET Questions]
    BY <2>1, <2>2, InitializeReplyType
  <2>. QED
    BY <1>10, <2>3 DEF AnswerInitialize, ChildAnswers, TypeOK
<1>11. ASSUME NEW s \in Questions, AskQuestion(s) PROVE TypeInv'
  <2>1. shown' \in [Clients -> SUBSET Questions]
    BY <1>11 DEF AskQuestion, TypeOK
  <2>. QED
    BY <1>11, <2>1 DEF AskQuestion, Forget, TypeOK, envVars
<1>12. ASSUME NEW s \in Questions, Resolved(s) PROVE TypeInv'
  <2>. DEFINE note == [kind |-> "resolved", thread |-> NoThread, turn |-> NoTurn,
                       from |-> NoReq]
  <2>1. <<note>> \in Seq(Notes) /\ Publish(<<note>>)
    BY <1>12 DEF Resolved, Notes, Kinds
  <2>2. PublishFacts
    BY <2>1, PublishType
  <2>. QED
    BY <1>12, <2>2 DEF Resolved, Without, PublishFacts, TypeOK, envVars
<1>13. ASSUME NEW th \in Threads, NEW kind \in {"item", "delta"}, Notification(kind, th)
       PROVE  TypeInv'
  <2>. DEFINE note == [kind |-> kind, thread |-> th, turn |-> NoTurn, from |-> NoReq]
  <2>1. <<note>> \in Seq(Notes) /\ Publish(<<note>>)
    BY <1>13 DEF Notification, Notes, Kinds
  <2>2. PublishFacts
    BY <2>1, PublishType
  <2>. QED
    BY <1>13, <2>2 DEF Notification, PublishFacts, TypeOK, envVars
<1>14. ASSUME NEW th \in Threads, NEW t \in Turns, TurnStarted(th, t) PROVE TypeInv'
  <2>. DEFINE started == [kind |-> "started", thread |-> th, turn |-> t, from |-> NoReq]
              echo(e) == [kind |-> "echo", thread |-> th, turn |-> t, from |-> e.key]
  <2>1. started \in Notes
    BY DEF Notes, Kinds
  <2>2. PublishFacts /\ starts' \subseteq Starts
    <3>1. CASE Publish(<<started>>) /\ UNCHANGED starts
      <4>1. <<started>> \in Seq(Notes)
        BY <2>1
      <4>. QED
        BY <3>1, <4>1, PublishType DEF TypeOK
    <3>2. CASE \E e \in OldestStart(th) : /\ Publish(<<started, echo(e)>>)
                                          /\ starts' = starts \ {e}
      <4>1. PICK e \in OldestStart(th) : /\ Publish(<<started, echo(e)>>)
                                         /\ starts' = starts \ {e}
        BY <3>2
      <4>2. e.key \in Reqs
        BY DEF OldestStart, TypeOK, Starts
      <4>3. <<started, echo(e)>> \in Seq(Notes)
        BY <2>1, <4>2 DEF Notes, Kinds
      <4>. QED
        BY <4>1, <4>3, PublishType DEF TypeOK
    <3>. QED
      BY <1>14, <3>1, <3>2 DEF TurnStarted
  <2>3. activeTurns' \in [Threads -> Turns \cup {NoTurn}]
    BY <1>14 DEF TurnStarted, TypeOK
  <2>. QED
    BY <1>14, <2>2, <2>3 DEF TurnStarted, PublishFacts, TypeOK, envVars
<1>15. ASSUME NEW th \in Threads, NEW t \in Turns \cup {NoTurn}, TurnCompleted(th, t)
       PROVE  TypeInv'
  <2>. DEFINE note == [kind |-> "completed", thread |-> th, turn |-> t, from |-> NoReq]
  <2>1. <<note>> \in Seq(Notes) /\ Publish(<<note>>)
    BY <1>15 DEF TurnCompleted, Notes, Kinds
  <2>2. PublishFacts
    BY <2>1, PublishType
  <2>3. activeTurns' \in [Threads -> Turns \cup {NoTurn}]
    BY <1>15 DEF TurnCompleted, AfterCompleted, TypeOK
  <2>. QED
    BY <1>15, <2>2, <2>3 DEF TurnCompleted, PublishFacts, TypeOK, envVars
<1>16. CASE StartExpires
  BY <1>16 DEF StartExpires, TypeOK, envVars, histVars
<1>17. CASE NoteAges
  BY <1>17 DEF NoteAges, TypeOK, muxVars, histVars
<1>18. CASE ChildDies
  BY <1>18 DEF ChildDies, TypeOK, muxVars, histVars
<1>19. CASE ChildExits
  BY <1>19 DEF ChildExits, TypeOK, envVars, histVars
<1>. QED
  BY <1>0, <1>1, <1>2, <1>3, <1>4, <1>5, <1>6, <1>7, <1>8, <1>9, <1>10, <1>11,
     <1>12, <1>13, <1>14, <1>15, <1>16, <1>17, <1>18, <1>19
  DEF Next, ClientStep, ChildStep, ChildAnswer

\* Type correctness of the mux.
THEOREM TypeCorrect == Spec => []TypeOK
<1>1. Spec => []TypeInv
  BY InitType, StepType, PTL DEF Spec
<1>2. TypeInv => TypeOK
  BY DEF TypeInv
<1>. QED
  BY <1>1, <1>2, PTL
-----------------------------------------------------------------------------
(* Requests and their answers *)

\* The parts of the state RpcInv speaks of, but for `clients` and `pending`.
rpcVars == <<held, asked, replies, link>>

\* Steps that at most give up some clients: broadcasts, and all that leave
\* requests alone.
LEMMA LosingClients ==
    ASSUME TypeOK, RpcInv, UNCHANGED rpcVars,
           NEW gone, clients' = clients \ gone, pending' = Forget(pending, gone)
    PROVE  RpcInv'
<1>1. pending' \subseteq held' /\ ResponsesReachAsker'
  BY DEF RpcInv, rpcVars, Forget, ResponsesReachAsker
<1>2. ASSUME NEW r \in asked', r[1] \in clients', replies'[r] = <<>>
      PROVE  \E q \in pending' : q.key = r
  <2>1. PICK q \in pending : q.key = r
    BY <1>2 DEF RpcInv, rpcVars
  <2>2. q.client = r[1]
    BY <2>1 DEF RpcInv, TypeOK, Entries
  <2>. QED
    BY <1>2, <2>1, <2>2 DEF Forget
<1>. QED
  BY <1>1, <1>2 DEF RpcInv, rpcVars

\* The answer to a held request, or to one that was only just sent: it goes to
\* the asker, or the asker is given up.
LEMMA Replying ==
    ASSUME TypeOK, RpcInv, NEW r \in Reqs, NEW origin \in {r, NoReq},
           NEW ok \in BOOLEAN, NEW p, Reply(r, origin, ok, p),
           p = {q \in pending : q.key # r},
           replies[r] = <<>>,
           asked' = asked \cup {r}, link' = link, link[r[1]] # "new",
           held' = {q \in held : q.key # r}
    PROVE  RpcInv'
<1>1. /\ clients' = clients \ Dropped(r[1])
      /\ pending' = Forget(p, Dropped(r[1]))
  BY DEF Reply
<1>2. \A x \in Reqs : x # r => replies'[x] = replies[x]
  BY DEF Reply, TypeOK
<1>3. pending' \subseteq held'
  BY <1>1 DEF Forget, RpcInv
<1>4. ASSUME NEW q \in held'
      PROVE  /\ q.key = <<q.client, q.id>>
             /\ q.key \in asked'
             /\ replies'[q.key] = <<>>
  <2>1. q \in held /\ q.key # r /\ q.key \in Reqs
    BY DEF TypeOK, Entries
  <2>. QED
    BY <2>1, <1>2 DEF RpcInv
<1>5. \A q, x \in held' : q.key = x.key => q = x
  BY DEF RpcInv
<1>6. \A x \in Reqs \ asked' : replies'[x] = <<>>
  BY <1>2 DEF RpcInv
<1>7. ResponsesReachAsker'
  <2>1. CASE Written(r[1])
    <3>. DEFINE answer == [origin |-> origin, ok |-> ok]
    <3>1. replies'[r] = Append(replies[r], answer)
      BY <2>1 DEF Reply, TypeOK
    <3>2. replies'[r] = <<answer>>
      BY <3>1
    <3>3. Len(replies'[r]) <= 1 /\ \A k \in DOMAIN replies'[r] : replies'[r][k].origin \in {r, NoReq}
      BY <3>2
    <3>. QED
      BY <3>3, <1>2 DEF RpcInv, ResponsesReachAsker
  <2>2. CASE ~Written(r[1])
    BY <2>2 DEF Reply, RpcInv, ResponsesReachAsker
  <2>. QED
    BY <2>1, <2>2
<1>8. \A x \in asked' : link'[x[1]] # "new"
  BY DEF RpcInv
<1>9. ASSUME NEW x \in asked', x[1] \in clients', replies'[x] = <<>>
      PROVE  \E q \in pending' : q.key = x
  <2>1. x # r
    <3>1. CASE Written(r[1])
      <4>1. replies'[r] = Append(replies[r], [origin |-> origin, ok |-> ok])
        BY <3>1 DEF Reply, TypeOK
      <4>2. replies'[r] # <<>>
        BY <4>1
      <4>. QED
        BY <4>2, <1>9
    <3>2. CASE ~Written(r[1])
      <4>1. x = r => x[1] \in Dropped(r[1])
        BY <3>2, <1>9, <1>1 DEF Dropped, Written, Reqs, TypeOK
      <4>. QED
        BY <4>1, <1>9, <1>1
    <3>. QED
      BY <3>1, <3>2
  <2>2. x \in asked /\ x \in Reqs /\ x[1] \in clients
    BY <2>1, <1>9, <1>1 DEF TypeOK
  <2>3. PICK q \in pending : q.key = x
    BY <2>2, <1>9, <1>2, <2>1 DEF RpcInv
  <2>4. q.client = x[1]
    BY <2>3 DEF RpcInv, TypeOK, Entries
  <2>5. q \in p
    BY <2>3, <2>1
  <2>. QED
    BY <1>1, <1>9, <2>3, <2>4, <2>5 DEF Forget
<1>. QED
  BY <1>3, <1>4, <1>5, <1>6, <1>7, <1>8, <1>9 DEF RpcInv

\* A request that is sent is fresh, so no entry has its key yet.
LEMMA Forwarding ==
    ASSUME TypeOK, RpcInv, NEW c \in Clients, NEW i \in Ids, NEW call,
           Fresh(c, i), link[c] = "open", link' = link,
           asked' = asked \cup {<<c, i>>}, Forward(c, i, call)
    PROVE  RpcInv'
<1>. DEFINE r == <<c, i>>
            entry == [key |-> r, client |-> c, id |-> i, call |-> call]
            others == {q \in pending : q.key # r}
<1>1. /\ r \in Reqs /\ r \notin asked /\ r[1] = c
      /\ InternalId(c, i) = r
  BY DEF Fresh, Reqs, InternalId
<1>2. \A q \in held : q.key # r
  BY <1>1 DEF RpcInv
<1>3. replies[r] = <<>>
  BY <1>1 DEF RpcInv
<1>4. others = pending
  BY <1>2 DEF RpcInv
<1>5. CASE /\ pending' = others \cup {entry} /\ held' = held \cup {entry}
           /\ UNCHANGED <<replies, clients>>
  <2>1. entry.key = r /\ entry.client = c /\ entry.id = i
    OBVIOUS
  <2>2. \A q \in held' : /\ q.key = <<q.client, q.id>>
                         /\ q.key \in asked'
                         /\ replies'[q.key] = <<>>
    BY <1>3, <1>5, <2>1 DEF RpcInv
  <2>3. \A p, q \in held' : p.key = q.key => p = q
    BY <1>2, <1>5, <2>1 DEF RpcInv
  <2>4. pending' \subseteq held' /\ ResponsesReachAsker'
    BY <1>4, <1>5 DEF RpcInv, ResponsesReachAsker
  <2>5. \A x \in Reqs \ asked' : replies'[x] = <<>>
    BY <1>5 DEF RpcInv
  <2>6. \A x \in asked' : link'[x[1]] # "new"
    BY <1>1 DEF RpcInv
  <2>7. \A x \in asked' : (x[1] \in clients' /\ replies'[x] = <<>>) =>
            \E q \in pending' : q.key = x
    BY <1>4, <1>5, <2>1 DEF RpcInv
  <2>. QED
    BY <2>2, <2>3, <2>4, <2>5, <2>6, <2>7 DEF RpcInv
<1>6. CASE Reply(r, NoReq, FALSE, others) /\ UNCHANGED held
  <2>1. held' = {q \in held : q.key # r}
    BY <1>6, <1>2
  <2>2. link[r[1]] # "new"
    BY <1>1
  <2>. HIDE DEF r, others
  <2>. QED
    BY <1>1, <1>3, <1>6, <2>1, <2>2, Replying DEF r, others
<1>. QED
  BY <1>1, <1>5, <1>6 DEF Forward

\* A broadcast gives up the clients it cannot write to.
LEMMA PublishLoses ==
    ASSUME TypeOK, RpcInv, NEW ms, Publish(ms), UNCHANGED rpcVars
    PROVE  RpcInv'
<1>. DEFINE all == notes \o ms
            fresh == (Len(notes) + 1)..Len(all)
            sent(c) == {n \in fresh : Visible(info[c], all[n])}
            gone == {c \in clients \cap broken : sent(c) # {}}
<1>1. clients' = clients \ gone /\ pending' = Forget(pending, gone)
  BY DEF Publish
<1>. QED
  BY <1>1, LosingClients

\* `pending` holds at most one entry for a held request, and its key names it.
LEMMA EntryOfHeld ==
    ASSUME TypeOK, RpcInv, NEW p \in held, NEW q \in EntryFor(p)
    PROVE  /\ q = p
           /\ p.key \in Reqs /\ p.key = <<p.client, p.id>>
           /\ pending \ {q} = {x \in pending : x.key # p.key}
           /\ held \ {p} = {x \in held : x.key # p.key}
<1>1. q \in held /\ q.key = p.key
  BY DEF EntryFor, RpcInv
<1>2. q = p
  BY <1>1 DEF RpcInv
<1>3. p.key \in Reqs /\ p.key = <<p.client, p.id>>
  BY DEF TypeOK, Entries, RpcInv
<1>4. \A x \in held : x.key = p.key => x = p
  BY DEF RpcInv
<1>5. \A x \in pending : x.key = p.key => x = p
  BY <1>4 DEF RpcInv
<1>. QED
  BY <1>2, <1>3, <1>4, <1>5

\* The child's answer to a request that has an entry.
LEMMA Answering ==
    ASSUME TypeOK, RpcInv, NEW p \in held, NEW q \in EntryFor(p), NEW ok \in BOOLEAN,
           Reply(<<q.client, q.id>>, <<p.client, p.id>>, ok, pending \ {q}),
           held' = held \ {p}, asked' = asked, link' = link
    PROVE  RpcInv'
<1>. DEFINE r == p.key
<1>1. /\ q = p /\ r \in Reqs /\ r = <<p.client, p.id>>
      /\ pending \ {q} = {x \in pending : x.key # r}
      /\ held' = {x \in held : x.key # r}
  BY EntryOfHeld
<1>2. Reply(r, r, ok, {x \in pending : x.key # r})
  BY <1>1
<1>3. /\ asked' = asked \cup {r} /\ replies[r] = <<>> /\ link[r[1]] # "new"
  BY DEF RpcInv
<1>. HIDE DEF r
<1>. QED
  BY <1>1, <1>2, <1>3, Replying

\* Initially nothing is asked, held or answered.
LEMMA RpcInit == Init => RpcInv
BY DEF Init, RpcInv, ResponsesReachAsker

\* Every step keeps RpcInv: one step of the proof for each action.
LEMMA RpcStep == TypeOK /\ RpcInv /\ [Next]_vars => RpcInv'
<1>. SUFFICES ASSUME TypeOK, RpcInv, [Next]_vars PROVE RpcInv'
  OBVIOUS
<1>. USE DEF rpcVars
\* Steps that leave clients and requests alone give up nobody.
<1>. DEFINE Idle == UNCHANGED <<held, asked, replies, link, clients, pending>>
<1>0. ASSUME Idle PROVE RpcInv'
  BY <1>0 DEF RpcInv, ResponsesReachAsker
<1>1. ASSUME NEW c \in Clients, Connect(c) PROVE RpcInv'
  <2>1. /\ clients' = clients \cup {c} /\ link[c] = "new"
        /\ link' = [link EXCEPT ![c] = "open"]
        /\ UNCHANGED <<held, asked, replies, pending>>
    BY <1>1 DEF Connect, histVars
  <2>2. \A r \in asked : r[1] # c /\ r[1] \in Clients
    BY <2>1 DEF RpcInv, TypeOK, Reqs
  <2>3. \A r \in asked' : link'[r[1]] # "new"
    BY <2>1, <2>2 DEF RpcInv, TypeOK
  <2>4. \A r \in asked' : (r[1] \in clients' /\ replies'[r] = <<>>) =>
            \E q \in pending' : q.key = r
    BY <2>1, <2>2 DEF RpcInv
  <2>. QED
    BY <2>1, <2>3, <2>4 DEF RpcInv, ResponsesReachAsker
<1>2. ASSUME NEW c \in Clients, WriteFails(c) PROVE RpcInv'
  BY <1>2, <1>0 DEF WriteFails, muxVars, histVars
<1>3. ASSUME NEW c \in Clients, Disconnect(c) PROVE RpcInv'
  <2>1. /\ clients' = clients \ {c}
        /\ pending' = IF c \in clients THEN Forget(pending, {c}) ELSE pending
        /\ link' = [link EXCEPT ![c] = "closed"]
        /\ UNCHANGED <<held, asked, replies>>
    BY <1>3 DEF Disconnect, histVars
  <2>2. \A r \in asked' : link'[r[1]] # "new"
    BY <2>1 DEF RpcInv, TypeOK
  <2>3. ASSUME NEW r \in asked', r[1] \in clients', replies'[r] = <<>>
        PROVE  \E q \in pending' : q.key = r
    <3>1. PICK q \in pending : q.key = r
      BY <2>1, <2>3 DEF RpcInv
    <3>2. q.client = r[1] /\ r[1] # c
      BY <3>1, <2>1, <2>3 DEF RpcInv, TypeOK, Entries
    <3>. QED
      BY <3>1, <3>2, <2>1 DEF Forget
  <2>4. pending' \subseteq held' /\ ResponsesReachAsker'
    BY <2>1 DEF RpcInv, Forget, ResponsesReachAsker
  <2>. QED
    BY <2>1, <2>2, <2>3, <2>4 DEF RpcInv
<1>4. ASSUME NEW c \in Clients, NEW i \in Ids, Initialize(c, i) PROVE RpcInv'
  <2>. DEFINE r == <<c, i>>
              inf == IF c \in Mobile THEN "mobile" ELSE "desktop"
  <2>1. /\ Fresh(c, i) /\ link[c] = "open" /\ link' = link
        /\ asked' = asked \cup {r} /\ r \in Reqs /\ r \notin asked /\ r[1] = c
    BY <1>4 DEF Initialize, Line, Fresh, Reqs
  <2>2. CASE InitializeReply(c, i, inf, NoReq, pending) /\ UNCHANGED held
    <3>1. Reply(r, NoReq, TRUE, pending)
      BY <2>2 DEF InitializeReply
    <3>2. /\ pending = {q \in pending : q.key # r}
          /\ held' = {q \in held : q.key # r}
          /\ replies[r] = <<>>
      BY <2>1, <2>2 DEF RpcInv
    <3>. HIDE DEF r
    <3>. QED
      BY <2>1, <3>1, <3>2, Replying
  <2>3. CASE Forward(c, i, [method |-> "initialize", thread |-> NoThread])
    BY <2>1, <2>3, Forwarding
  <2>. QED
    BY <1>4, <2>2, <2>3 DEF Initialize
<1>5. ASSUME NEW c \in Clients, NEW i \in Ids, NEW call \in Calls, Request(c, i, call)
      PROVE  RpcInv'
  BY <1>5, Forwarding DEF Request, Line
<1>6. ASSUME NEW c \in Clients, NEW s \in Questions, AnswerQuestion(c, s) PROVE RpcInv'
  BY <1>6, <1>0 DEF AnswerQuestion, envVars
<1>7. ASSUME NEW c \in Clients, NEW th \in Threads, NEW t \in Turns \cup {NoTurn},
             UserMessage(c, th, t)
      PROVE  RpcInv'
  BY <1>7, PublishLoses DEF UserMessage, envVars
<1>8. ASSUME NEW p \in held, NEW o \in {"ok", "error", "already"}, AnswerUnknown(p, o)
      PROVE  RpcInv'
  <2>1. /\ held' = held \ {p} /\ EntryFor(p) = {}
        /\ UNCHANGED <<clients, pending, asked, replies, link>>
    BY <1>8 DEF AnswerUnknown, ChildAnswers, muxVars, histVars
  <2>2. pending' \subseteq held'
    BY <2>1 DEF EntryFor, RpcInv
  <2>. QED
    BY <2>1, <2>2 DEF RpcInv, ResponsesReachAsker
<1>9. ASSUME NEW p \in held, NEW o \in {"ok", "error", "already"}, AnswerRequest(p, o)
      PROVE  RpcInv'
  <2>1. PICK q \in EntryFor(p) :
           Reply(<<q.client, q.id>>, <<p.client, p.id>>, o = "ok", pending \ {q})
    BY <1>9 DEF AnswerRequest
  <2>2. /\ held' = held \ {p} /\ asked' = asked /\ link' = link
    BY <1>9 DEF AnswerRequest, ChildAnswers
  <2>. QED
    BY <2>1, <2>2, Answering
<1>10. ASSUME NEW p \in held, NEW o \in {"ok", "error", "already"}, AnswerInitialize(p, o)
       PROVE  RpcInv'
  <2>1. PICK q \in EntryFor(p) :
           InitializeReply(q.client, q.id, info[q.client], <<p.client, p.id>>,
                           pending \ {q})
    BY <1>10 DEF AnswerInitialize
  <2>2. Reply(<<q.client, q.id>>, <<p.client, p.id>>, TRUE, pending \ {q})
    BY <2>1 DEF InitializeReply
  <2>3. /\ held' = held \ {p} /\ asked' = asked /\ link' = link
    BY <1>10 DEF AnswerInitialize, ChildAnswers
  <2>. QED
    BY <2>2, <2>3, Answering
<1>11. ASSUME NEW s \in Questions, AskQuestion(s) PROVE RpcInv'
  BY <1>11, LosingClients DEF AskQuestion, envVars
<1>12. ASSUME NEW s \in Questions, Resolved(s) PROVE RpcInv'
  BY <1>12, PublishLoses DEF Resolved, envVars
<1>13. ASSUME NEW th \in Threads, NEW kind \in {"item", "delta"}, Notification(kind, th)
       PROVE  RpcInv'
  BY <1>13, PublishLoses DEF Notification, envVars
<1>14. ASSUME NEW th \in Threads, NEW t \in Turns, TurnStarted(th, t) PROVE RpcInv'
  <2>1. \E ms : Publish(ms)
    BY <1>14 DEF TurnStarted
  <2>. QED
    BY <1>14, <2>1, PublishLoses DEF TurnStarted, envVars
<1>15. ASSUME NEW th \in Threads, NEW t \in Turns \cup {NoTurn}, TurnCompleted(th, t)
       PROVE  RpcInv'
  BY <1>15, PublishLoses DEF TurnCompleted, envVars
<1>16. CASE StartExpires
  BY <1>16, <1>0 DEF StartExpires, envVars, histVars
<1>17. CASE NoteAges
  BY <1>17, <1>0 DEF NoteAges, muxVars, histVars
<1>18. CASE ChildDies
  BY <1>18, <1>0 DEF ChildDies, muxVars, histVars
<1>19. CASE ChildExits
  BY <1>19, <1>0 DEF ChildExits, envVars, histVars
<1>20. CASE UNCHANGED vars
  BY <1>20, <1>0 DEF vars, muxVars, envVars, histVars
<1>. QED
  BY <1>1, <1>2, <1>3, <1>4, <1>5, <1>6, <1>7, <1>8, <1>9, <1>10, <1>11,
     <1>12, <1>13, <1>14, <1>15, <1>16, <1>17, <1>18, <1>19, <1>20
  DEF Next, ClientStep, ChildStep, ChildAnswer

\* RpcInv holds in every reachable state.
LEMMA RpcCorrect == Spec => []RpcInv
BY TypeCorrect, RpcInit, RpcStep, PTL DEF Spec

\* No client ever gets an answer to somebody else's request, or two to one.
THEOREM AnswersReachAsker == Spec => []ResponsesReachAsker
<1>1. RpcInv => ResponsesReachAsker
  BY DEF RpcInv
<1>. QED
  BY <1>1, RpcCorrect, PTL

\* What a connected client asked and has no answer to is still under way.
THEOREM RequestsUnderWay == Spec => []NoRequestForgotten
<1>1. TypeOK /\ RpcInv => NoRequestForgotten
  <2>. SUFFICES ASSUME TypeOK, RpcInv, NEW c \in clients, NEW i \in Ids,
                       <<c, i>> \in asked, replies[<<c, i>>] = <<>>
                PROVE  \E q \in pending :
                          /\ q.client = c /\ q.id = i
                          /\ \E p \in held : p.key = q.key /\ p.client = c /\ p.id = i
    BY DEF NoRequestForgotten
  <2>1. <<c, i>>[1] = c
    OBVIOUS
  <2>2. PICK q \in pending : q.key = <<c, i>>
    BY <2>1 DEF RpcInv
  <2>3. q \in held /\ q.client = c /\ q.id = i
    BY <2>2 DEF RpcInv
  <2>. QED
    BY <2>2, <2>3
<1>. QED
  BY <1>1, TypeCorrect, RpcCorrect, PTL

-----------------------------------------------------------------------------
(* Clients *)

\* What a request, a result or an entry says of its client: it has said who it
\* is, it has been connected, and only a failed write removes it while its
\* socket is open.
ClientsKnown ==
    /\ \A r \in asked : info[r[1]] # "none"
    /\ \A c \in ready : link[c] # "new" /\ info[c] # "none"
    /\ \A c \in Clients : link[c] = "open" => c \in clients \cup broken
    /\ \A q \in pending : q.client \in clients \cup broken

LEMMA ClientsInit == Init => ClientsKnown
BY DEF Init, ClientsKnown

\* Steps that give up clients, if any, for a failed write.
LEMMA ClientsKept ==
    ASSUME TypeOK, ClientsKnown, UNCHANGED <<link, broken>>,
           NEW gone \in SUBSET broken, clients' = clients \ gone,
           \A c \in Clients : info'[c] = info[c] \/ info'[c] # "none",
           asked' \subseteq Reqs, ready' \subseteq Clients,
           \A r \in asked' \ asked : info'[r[1]] # "none",
           \A c \in ready' \ ready : link[c] # "new" /\ info'[c] # "none",
           \A q \in pending' \ pending : q.client \in Clients /\ link[q.client] = "open"
    PROVE  ClientsKnown'
<1>1. \A r \in asked' : r[1] \in Clients
  BY DEF Reqs
<1>2. \A r \in asked' : info'[r[1]] # "none"
  BY <1>1 DEF ClientsKnown
<1>3. \A c \in ready' : link'[c] # "new" /\ info'[c] # "none"
  BY DEF ClientsKnown
<1>4. \A c \in Clients : link'[c] = "open" => c \in clients' \cup broken'
  BY DEF ClientsKnown
<1>5. \A q \in pending' : q.client \in clients' \cup broken'
  BY DEF ClientsKnown
<1>. QED BY <1>2, <1>3, <1>4, <1>5 DEF ClientsKnown

\* A broadcast gives up the clients it cannot write to, and their entries.
LEMMA PublishGivesUp ==
    ASSUME NEW ms, Publish(ms)
    PROVE  \E gone \in SUBSET broken : clients' = clients \ gone /\ pending' \subseteq pending
BY DEF Publish, Forget

\* So does an answer.
LEMMA ReplyGivesUp ==
    ASSUME NEW r, NEW origin, NEW ok, NEW p, Reply(r, origin, ok, p)
    PROVE  \E gone \in SUBSET broken : clients' = clients \ gone /\ pending' \subseteq p
BY DEF Reply, Dropped, Forget

LEMMA ForwardGivesUp ==
    ASSUME NEW c \in Clients, NEW i, NEW call, Forward(c, i, call)
    PROVE  \E gone \in SUBSET broken :
              /\ clients' = clients \ gone
              /\ \A q \in pending' \ pending : q.client = c
<1>. DEFINE entry == [key |-> InternalId(c, i), client |-> c, id |-> i, call |-> call]
            others == {q \in pending : q.key # entry.key}
<1>1. entry.client = c /\ others \subseteq pending
  OBVIOUS
<1>. HIDE DEF entry
<1>2. CASE pending' = others \cup {entry} /\ UNCHANGED <<replies, clients>>
  <2>1. clients' = clients \ {} /\ \A q \in pending' \ pending : q.client = c
    BY <1>1, <1>2
  <2>2. {} \in SUBSET broken
    OBVIOUS
  <2>. QED BY <2>1, <2>2
<1>3. CASE Reply(<<c, i>>, NoReq, FALSE, others)
  <2>. HIDE DEF others
  <2>1. PICK gone \in SUBSET broken : clients' = clients \ gone /\ pending' \subseteq others
    BY <1>3, ReplyGivesUp
  <2>. QED BY <1>1, <2>1
<1>. QED BY <1>2, <1>3 DEF Forward, entry

LEMMA ClientsStep ==
    ASSUME TypeOK, RpcInv, ClientsKnown, [Next]_vars, TypeOK'
    PROVE  ClientsKnown'
<1>. DEFINE Aside == UNCHANGED <<link, broken, info, asked, ready>>
<1>0. ASSUME Aside, NEW gone \in SUBSET broken, clients' = clients \ gone, pending' \subseteq pending
      PROVE  ClientsKnown'
  BY <1>0, ClientsKept DEF TypeOK
<1>1. ASSUME Aside, UNCHANGED <<clients, pending>>
      PROVE  ClientsKnown'
  BY <1>1 DEF ClientsKnown
<1>2. ASSUME Aside, NEW ms, Publish(ms)
      PROVE  ClientsKnown'
  BY <1>0, <1>2, PublishGivesUp
<1>3. ASSUME NEW c \in Clients, Connect(c)
      PROVE  ClientsKnown'
  BY <1>3 DEF Connect, histVars, ClientsKnown, TypeOK
<1>4. ASSUME NEW c \in Clients, WriteFails(c)
      PROVE  ClientsKnown'
  BY <1>4 DEF WriteFails, muxVars, histVars, ClientsKnown
<1>5. ASSUME NEW c \in Clients, Disconnect(c)
      PROVE  ClientsKnown'
  BY <1>5 DEF Disconnect, histVars, Forget, ClientsKnown, TypeOK
<1>6. ASSUME NEW c \in Clients, NEW i \in Ids, Initialize(c, i)
      PROVE  ClientsKnown'
  <2>. DEFINE inf == IF c \in Mobile THEN "mobile" ELSE "desktop"
  <2>1. /\ link[c] = "open" /\ UNCHANGED <<link, broken>>
        /\ info' = [info EXCEPT ![c] = inf] /\ asked' = asked \cup {<<c, i>>}
    BY <1>6 DEF Initialize, Line
  <2>2. \A x \in Clients : info'[x] = info[x] \/ info'[x] # "none"
    BY <2>1 DEF TypeOK
  <2>3. info'[c] # "none" /\ \A r \in asked' \ asked : r = <<c, i>> /\ r[1] = c
    BY <2>1 DEF TypeOK
  <2>4. CASE InitializeReply(c, i, inf, NoReq, pending)
    <3>1. PICK gone \in SUBSET broken : clients' = clients \ gone /\ pending' \subseteq pending
      BY <2>4, ReplyGivesUp DEF InitializeReply
    <3>2. ready' \subseteq ready \cup {c}
      BY <2>4 DEF InitializeReply
    <3>. HIDE DEF inf
    <3>. QED BY <2>1, <2>2, <2>3, <3>1, <3>2, ClientsKept DEF TypeOK
  <2>5. CASE Forward(c, i, [method |-> "initialize", thread |-> NoThread]) /\ ready' = ready
    <3>1. PICK gone \in SUBSET broken :
              clients' = clients \ gone /\ \A q \in pending' \ pending : q.client = c
      BY <2>5, ForwardGivesUp
    <3>2. /\ \A q \in pending' \ pending : q.client \in Clients /\ link[q.client] = "open"
          /\ \A r \in asked' \ asked : info'[r[1]] # "none"
          /\ \A x \in ready' \ ready : link[x] # "new" /\ info'[x] # "none"
          /\ asked' \subseteq Reqs /\ ready' \subseteq Clients
      BY <2>1, <2>3, <2>5, <3>1 DEF TypeOK
    <3>. HIDE DEF inf
    <3>. QED BY <2>1, <2>2, <3>1, <3>2, ClientsKept
  <2>. QED BY <1>6, <2>4, <2>5 DEF Initialize
<1>7. ASSUME NEW c \in Clients, NEW i \in Ids, NEW call \in Calls, Request(c, i, call)
      PROVE  ClientsKnown'
  <2>1. /\ link[c] = "open" /\ UNCHANGED <<link, broken, info, ready>>
        /\ info[c] # "none" /\ asked' = asked \cup {<<c, i>>}
    BY <1>7 DEF Request, Line
  <2>2. PICK gone \in SUBSET broken :
            clients' = clients \ gone /\ \A q \in pending' \ pending : q.client = c
    BY <1>7, ForwardGivesUp DEF Request
  <2>3. \A r \in asked' \ asked : r[1] = c
    BY <2>1
  <2>. QED BY <2>1, <2>2, <2>3, ClientsKept DEF TypeOK
<1>8. ASSUME NEW p \in held, NEW o \in {"ok", "error", "already"}, AnswerRequest(p, o)
      PROVE  ClientsKnown'
  BY <1>0, <1>8, ReplyGivesUp DEF AnswerRequest, ChildAnswers
<1>9. ASSUME NEW p \in held, NEW o \in {"ok", "error", "already"}, AnswerInitialize(p, o)
      PROVE  ClientsKnown'
  <2>1. PICK q \in EntryFor(p) :
           InitializeReply(q.client, q.id, info[q.client], <<p.client, p.id>>,
                           pending \ {q})
    BY <1>9 DEF AnswerInitialize
  <2>2. PICK gone \in SUBSET broken : clients' = clients \ gone /\ pending' \subseteq pending \ {q}
    BY <2>1, ReplyGivesUp DEF InitializeReply
  <2>3. ready' \subseteq ready \cup {q.client}
    BY <2>1 DEF InitializeReply
  <2>4. link[q.client] # "new" /\ info[q.client] # "none"
    <3>1. q \in held
      BY DEF EntryFor, RpcInv
    <3>2. q.key \in asked /\ q.key[1] = q.client
      BY <3>1 DEF RpcInv
    <3>. QED BY <3>2 DEF RpcInv, ClientsKnown
  <2>5. UNCHANGED <<link, broken, info, asked>>
    BY <1>9 DEF AnswerInitialize, ChildAnswers
  <2>. QED BY <2>2, <2>3, <2>4, <2>5, ClientsKept DEF TypeOK
<1>10. ASSUME NEW s \in Questions, AskQuestion(s)
       PROVE  ClientsKnown'
  BY <1>0, <1>10 DEF AskQuestion, Forget, envVars
<1>11. ASSUME \/ \E c \in Clients, th \in Threads, t \in Turns \cup {NoTurn} : UserMessage(c, th, t)
              \/ \E s \in Questions : Resolved(s)
              \/ \E th \in Threads, kind \in {"item", "delta"} : Notification(kind, th)
              \/ \E th \in Threads, t \in Turns : TurnStarted(th, t)
              \/ \E th \in Threads, t \in Turns \cup {NoTurn} : TurnCompleted(th, t)
       PROVE  ClientsKnown'
  <2>1. \E ms : Publish(ms)
    BY <1>11 DEF UserMessage, Resolved, Notification, TurnStarted, TurnCompleted
  <2>2. Aside
    BY <1>11 DEF UserMessage, Resolved, Notification, TurnStarted, TurnCompleted, envVars
  <2>. QED BY <1>2, <2>1, <2>2
<1>12. ASSUME \/ StartExpires \/ NoteAges \/ ChildDies \/ ChildExits \/ UNCHANGED vars
              \/ \E c \in Clients, s \in Questions : AnswerQuestion(c, s)
              \/ \E p \in held, o \in {"ok", "error", "already"} : AnswerUnknown(p, o)
       PROVE  ClientsKnown'
  BY <1>1, <1>12
  DEF StartExpires, NoteAges, ChildDies, ChildExits, AnswerQuestion, AnswerUnknown,
      ChildAnswers, vars, muxVars, envVars, histVars
<1>. QED
  BY <1>3, <1>4, <1>5, <1>6, <1>7, <1>8, <1>9, <1>10, <1>11, <1>12
  DEF Next, ClientStep, ChildStep, ChildAnswer

LEMMA ClientsCorrect == Spec => []ClientsKnown
<1>1. TypeOK /\ RpcInv /\ ClientsKnown /\ [Next]_vars /\ TypeOK' => ClientsKnown'
  BY ClientsStep
<1>. QED
  BY <1>1, TypeCorrect, RpcCorrect, ClientsInit, PTL DEF Spec

-----------------------------------------------------------------------------
(* The questions of the child *)

\* The initialize result comes with every open question; what else the step
\* does to clients is to give some up.
LEMMA InitializeReplyShows ==
    ASSUME TypeOK, OpenQuestionsShown, NEW c \in Clients, NEW i, NEW inf, NEW origin,
           NEW p, InitializeReply(c, i, inf, origin, p), serverRequests' = serverRequests
    PROVE  OpenQuestionsShown'
<1>1. clients' \subseteq clients
  BY DEF InitializeReply, Reply
<1>2. CASE Written(c)
  <2>1. /\ shown' = [shown EXCEPT ![c] = shown[c] \cup serverRequests]
        /\ ready' = ready \cup {c}
    BY <1>2 DEF InitializeReply
  <2>. QED BY <1>1, <2>1 DEF TypeOK, OpenQuestionsShown
<1>3. CASE ~Written(c)
  BY <1>1, <1>3 DEF InitializeReply, OpenQuestionsShown
<1>. QED BY <1>2, <1>3

LEMMA ShownStep ==
    ASSUME TypeOK, RpcInv, ClientsKnown, OpenQuestionsShown, [Next]_vars
    PROVE  OpenQuestionsShown'
<1>1. ASSUME UNCHANGED <<ready, shown>>, clients' \subseteq clients,
             serverRequests' \subseteq serverRequests
      PROVE  OpenQuestionsShown'
  BY <1>1 DEF OpenQuestionsShown
<1>2. ASSUME UNCHANGED <<ready, shown>>, NEW ms, Publish(ms),
             serverRequests' \subseteq serverRequests
      PROVE  OpenQuestionsShown'
  BY <1>1, <1>2, PublishGivesUp
<1>3. ASSUME NEW c \in Clients, Connect(c)
      PROVE  OpenQuestionsShown'
  BY <1>3 DEF Connect, histVars, OpenQuestionsShown, ClientsKnown
<1>4. ASSUME NEW c \in Clients, NEW i \in Ids, Initialize(c, i)
      PROVE  OpenQuestionsShown'
  <2>1. serverRequests' = serverRequests
    BY <1>4 DEF Initialize
  <2>2. CASE \E inf : InitializeReply(c, i, inf, NoReq, pending)
    BY <2>1, <2>2, InitializeReplyShows
  <2>3. CASE /\ Forward(c, i, [method |-> "initialize", thread |-> NoThread])
             /\ UNCHANGED <<shown, ready>>
    BY <1>1, <2>1, <2>3, ForwardGivesUp
  <2>. QED BY <1>4, <2>2, <2>3 DEF Initialize
<1>5. ASSUME NEW c \in Clients, NEW i \in Ids, NEW call \in Calls, Request(c, i, call)
      PROVE  OpenQuestionsShown'
  BY <1>1, <1>5, ForwardGivesUp DEF Request
<1>6. ASSUME NEW p \in held, NEW o \in {"ok", "error", "already"}, AnswerRequest(p, o)
      PROVE  OpenQuestionsShown'
  BY <1>1, <1>6, ReplyGivesUp DEF AnswerRequest
<1>7. ASSUME NEW p \in held, NEW o \in {"ok", "error", "already"}, AnswerInitialize(p, o)
      PROVE  OpenQuestionsShown'
  <2>1. PICK q \in EntryFor(p) :
           InitializeReply(q.client, q.id, info[q.client], <<p.client, p.id>>,
                           pending \ {q})
    BY <1>7 DEF AnswerInitialize
  <2>2. q.client \in Clients
    BY DEF EntryFor, TypeOK, Entries
  <2>. QED BY <1>7, <2>1, <2>2, InitializeReplyShows DEF AnswerInitialize
<1>8. ASSUME NEW s \in Questions, AskQuestion(s)
      PROVE  OpenQuestionsShown'
  BY <1>8 DEF AskQuestion, OpenQuestionsShown, Receivers, TypeOK
<1>9. ASSUME \/ \E c \in Clients, th \in Threads, t \in Turns \cup {NoTurn} : UserMessage(c, th, t)
             \/ \E s \in Questions : Resolved(s)
             \/ \E th \in Threads, kind \in {"item", "delta"} : Notification(kind, th)
             \/ \E th \in Threads, t \in Turns : TurnStarted(th, t)
             \/ \E th \in Threads, t \in Turns \cup {NoTurn} : TurnCompleted(th, t)
      PROVE  OpenQuestionsShown'
  <2>1. \E ms : Publish(ms)
    BY <1>9 DEF UserMessage, Resolved, Notification, TurnStarted, TurnCompleted
  <2>2. UNCHANGED <<ready, shown>> /\ serverRequests' \subseteq serverRequests
    BY <1>9 DEF UserMessage, Resolved, Without, Notification, TurnStarted, TurnCompleted
  <2>. QED BY <1>2, <2>1, <2>2
<1>10. ASSUME \/ StartExpires \/ NoteAges \/ ChildDies \/ ChildExits \/ UNCHANGED vars
              \/ \E c \in Clients : WriteFails(c) \/ Disconnect(c)
              \/ \E c \in Clients, s \in Questions : AnswerQuestion(c, s)
              \/ \E p \in held, o \in {"ok", "error", "already"} : AnswerUnknown(p, o)
       PROVE  OpenQuestionsShown'
  BY <1>1, <1>10
  DEF StartExpires, NoteAges, ChildDies, ChildExits, WriteFails, Disconnect, AnswerQuestion,
      Without, AnswerUnknown, vars, muxVars, envVars, histVars
<1>. QED
  BY <1>3, <1>4, <1>5, <1>6, <1>7, <1>8, <1>9, <1>10
  DEF Next, ClientStep, ChildStep, ChildAnswer

\* A client that has its initialize result has been shown every open question,
\* those asked before it came and those asked since (AskQuestion's broadcast,
\* replayMissedNotifications), whichever clients writes fail to meanwhile.
THEOREM OpenQuestionsShownHolds == Spec => []OpenQuestionsShown
<1>1. Init => OpenQuestionsShown
  BY DEF Init, OpenQuestionsShown
<1>2. /\ TypeOK /\ RpcInv /\ ClientsKnown /\ OpenQuestionsShown /\ [Next]_vars
      => OpenQuestionsShown'
  BY ShownStep
<1>. QED
  BY <1>1, <1>2, TypeCorrect, RpcCorrect, ClientsCorrect, PTL DEF Spec

\* A question in the map has been asked, is not settled and has no answer yet.
QuestionsInv ==
    /\ resolved \subseteq raised
    /\ \A s \in serverRequests : s \in raised \ resolved /\ answersOf[s] = 0
    /\ \A s \in Questions \ raised : answersOf[s] = 0

LEMMA QuestionsInit == Init => QuestionsInv
BY DEF Init, QuestionsInv

-----------------------------------------------------------------------------
(* The mux implements SharedAppServer *)

\* Every step asks a question, settles one, forwards an answer to one, or does
\* nothing the child's side of SharedAppServer can see.
LEMMA QuestionsMove ==
    ASSUME TypeOK, QuestionsInv, [Next]_vars
    PROVE  Abstract!QuestionStep /\ QuestionsInv'
<1>. USE DEF Abstract!QuestionStep, Abstract!Raise, Abstract!Withdraw, Abstract!Answer
<1>1. ASSUME UNCHANGED <<raised, resolved, answersOf, serverRequests>>
      PROVE  Abstract!QuestionStep /\ QuestionsInv'
  BY <1>1 DEF QuestionsInv
<1>2. ASSUME NEW s \in Questions, AskQuestion(s)
      PROVE  Abstract!QuestionStep /\ QuestionsInv'
  <2>1. /\ s \notin raised /\ raised' = raised \cup {s}
        /\ serverRequests' = serverRequests \cup {s}
        /\ UNCHANGED <<resolved, answersOf>>
    BY <1>2 DEF AskQuestion
  <2>. QED BY <2>1 DEF QuestionsInv
<1>3. ASSUME NEW s \in Questions, Resolved(s)
      PROVE  Abstract!QuestionStep /\ QuestionsInv'
  <2>1. /\ s \in raised \ resolved /\ resolved' = resolved \cup {s}
        /\ serverRequests' = serverRequests \ {s}
        /\ UNCHANGED <<raised, answersOf>>
    BY <1>3 DEF Resolved, Without
  <2>. QED BY <2>1 DEF QuestionsInv
<1>4. ASSUME NEW c \in Clients, NEW s \in Questions, AnswerQuestion(c, s)
      PROVE  Abstract!QuestionStep /\ QuestionsInv'
  <2>1. /\ s \in serverRequests /\ serverRequests' = serverRequests \ {s}
        /\ answersOf' = [answersOf EXCEPT ![s] = answersOf[s] + 1]
        /\ UNCHANGED <<raised, resolved>>
    BY <1>4 DEF AnswerQuestion, Without
  <2>2. s \in raised \ resolved /\ answersOf[s] = 0
    BY <2>1 DEF QuestionsInv
  <2>3. answersOf' = [answersOf EXCEPT ![s] = 1]
    BY <2>1, <2>2
  <2>4. \A x \in Questions : x # s => answersOf'[x] = answersOf[x]
    BY <2>3 DEF TypeOK
  <2>. QED BY <2>1, <2>2, <2>3, <2>4 DEF QuestionsInv, TypeOK
<1>5. ASSUME NEW c \in Clients,
             \/ Connect(c) \/ WriteFails(c) \/ Disconnect(c)
             \/ \E i \in Ids : Initialize(c, i)
             \/ \E i \in Ids, call \in Calls : Request(c, i, call)
             \/ \E th \in Threads, t \in Turns \cup {NoTurn} : UserMessage(c, th, t)
      PROVE  UNCHANGED <<raised, resolved, answersOf, serverRequests>>
  BY <1>5 DEF Connect, WriteFails, Disconnect, Initialize, Request, UserMessage,
              muxVars, histVars
<1>6. ASSUME \/ \E p \in held : ChildAnswer(p)
             \/ \E th \in Threads, kind \in {"item", "delta"} : Notification(kind, th)
             \/ \E th \in Threads, t \in Turns : TurnStarted(th, t)
             \/ \E th \in Threads, t \in Turns \cup {NoTurn} : TurnCompleted(th, t)
             \/ ChildDies \/ ChildExits \/ StartExpires \/ NoteAges \/ UNCHANGED vars
      PROVE  UNCHANGED <<raised, resolved, answersOf, serverRequests>>
  BY <1>6
  DEF ChildAnswer, AnswerUnknown, AnswerRequest, AnswerInitialize, Notification, TurnStarted,
      TurnCompleted, ChildDies, ChildExits, StartExpires, NoteAges, vars, muxVars, histVars
<1>. QED
  BY <1>1, <1>2, <1>3, <1>4, <1>5, <1>6 DEF Next, ClientStep, ChildStep

\* What a step does to the request x.  It is left alone, or its client is given
\* up; or it is sent; or it is answered, while its client is there.
RequestKept(x) ==
    /\ x \in asked' <=> x \in asked
    /\ replies'[x] = replies[x]
    /\ x \in asked /\ x[1] \in clients' => x[1] \in clients

RequestMoved(x) ==
    /\ x \in asked'
    /\ \/ x \notin asked
       \/ replies[x] = <<>> /\ replies'[x] # <<>> /\ x[1] \in clients

OneMoves ==
    \/ \A x \in Reqs : RequestKept(x)
    \/ \E r \in Reqs : RequestMoved(r) /\ \A x \in Reqs \ {r} : RequestKept(x)

\* An answer moves no other request than the one it is to.
LEMMA ReplyKeepsOthers ==
    ASSUME TypeOK, NEW r \in Reqs, NEW origin, NEW ok, NEW p, Reply(r, origin, ok, p),
           asked' \subseteq asked \cup {r}, asked \subseteq asked'
    PROVE  /\ \A x \in Reqs \ {r} : RequestKept(x)
           /\ clients' \subseteq clients
           /\ Written(r[1]) => replies'[r] # <<>>
           /\ ~Written(r[1]) => replies' = replies
<1>. DEFINE answer == [origin |-> origin, ok |-> ok]
<1>1. Written(r[1]) => replies' = [replies EXCEPT ![r] = Append(replies[r], answer)]
  BY DEF Reply
<1>2. ~Written(r[1]) => replies' = replies
  BY DEF Reply
<1>3. \A x \in Reqs \ {r} : replies'[x] = replies[x]
  BY <1>1, <1>2 DEF TypeOK
<1>4. clients' \subseteq clients
  BY DEF Reply
<1>5. Append(replies[r], answer) # <<>>
  <2>1. replies[r] \in Seq(Replies)
    BY DEF TypeOK
  <2>. HIDE DEF answer
  <2>. QED BY <2>1
<1>6. Written(r[1]) => replies'[r] # <<>>
  BY <1>1, <1>5 DEF TypeOK
<1>. QED
  BY <1>2, <1>3, <1>4, <1>6 DEF RequestKept

LEMMA RequestsMove ==
    ASSUME TypeOK, RpcInv, ClientsKnown, [Next]_vars
    PROVE  OneMoves
<1>1. ASSUME UNCHANGED <<asked, replies>>, clients' \subseteq clients
      PROVE  OneMoves
  BY <1>1 DEF OneMoves, RequestKept
<1>2. ASSUME UNCHANGED <<asked, replies>>, NEW ms, Publish(ms)
      PROVE  OneMoves
  BY <1>1, <1>2, PublishGivesUp
<1>3. ASSUME NEW c \in Clients, Connect(c)
      PROVE  OneMoves
  <2>1. clients' = clients \cup {c} /\ link[c] = "new" /\ UNCHANGED <<asked, replies>>
    BY <1>3 DEF Connect, histVars
  <2>2. \A x \in asked : x[1] # c
    BY <2>1 DEF RpcInv
  <2>. QED BY <2>1, <2>2 DEF OneMoves, RequestKept
\* A request that is sent may be answered or lost at once.
<1>4. ASSUME NEW c \in Clients, NEW i \in Ids, Fresh(c, i), asked' = asked \cup {<<c, i>>},
             \/ \E inf : InitializeReply(c, i, inf, NoReq, pending)
             \/ \E call : Forward(c, i, call)
      PROVE  OneMoves
  <2>1. <<c, i>> \in Reqs /\ RequestMoved(<<c, i>>)
    BY <1>4 DEF Fresh, RequestMoved, Reqs
  <2>2. \A x \in Reqs \ {<<c, i>>} : RequestKept(x)
    <3>1. CASE \E ok, p : Reply(<<c, i>>, NoReq, ok, p)
      BY <1>4, <2>1, <3>1, ReplyKeepsOthers
    <3>2. CASE UNCHANGED <<replies, clients>>
      BY <1>4, <3>2 DEF RequestKept
    <3>. QED BY <1>4, <3>1, <3>2 DEF InitializeReply, Forward
  <2>. QED BY <2>1, <2>2 DEF OneMoves
<1>5. ASSUME NEW c \in Clients, NEW i \in Ids, Initialize(c, i)
      PROVE  OneMoves
  BY <1>4, <1>5 DEF Initialize
<1>6. ASSUME NEW c \in Clients, NEW i \in Ids, NEW call \in Calls, Request(c, i, call)
      PROVE  OneMoves
  BY <1>4, <1>6 DEF Request
\* An entry is a request without an answer, of a client that is there unless
\* writes to it fail.
<1>7. ASSUME NEW p \in held, NEW q \in EntryFor(p), NEW ok, NEW rest,
             Reply(<<q.client, q.id>>, <<p.client, p.id>>, ok, rest), asked' = asked
      PROVE  OneMoves
  <2>. DEFINE r == <<q.client, q.id>>
  <2>1. q \in pending /\ q \in held
    BY DEF EntryFor, RpcInv
  <2>2. /\ r \in Reqs /\ r[1] = q.client /\ r \in asked /\ replies[r] = <<>>
        /\ q.client \in clients \cup broken
    BY <2>1 DEF RpcInv, TypeOK, Entries, Reqs, ClientsKnown
  <2>3. Reply(r, <<p.client, p.id>>, ok, rest)
    BY <1>7
  <2>. HIDE DEF r
  <2>4. /\ \A x \in Reqs \ {r} : RequestKept(x)
        /\ clients' \subseteq clients
        /\ Written(r[1]) => replies'[r] # <<>>
        /\ ~Written(r[1]) => replies' = replies
    BY <1>7, <2>2, <2>3, ReplyKeepsOthers
  <2>5. CASE Written(r[1])
    BY <1>7, <2>2, <2>4, <2>5 DEF Written, OneMoves, RequestMoved
  <2>6. CASE ~Written(r[1])
    BY <1>1, <1>7, <2>4, <2>6
  <2>. QED BY <2>5, <2>6
<1>8. ASSUME NEW p \in held, NEW o \in {"ok", "error", "already"},
             AnswerRequest(p, o) \/ AnswerInitialize(p, o)
      PROVE  OneMoves
  BY <1>7, <1>8 DEF AnswerRequest, AnswerInitialize, InitializeReply
<1>9. ASSUME \/ \E c \in Clients, th \in Threads, t \in Turns \cup {NoTurn} : UserMessage(c, th, t)
             \/ \E s \in Questions : Resolved(s)
             \/ \E th \in Threads, kind \in {"item", "delta"} : Notification(kind, th)
             \/ \E th \in Threads, t \in Turns : TurnStarted(th, t)
             \/ \E th \in Threads, t \in Turns \cup {NoTurn} : TurnCompleted(th, t)
      PROVE  OneMoves
  <2>1. \E ms : Publish(ms)
    BY <1>9 DEF UserMessage, Resolved, Notification, TurnStarted, TurnCompleted
  <2>2. UNCHANGED <<asked, replies>>
    BY <1>9 DEF UserMessage, Resolved, Notification, TurnStarted, TurnCompleted
  <2>. QED BY <1>2, <2>1, <2>2
<1>10. ASSUME \/ StartExpires \/ NoteAges \/ ChildDies \/ ChildExits \/ UNCHANGED vars
              \/ \E c \in Clients : WriteFails(c) \/ Disconnect(c)
              \/ \E c \in Clients, s \in Questions : AnswerQuestion(c, s)
              \/ \E s \in Questions : AskQuestion(s)
              \/ \E p \in held, o \in {"ok", "error", "already"} : AnswerUnknown(p, o)
       PROVE  OneMoves
  BY <1>1, <1>10
  DEF StartExpires, NoteAges, ChildDies, ChildExits, WriteFails, Disconnect, AnswerQuestion,
      AskQuestion, AnswerUnknown, vars, muxVars, envVars, histVars
<1>. QED
  BY <1>3, <1>5, <1>6, <1>8, <1>9, <1>10 DEF Next, ClientStep, ChildStep, ChildAnswer

\* How far a request has come, as SharedAppServer sees it.
AbstractIs ==
    \A r \in Reqs :
        /\ r \notin asked => AbstractReq[r] = "new"
        /\ r \in asked /\ replies[r] # <<>> => AbstractReq[r] = "answered"
        /\ r \in asked /\ replies[r] = <<>> =>
              AbstractReq[r] = IF r[1] \in clients THEN "open" ELSE "lost"

LEMMA AbstractValue == TypeOK /\ RpcInv => AbstractIs
<1>. SUFFICES ASSUME TypeOK, RpcInv, NEW r \in Reqs
              PROVE  /\ r \notin asked => AbstractReq[r] = "new"
                     /\ r \in asked /\ replies[r] # <<>> => AbstractReq[r] = "answered"
                     /\ r \in asked /\ replies[r] = <<>> =>
                           AbstractReq[r] = IF r[1] \in clients THEN "open" ELSE "lost"
  BY DEF AbstractIs
<1>1. replies[r] \in Seq(Replies) /\ Len(replies[r]) <= 1
  BY DEF TypeOK, RpcInv, ResponsesReachAsker
<1>2. CASE r \notin asked
  BY <1>2 DEF AbstractReq
<1>3. CASE r \in asked /\ replies[r] # <<>>
  <2>1. Len(replies[r]) = 1
    <3>1. \A seq \in Seq(Replies) : seq # <<>> => Len(seq) \in Nat \ {0}
      BY EmptySeq
    <3>. DEFINE len == Len(replies[r])
    <3>2. len \in Nat \ {0} /\ len <= 1
      BY <1>1, <1>3, <3>1
    <3>. HIDE DEF len
    <3>3. len = 1
      BY <3>2
    <3>. QED BY <3>3 DEF len
  <2>. QED BY <1>3, <2>1 DEF AbstractReq
<1>4. CASE r \in asked /\ replies[r] = <<>>
  BY <1>4 DEF AbstractReq
<1>. QED BY <1>2, <1>3, <1>4

LEMMA AbstractValueNext == (TypeOK /\ RpcInv)' => AbstractIs'
BY AbstractValue, PTL

\* A step moves one request, and gives up others.
LEMMA AbstractRequestStep ==
    ASSUME TypeOK, RpcInv, ClientsKnown, [Next]_vars, TypeOK', RpcInv'
    PROVE  Abstract!RequestStep
<1>. DEFINE Val(r) == AbstractReq[r]
            New(r) == AbstractReq'[r]
<1>0. AbstractIs /\ AbstractIs'
  BY AbstractValue, AbstractValueNext
<1>1. ASSUME NEW r \in Reqs, RequestKept(r)
      PROVE  \/ New(r) = Val(r)
             \/ Val(r) = "open" /\ New(r) = "lost"
  BY <1>0, <1>1 DEF RequestKept, AbstractIs
<1>2. ASSUME NEW r \in Reqs, RequestMoved(r)
      PROVE  <<Val(r), New(r)>> \in Abstract!Moves
  BY <1>0, <1>2 DEF RequestMoved, Abstract!Moves, AbstractIs
<1>3. AbstractReq' \in [Reqs -> {"new", "open", "answered", "lost"}]
  <2>1. \A r \in Reqs : New(r) \in {"new", "open", "answered", "lost"}
    BY <1>0 DEF AbstractIs
  <2>. QED BY <2>1 DEF AbstractReq
<1>4. PICK m \in Reqs \cup {NoReq} :
         /\ m \in Reqs => RequestMoved(m)
         /\ \A x \in Reqs \ {m} : RequestKept(x)
  <2>1. NoReq \notin Reqs
    BY DEF NoReq, Reqs
  <2>. QED BY <2>1, RequestsMove DEF OneMoves
<1>5. \A r \in Reqs : New(r) = Val(r) \/ <<Val(r), New(r)>> \in Abstract!Moves
  <2>1. <<"open", "lost">> \in Abstract!Moves
    BY DEF Abstract!Moves
  <2>. HIDE DEF Val, New
  <2>. QED BY <1>1, <1>2, <1>4, <2>1
<1>6. \A r, x \in Reqs : (New(r) # Val(r) /\ New(x) # Val(x) /\ r # x)
                            => "lost" \in {New(r), New(x)}
  <2>. HIDE DEF Val, New
  <2>. QED BY <1>1, <1>4
<1>. QED BY <1>3, <1>5, <1>6 DEF Abstract!RequestStep

\* To its clients and to the child, the mux is the app-server of each and the
\* one client of the other: AbstractReq maps its every step to one of theirs.
THEOREM Implements == Spec => ImplementsSharedAppServer
<1>1. Init => Abstract!AbsInit
  BY DEF Init, Abstract!AbsInit, AbstractReq
<1>2. /\ TypeOK /\ RpcInv /\ ClientsKnown /\ QuestionsInv /\ [Next]_vars /\ TypeOK' /\ RpcInv'
      => QuestionsInv' /\ [Abstract!AbsNext]_(Abstract!absVars)
  BY QuestionsMove, AbstractRequestStep DEF Abstract!AbsNext
<1>3. TypeOK /\ QuestionsInv /\ [Next]_vars => QuestionsInv'
  BY QuestionsMove
<1>. QED
  BY <1>1, <1>2, <1>3, TypeCorrect, RpcCorrect, ClientsCorrect, QuestionsInit, PTL
  DEF Spec, ImplementsSharedAppServer, Abstract!AbsSpec
=============================================================================
