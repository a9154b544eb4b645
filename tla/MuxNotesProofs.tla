---------------------------- MODULE MuxNotesProofs ----------------------------
(***************************************************************************)
(* Proofs about the notifications of Mux, for any clients, turns and       *)
(* limits: whom they reach, what the replay buffer may have lost, and what *)
(* the mux makes of the turns they tell of.                                *)
(*                                                                         *)
(* Behind and Reach say what a broadcast does to the stream and to those   *)
(* it is written to; NoteMove, StreamMove and ReplayMove sort the steps.   *)
(***************************************************************************)
EXTENDS MuxProofs

\* The kinds of notifications that say nothing of a turn's life.
PlainKinds == {"item", "delta", "echo", "resolved"}

\* What no broadcast changes.
AsideVars == <<info, initAt, ready, replayed, asked, replies, aged, link>>

PlainNote ==
    \E note \in Notes :
        /\ note.kind \in PlainKinds /\ note.from = NoReq
        /\ Publish(<<note>>)
        /\ UNCHANGED <<activeTurns, starts>>

\* A note is broadcast.
NoteMoves ==
    /\ UNCHANGED AsideVars
    /\ \/ PlainNote
       \/ \E th \in Threads, t \in Turns : TurnStarted(th, t)
       \/ \E th \in Threads, t \in Turns \cup {NoTurn} : TurnCompleted(th, t)

LEMMA NoteMove ==
    ASSUME TypeOK,
           \/ \E c \in Clients, th \in Threads, t \in Turns \cup {NoTurn} : UserMessage(c, th, t)
           \/ \E s \in Questions : Resolved(s)
           \/ \E th \in Threads, kind \in {"item", "delta"} : Notification(kind, th)
           \/ \E th \in Threads, t \in Turns : TurnStarted(th, t)
           \/ \E th \in Threads, t \in Turns \cup {NoTurn} : TurnCompleted(th, t)
    PROVE  NoteMoves
<1>1. ASSUME NEW c \in Clients, NEW th \in Threads, NEW t \in Turns \cup {NoTurn},
             UserMessage(c, th, t)
      PROVE  PlainNote /\ UNCHANGED AsideVars
  <2>. DEFINE turn == IF t = NoTurn THEN activeTurns[th] ELSE t
              note == [kind |-> "echo", thread |-> th, turn |-> turn, from |-> NoReq]
  <2>1. note \in Notes /\ note.kind \in PlainKinds /\ note.from = NoReq
    BY DEF TypeOK, Notes, Kinds, PlainKinds
  <2>2. Publish(<<note>>) /\ UNCHANGED <<activeTurns, starts>> /\ UNCHANGED AsideVars
    BY <1>1 DEF UserMessage, AsideVars, envVars
  <2>. HIDE DEF note
  <2>. QED BY <2>1, <2>2 DEF PlainNote
<1>2. ASSUME NEW s \in Questions, Resolved(s)
      PROVE  PlainNote /\ UNCHANGED AsideVars
  <2>. DEFINE note == [kind |-> "resolved", thread |-> NoThread, turn |-> NoTurn,
                       from |-> NoReq]
  <2>1. note \in Notes /\ note.kind \in PlainKinds /\ note.from = NoReq
    BY DEF Notes, Kinds, PlainKinds
  <2>2. Publish(<<note>>) /\ UNCHANGED <<activeTurns, starts>> /\ UNCHANGED AsideVars
    BY <1>2 DEF Resolved, AsideVars, envVars
  <2>. HIDE DEF note
  <2>. QED BY <2>1, <2>2 DEF PlainNote
<1>3. ASSUME NEW th \in Threads, NEW kind \in {"item", "delta"}, Notification(kind, th)
      PROVE  PlainNote /\ UNCHANGED AsideVars
  <2>. DEFINE note == [kind |-> kind, thread |-> th, turn |-> NoTurn, from |-> NoReq]
  <2>1. note \in Notes /\ note.kind \in PlainKinds /\ note.from = NoReq
    BY DEF Notes, Kinds, PlainKinds
  <2>2. Publish(<<note>>) /\ UNCHANGED <<activeTurns, starts>> /\ UNCHANGED AsideVars
    BY <1>3 DEF Notification, AsideVars, envVars
  <2>. HIDE DEF note
  <2>. QED BY <2>1, <2>2 DEF PlainNote
<1>4. ASSUME \/ \E th \in Threads, t \in Turns : TurnStarted(th, t)
             \/ \E th \in Threads, t \in Turns \cup {NoTurn} : TurnCompleted(th, t)
      PROVE  UNCHANGED AsideVars
  BY <1>4 DEF TurnStarted, TurnCompleted, AsideVars, envVars
<1>. QED
  BY <1>1, <1>2, <1>3, <1>4 DEF NoteMoves

\* A step broadcasts a note, or leaves the notes and the turns alone.
LEMMA StreamMove ==
    ASSUME TypeOK, [Next]_vars
    PROVE  NoteMoves \/ UNCHANGED <<notes, live, activeTurns>>
<1>1. ASSUME NEW c \in Clients,
             \/ Connect(c) \/ WriteFails(c) \/ Disconnect(c)
             \/ \E i \in Ids : Initialize(c, i)
             \/ \E i \in Ids, call \in Calls : Request(c, i, call)
             \/ \E s \in Questions : AnswerQuestion(c, s)
      PROVE  UNCHANGED <<notes, live, activeTurns>>
  BY <1>1 DEF Connect, WriteFails, Disconnect, Initialize, Request, AnswerQuestion,
              muxVars, histVars
<1>2. ASSUME \/ \E p \in held : ChildAnswer(p)
             \/ \E s \in Questions : AskQuestion(s)
             \/ ChildDies \/ ChildExits \/ StartExpires \/ NoteAges \/ UNCHANGED vars
      PROVE  UNCHANGED <<notes, live, activeTurns>>
  BY <1>2
  DEF ChildAnswer, AnswerUnknown, AnswerRequest, AnswerInitialize, AskQuestion,
      ChildDies, ChildExits, StartExpires, NoteAges, vars, muxVars, histVars
<1>. QED
  BY <1>1, <1>2, NoteMove DEF Next, ClientStep, ChildStep

\* The notes ms are put behind those there are.
Behind(ms) ==
    /\ DOMAIN notes = 1..Len(notes) /\ Len(notes) \in Nat
    /\ DOMAIN notes' = 1..(Len(notes) + Len(ms))
    /\ Len(notes') = Len(notes) + Len(ms)
    /\ \A n \in DOMAIN notes : notes'[n] = notes[n]
    /\ \A n \in DOMAIN notes' : n > Len(notes) => notes'[n] = ms[n - Len(notes)]

LEMMA PublishBehind ==
    ASSUME TypeOK, NEW ms \in Seq(Notes), Publish(ms)
    PROVE  Behind(ms)
<1>1. notes \in Seq(Notes) /\ notes' = notes \o ms
  BY DEF TypeOK, Publish
<1>2. /\ notes' \in Seq(Notes) /\ Len(notes') = Len(notes) + Len(ms)
      /\ \A n \in 1..Len(notes) + Len(ms) :
            notes'[n] = IF n <= Len(notes) THEN notes[n] ELSE ms[n - Len(notes)]
  BY <1>1, ConcatProperties
<1>3. DOMAIN notes = 1..Len(notes) /\ Len(notes) \in Nat /\ Len(ms) \in Nat
      /\ DOMAIN notes' = 1..Len(notes')
  BY <1>1, <1>2, LenProperties
<1>. QED BY <1>2, <1>3 DEF Behind

\* Whom they reach: the clients that see them, unless writes to them fail.
Reach(ms) ==
    \A c \in Clients :
        /\ live[c] \subseteq live'[c]
        /\ \A n \in live'[c] \ live[c] :
              n \in DOMAIN notes' /\ n > Len(notes) /\ Visible(info[c], notes'[n])
        /\ c \in clients' =>
              /\ c \in clients
              /\ \A n \in DOMAIN notes' :
                    n > Len(notes) /\ Visible(info[c], notes'[n]) => n \in live'[c]

LEMMA PublishReaches ==
    ASSUME TypeOK, NEW ms \in Seq(Notes), Publish(ms)
    PROVE  Reach(ms)
<1>. DEFINE fresh == (Len(notes) + 1)..Len(notes')
            sent(c) == {n \in fresh : Visible(info[c], notes'[n])}
            gone == {c \in clients \cap broken : sent(c) # {}}
<1>1. notes' = notes \o ms
  BY DEF Publish
<1>2. /\ live' = [c \in Clients |-> IF c \in Receivers THEN live[c] \cup sent(c) ELSE live[c]]
      /\ clients' = clients \ gone
  BY <1>1 DEF Publish
<1>3. Behind(ms) /\ Len(ms) \in Nat
  BY PublishBehind
<1>4. \A n : n \in fresh <=> n \in DOMAIN notes' /\ n > Len(notes)
  BY <1>3 DEF Behind
<1>. HIDE DEF fresh
<1>. QED BY <1>2, <1>4 DEF Reach, Receivers

\* The notes of turn/started and turn/completed.
StartedNote(th, t) == [kind |-> "started", thread |-> th, turn |-> t, from |-> NoReq]
EchoNote(th, t, e) == [kind |-> "echo", thread |-> th, turn |-> t, from |-> e.key]
CompletedNote(th, t) == [kind |-> "completed", thread |-> th, turn |-> t, from |-> NoReq]

LEMMA TurnNotes ==
    ASSUME TypeOK, NEW th \in Threads, NEW t \in Turns \cup {NoTurn}
    PROVE  /\ StartedNote(th, t) \in Notes
           /\ CompletedNote(th, t) \in Notes
           /\ \A e \in starts : EchoNote(th, t, e) \in Notes
<1>1. \A e \in starts : e.key \in Reqs
  BY DEF TypeOK, Starts
<1>. QED BY <1>1 DEF StartedNote, EchoNote, CompletedNote, Notes, Kinds

LEMMA StartedIs ==
    ASSUME TypeOK, NEW th \in Threads, NEW t \in Turns, TurnStarted(th, t)
    PROVE  \/ /\ <<StartedNote(th, t)>> \in Seq(Notes) /\ Publish(<<StartedNote(th, t)>>)
              /\ UNCHANGED starts
           \/ \E e \in starts :
                 /\ <<StartedNote(th, t), EchoNote(th, t, e)>> \in Seq(Notes)
                 /\ Publish(<<StartedNote(th, t), EchoNote(th, t, e)>>)
                 /\ starts' = starts \ {e}
<1>1. CASE Publish(<<StartedNote(th, t)>>) /\ UNCHANGED starts
  BY <1>1, TurnNotes
<1>2. CASE \E e \in OldestStart(th) : /\ Publish(<<StartedNote(th, t), EchoNote(th, t, e)>>)
                                      /\ starts' = starts \ {e}
  BY <1>2, TurnNotes DEF OldestStart
<1>. QED BY <1>1, <1>2 DEF TurnStarted, StartedNote, EchoNote

LEMMA Broadcasts ==
    ASSUME TypeOK,
           \/ PlainNote
           \/ \E th \in Threads, t \in Turns : TurnStarted(th, t)
           \/ \E th \in Threads, t \in Turns \cup {NoTurn} : TurnCompleted(th, t)
    PROVE  \E ms \in Seq(Notes) : Publish(ms)
<1>1. CASE PlainNote
  <2>1. PICK note \in Notes : Publish(<<note>>)
    BY <1>1 DEF PlainNote
  <2>2. <<note>> \in Seq(Notes)
    OBVIOUS
  <2>. QED BY <2>1, <2>2
<1>2. ASSUME NEW th \in Threads, NEW t \in Turns, TurnStarted(th, t)
      PROVE  \E ms \in Seq(Notes) : Publish(ms)
  BY <1>2, StartedIs
<1>3. ASSUME NEW th \in Threads, NEW t \in Turns \cup {NoTurn}, TurnCompleted(th, t)
      PROVE  \E ms \in Seq(Notes) : Publish(ms)
  <2>1. Publish(<<CompletedNote(th, t)>>)
    BY <1>3 DEF TurnCompleted, CompletedNote
  <2>2. <<CompletedNote(th, t)>> \in Seq(Notes)
    BY TurnNotes
  <2>. QED BY <2>1, <2>2
<1>. QED BY <1>1, <1>2, <1>3

-----------------------------------------------------------------------------
(* Synthetic messages *)

LEMMA InitializeReplyEchoes ==
    ASSUME TypeOK, EchoesOffDesktop, NEW c \in Clients, NEW i, NEW origin, NEW p,
           InitializeReply(c, i, info'[c], origin, p), UNCHANGED <<notes, live>>,
           \A x \in Clients : info'[x] = info[x] \/ info[x] = "none"
    PROVE  EchoesOffDesktop'
<1>1. \A x \in Clients : info'[x] # "mobile" => info[x] # "mobile"
  OBVIOUS
<1>2. \A x \in Clients : \A n \in replayed'[x] :
         n \in replayed[x] \/ (x = c /\ n \in ReplayTo(c, info'[c], Prune(replayBuffer)))
  BY DEF InitializeReply, TypeOK
<1>3. \A n \in ReplayTo(c, info'[c], Prune(replayBuffer)) : Visible(info'[c], notes[n])
  BY DEF ReplayTo
<1>. QED BY <1>1, <1>2, <1>3 DEF EchoesOffDesktop, Visible

LEMMA EchoesStep ==
    ASSUME TypeOK, EchoesOffDesktop, [Next]_vars
    PROVE  EchoesOffDesktop'
<1>1. ASSUME UNCHANGED <<notes, live, replayed, info>>
      PROVE  EchoesOffDesktop'
  BY <1>1 DEF EchoesOffDesktop
<1>2. ASSUME NEW ms \in Seq(Notes), Publish(ms), UNCHANGED <<info, replayed>>
      PROVE  EchoesOffDesktop'
  <2>1. SUFFICES ASSUME NEW c \in Clients, info[c] # "mobile", NEW n \in live'[c] \cup replayed[c]
                 PROVE  notes'[n].kind # "echo"
    BY <1>2 DEF EchoesOffDesktop
  <2>2. CASE n \in live[c] \cup replayed[c]
    <3>1. n \in DOMAIN notes /\ notes[n].kind # "echo"
      BY <2>1, <2>2 DEF EchoesOffDesktop, TypeOK
    <3>. QED BY <1>2, <3>1, PublishBehind DEF Behind
  <2>3. CASE n \in live'[c] \ live[c]
    BY <1>2, <2>1, <2>3, PublishReaches DEF Reach, Visible
  <2>. QED BY <2>1, <2>2, <2>3
<1>3. ASSUME NEW c \in Clients, NEW i \in Ids, Initialize(c, i)
      PROVE  EchoesOffDesktop'
  <2>. DEFINE inf == IF c \in Mobile THEN "mobile" ELSE "desktop"
  <2>1. /\ info[c] = "none" /\ info' = [info EXCEPT ![c] = inf] /\ UNCHANGED <<notes, live>>
    BY <1>3 DEF Initialize
  <2>2. info'[c] = inf /\ \A x \in Clients : info'[x] = info[x] \/ info[x] = "none"
    BY <2>1 DEF TypeOK
  <2>3. CASE InitializeReply(c, i, inf, NoReq, pending)
    <3>1. InitializeReply(c, i, info'[c], NoReq, pending)
      BY <2>2, <2>3
    <3>. HIDE DEF inf
    <3>. QED BY <2>1, <2>2, <3>1, InitializeReplyEchoes
  <2>4. CASE replayed' = replayed
    <3>1. \A x \in Clients : info'[x] # "mobile" => info[x] # "mobile"
      BY <2>2
    <3>. QED BY <2>1, <2>4, <3>1 DEF EchoesOffDesktop
  <2>. QED BY <1>3, <2>3, <2>4 DEF Initialize
<1>4. ASSUME NEW p \in held, NEW o \in {"ok", "error", "already"}, AnswerInitialize(p, o)
      PROVE  EchoesOffDesktop'
  <2>1. PICK q \in EntryFor(p) :
           InitializeReply(q.client, q.id, info[q.client], <<p.client, p.id>>,
                           pending \ {q})
    BY <1>4 DEF AnswerInitialize
  <2>2. q.client \in Clients
    BY DEF EntryFor, TypeOK, Entries
  <2>3. UNCHANGED <<info, notes, live>>
    BY <1>4 DEF AnswerInitialize
  <2>4. InitializeReply(q.client, q.id, info'[q.client], <<p.client, p.id>>, pending \ {q})
    BY <2>1, <2>3
  <2>. QED BY <2>2, <2>3, <2>4, InitializeReplyEchoes
<1>5. ASSUME \/ PlainNote
             \/ \E th \in Threads, t \in Turns : TurnStarted(th, t)
             \/ \E th \in Threads, t \in Turns \cup {NoTurn} : TurnCompleted(th, t),
             UNCHANGED AsideVars
      PROVE  EchoesOffDesktop'
  BY <1>2, <1>5, Broadcasts DEF AsideVars
<1>6. ASSUME UNCHANGED <<notes, live>>,
             \/ \E c \in Clients : \/ Connect(c) \/ WriteFails(c) \/ Disconnect(c)
                                   \/ \E i \in Ids, call \in Calls : Request(c, i, call)
                                   \/ \E s \in Questions : AnswerQuestion(c, s)
                                   \/ \E th \in Threads, t \in Turns \cup {NoTurn} :
                                         UserMessage(c, th, t)
             \/ \E s \in Questions : AskQuestion(s) \/ Resolved(s)
             \/ \E th \in Threads :
                   \/ \E kind \in {"item", "delta"} : Notification(kind, th)
                   \/ \E t \in Turns : TurnStarted(th, t)
                   \/ \E t \in Turns \cup {NoTurn} : TurnCompleted(th, t)
      PROVE  EchoesOffDesktop'
  <2>1. UNCHANGED <<info, replayed>>
    BY <1>6 DEF Connect, WriteFails, Disconnect, Request, AnswerQuestion, UserMessage, AskQuestion,
                Resolved, Notification, TurnStarted, TurnCompleted, muxVars, histVars
  <2>. QED BY <1>1, <1>6, <2>1
<1>7. ASSUME \/ \E p \in held, o \in {"ok", "error", "already"} :
                   AnswerUnknown(p, o) \/ AnswerRequest(p, o)
             \/ ChildDies \/ ChildExits \/ StartExpires \/ NoteAges \/ UNCHANGED vars
      PROVE  EchoesOffDesktop'
  BY <1>1, <1>7
  DEF AnswerUnknown, AnswerRequest, ChildDies, ChildExits, StartExpires, NoteAges, vars,
      muxVars, histVars
<1>. QED
  BY <1>3, <1>4, <1>5, <1>6, <1>7, StreamMove
  DEF NoteMoves, Next, ClientStep, ChildStep, ChildAnswer

\* Nobody but Mobile Web is ever sent a synthetic user message, live or as
\* replay, not even a client that has not said yet who it is (messageForClient).
THEOREM EchoesOffDesktopHolds == Spec => []EchoesOffDesktop
<1>1. Init => EchoesOffDesktop
  BY DEF Init, EchoesOffDesktop
<1>2. TypeOK /\ EchoesOffDesktop /\ [Next]_vars => EchoesOffDesktop'
  BY EchoesStep
<1>. QED
  BY <1>1, <1>2, TypeCorrect, PTL DEF Spec

-----------------------------------------------------------------------------
(* The active turns *)

\* What ends the time of turn t as the active one of thread th.
Ends(note, th, t) ==
    \/ note.kind = "started" /\ note.thread = th
    \/ note.kind = "completed" /\ note.thread = th /\ note.turn \in {t, NoTurn}

\* The notes say that turn t of thread th was started and is active since.
Stands(th, t) ==
    \E n \in DOMAIN notes :
        /\ NoteIs(n, "started", th, t)
        /\ \A m \in DOMAIN notes : m > n => ~Ends(notes[m], th, t)

LEMMA StandsIsActive ==
    ActiveTurnFollowsStream <=>
        \A th \in Threads, t \in Turns : activeTurns[th] = t <=> Stands(th, t)
BY DEF ActiveTurnFollowsStream, Stands, Ends, NoteIs

LEMMA StandsIsActiveNext ==
    ActiveTurnFollowsStream' <=>
        \A th \in Threads, t \in Turns : activeTurns'[th] = t <=> Stands(th, t)'
BY DEF ActiveTurnFollowsStream, Stands, Ends, NoteIs

LEMMA NeutralNotes ==
    ASSUME NEW ms, Len(ms) \in Nat, Behind(ms), NEW th, NEW t,
           \A i \in 1..Len(ms) : ~Ends(ms[i], th, t)
    PROVE  Stands(th, t)' <=> Stands(th, t)
<1>1. ASSUME Stands(th, t) PROVE Stands(th, t)'
  <2>1. PICK n \in DOMAIN notes : /\ NoteIs(n, "started", th, t)
                                  /\ \A m \in DOMAIN notes : m > n => ~Ends(notes[m], th, t)
    BY <1>1 DEF Stands
  <2>2. n \in DOMAIN notes' /\ NoteIs(n, "started", th, t)'
    BY <2>1 DEF Behind, NoteIs
  <2>3. ASSUME NEW m \in DOMAIN notes', m > n PROVE ~Ends(notes'[m], th, t)
    <3>1. CASE m \in DOMAIN notes
      BY <2>1, <2>3, <3>1 DEF Behind
    <3>2. CASE m > Len(notes)
      BY <2>3, <3>2 DEF Behind
    <3>. QED BY <2>3, <3>1, <3>2 DEF Behind
  <2>. QED BY <2>2, <2>3 DEF Stands
<1>2. ASSUME Stands(th, t)' PROVE Stands(th, t)
  <2>1. PICK n \in DOMAIN notes' : /\ NoteIs(n, "started", th, t)'
                                   /\ \A m \in DOMAIN notes' : m > n => ~Ends(notes'[m], th, t)
    BY <1>2 DEF Stands
  <2>2. n \in DOMAIN notes
    <3>1. CASE n > Len(notes)
      <4>1. n - Len(notes) \in 1..Len(ms) /\ notes'[n] = ms[n - Len(notes)]
        BY <2>1, <3>1 DEF Behind
      <4>2. Ends(notes'[n], th, t)
        BY <2>1 DEF NoteIs, Ends
      <4>. QED BY <4>1, <4>2
    <3>. QED BY <2>1, <3>1 DEF Behind
  <2>3. NoteIs(n, "started", th, t)
    BY <2>1, <2>2 DEF Behind, NoteIs
  <2>4. ASSUME NEW m \in DOMAIN notes, m > n PROVE ~Ends(notes[m], th, t)
    BY <2>1, <2>4 DEF Behind
  <2>. QED BY <2>2, <2>3, <2>4 DEF Stands
<1>. QED BY <1>1, <1>2

\* It is over once a note ends it and none starts it anew.
LEMMA EndingNotes ==
    ASSUME NEW ms, Len(ms) \in Nat, Behind(ms), NEW th, NEW t,
           NEW k \in 1..Len(ms), Ends(ms[k], th, t),
           \A i \in 1..Len(ms) : ~(ms[i].kind = "started" /\ ms[i].turn = t)
    PROVE  ~Stands(th, t)'
<1>1. SUFFICES ASSUME NEW n \in DOMAIN notes', NoteIs(n, "started", th, t)',
                      \A m \in DOMAIN notes' : m > n => ~Ends(notes'[m], th, t)
               PROVE  FALSE
  BY DEF Stands
<1>2. n <= Len(notes)
  BY <1>1 DEF Behind, NoteIs
<1>3. Len(notes) + k \in DOMAIN notes' /\ Len(notes) + k > n
  BY <1>1, <1>2 DEF Behind
<1>4. notes'[Len(notes) + k] = ms[k]
  BY <1>3 DEF Behind
<1>. QED BY <1>1, <1>3, <1>4

LEMMA StartingNotes ==
    ASSUME NEW ms, Len(ms) \in Nat, Len(ms) > 0, Behind(ms), NEW th, NEW t,
           ms[1] = StartedNote(th, t),
           \A i \in 2..Len(ms) : ~Ends(ms[i], th, t)
    PROVE  Stands(th, t)'
<1>. DEFINE n == Len(notes) + 1
<1>1. n \in DOMAIN notes' /\ notes'[n] = ms[1]
  BY DEF Behind
<1>2. ASSUME NEW m \in DOMAIN notes', m > n PROVE ~Ends(notes'[m], th, t)
  <2>1. m - Len(notes) \in 2..Len(ms) /\ notes'[m] = ms[m - Len(notes)]
    BY <1>2 DEF Behind
  <2>. QED BY <2>1
<1>. HIDE DEF n
<1>3. /\ notes'[n].kind = "started" /\ notes'[n].thread = th
      /\ notes'[n].turn = t
  BY <1>1 DEF StartedNote
<1>. QED BY <1>1, <1>2, <1>3 DEF Stands, NoteIs

LEMMA ActiveStep ==
    ASSUME TypeOK, ActiveTurnFollowsStream, [Next]_vars
    PROVE  ActiveTurnFollowsStream'
<1>1. ASSUME UNCHANGED <<notes, activeTurns>>
      PROVE  ActiveTurnFollowsStream'
  BY <1>1 DEF ActiveTurnFollowsStream, NoteIs
<1>2. CASE PlainNote
  <2>1. PICK note \in Notes : /\ note.kind \in PlainKinds
                              /\ Publish(<<note>>) /\ activeTurns' = activeTurns
    BY <1>2 DEF PlainNote
  <2>2. <<note>> \in Seq(Notes) /\ Len(<<note>>) = 1 /\ <<note>>[1] = note
    OBVIOUS
  <2>3. Behind(<<note>>)
    BY <2>1, <2>2, PublishBehind
  <2>4. \A th \in Threads, t \in Turns : Stands(th, t)' <=> Stands(th, t)
    <3>1. \A th \in Threads, t \in Turns : \A i \in 1..1 : ~Ends(<<note>>[i], th, t)
      BY <2>1, <2>2 DEF Ends, PlainKinds
    <3>. QED BY <2>2, <2>3, <3>1, NeutralNotes
  <2>. QED BY <2>1, <2>4, StandsIsActive, StandsIsActiveNext
<1>3. ASSUME NEW th \in Threads, NEW t \in Turns \cup {NoTurn}, TurnCompleted(th, t)
      PROVE  ActiveTurnFollowsStream'
  <2>. DEFINE note == CompletedNote(th, t)
              ms == <<note>>
  <2>1. Publish(ms) /\ activeTurns' = AfterCompleted(th, t)
    BY <1>3 DEF TurnCompleted, CompletedNote
  <2>2. ms \in Seq(Notes) /\ Len(ms) = 1 /\ ms[1] = note
    BY TurnNotes
  <2>3. Behind(ms)
    BY <2>1, <2>2, PublishBehind
  <2>4. note.kind = "completed" /\ note.thread = th /\ note.turn = t
    BY DEF CompletedNote
  <2>. HIDE DEF note, ms
  <2>5. ASSUME NEW x \in Threads, NEW u \in Turns
        PROVE  activeTurns'[x] = u <=> Stands(x, u)'
    <3>1. activeTurns[x] = u <=> Stands(x, u)
      BY StandsIsActive
    <3>2. CASE x = th /\ (u = t \/ t = NoTurn)
      <4>1. Ends(ms[1], x, u) /\ \A i \in 1..Len(ms) : ~(ms[i].kind = "started" /\ ms[i].turn = u)
        BY <2>2, <2>4, <3>2 DEF Ends
      <4>2. ~Stands(x, u)'
        BY <2>2, <2>3, <4>1, EndingNotes
      <4>3. activeTurns'[x] # u
        BY <2>1, <3>2, NoTurnAssumption DEF AfterCompleted, TypeOK
      <4>. QED BY <4>2, <4>3
    <3>3. CASE x # th \/ (u # t /\ t # NoTurn)
      <4>1. \A i \in 1..Len(ms) : ~Ends(ms[i], x, u)
        BY <2>2, <2>4, <3>3 DEF Ends
      <4>2. Stands(x, u)' <=> Stands(x, u)
        BY <2>2, <2>3, <4>1, NeutralNotes
      <4>3. activeTurns'[x] = u <=> activeTurns[x] = u
        BY <2>1, <3>3, NoTurnAssumption DEF AfterCompleted, TypeOK
      <4>. QED BY <3>1, <4>2, <4>3
    <3>. QED BY <3>2, <3>3
  <2>. QED BY <2>5, StandsIsActiveNext
<1>4. ASSUME NEW th \in Threads, NEW t \in Turns, TurnStarted(th, t)
      PROVE  ActiveTurnFollowsStream'
  <2>1. activeTurns' = [activeTurns EXCEPT ![th] = t]
    BY <1>4 DEF TurnStarted
  <2>2. PICK ms \in Seq(Notes) :
           /\ Publish(ms) /\ Len(ms) \in Nat /\ Len(ms) > 0
           /\ ms[1] = StartedNote(th, t)
           /\ \A i \in 2..Len(ms) : ms[i].kind = "echo"
    <3>1. CASE <<StartedNote(th, t)>> \in Seq(Notes) /\ Publish(<<StartedNote(th, t)>>)
      <4>. DEFINE s == StartedNote(th, t)
      <4>. HIDE DEF s
      <4>1. Len(<<s>>) = 1 /\ <<s>>[1] = s
        OBVIOUS
      <4>2. <<s>> \in Seq(Notes) /\ Publish(<<s>>)
        BY <3>1 DEF s
      <4>3. s = StartedNote(th, t)
        BY DEF s
      <4>. DEFINE ms == <<s>>
      <4>4. \A i \in 2..Len(ms) : ms[i].kind = "echo"
        BY <4>1
      <4>5. ms \in Seq(Notes) /\ Publish(ms) /\ Len(ms) \in Nat /\ Len(ms) > 0
            /\ ms[1] = StartedNote(th, t)
        BY <4>1, <4>2, <4>3
      <4>. HIDE DEF ms
      <4>. QED BY <4>4, <4>5
    <3>2. ASSUME NEW e \in starts,
                 <<StartedNote(th, t), EchoNote(th, t, e)>> \in Seq(Notes),
                 Publish(<<StartedNote(th, t), EchoNote(th, t, e)>>)
          PROVE  \E ms \in Seq(Notes) :
                   /\ Publish(ms) /\ Len(ms) \in Nat /\ Len(ms) > 0
                   /\ ms[1] = StartedNote(th, t)
                   /\ \A i \in 2..Len(ms) : ms[i].kind = "echo"
      <4>. DEFINE s == StartedNote(th, t)
                  f == EchoNote(th, t, e)
      <4>0. f.kind = "echo"
        BY DEF EchoNote
      <4>. HIDE DEF s, f
      <4>1. Len(<<s, f>>) = 2 /\ <<s, f>>[1] = s /\ <<s, f>>[2] = f
        OBVIOUS
      <4>2. \A i \in 2..Len(<<s, f>>) : <<s, f>>[i].kind = "echo"
        BY <4>0, <4>1
      <4>3. <<s, f>> \in Seq(Notes) /\ Publish(<<s, f>>) /\ s = StartedNote(th, t)
        BY <3>2 DEF s, f
      <4>. DEFINE ms == <<s, f>>
      <4>4. /\ ms \in Seq(Notes) /\ Publish(ms) /\ Len(ms) \in Nat /\ Len(ms) > 0
            /\ ms[1] = StartedNote(th, t)
            /\ \A i \in 2..Len(ms) : ms[i].kind = "echo"
        BY <4>1, <4>2, <4>3
      <4>. HIDE DEF ms
      <4>. QED BY <4>4
    <3>. QED BY <1>4, <3>1, <3>2, StartedIs
  <2>3. Behind(ms)
    BY <2>2, PublishBehind
  <2>4. /\ ms[1].kind = "started" /\ ms[1].thread = th /\ ms[1].turn = t
        /\ 1 \in 1..Len(ms)
    BY <2>2 DEF StartedNote
  <2>5. ASSUME NEW x \in Threads, NEW u \in Turns
        PROVE  activeTurns'[x] = u <=> Stands(x, u)'
    <3>1. activeTurns[x] = u <=> Stands(x, u)
      BY StandsIsActive
    <3>2. \A i \in 2..Len(ms) : ~Ends(ms[i], x, u) /\ ms[i].kind # "started"
      BY <2>2 DEF Ends
    <3>3. \A i \in 1..Len(ms) : i = 1 \/ i \in 2..Len(ms)
      BY <2>2
    <3>4. CASE x = th /\ u = t
      <4>1. Stands(x, u)'
        BY <2>2, <2>3, <3>2, <3>4, StartingNotes
      <4>. QED BY <2>1, <3>4, <4>1 DEF TypeOK
    <3>5. CASE x = th /\ u # t
      <4>1. Ends(ms[1], x, u) /\ \A i \in 1..Len(ms) : ~(ms[i].kind = "started" /\ ms[i].turn = u)
        BY <2>4, <3>2, <3>3, <3>5 DEF Ends
      <4>2. ~Stands(x, u)'
        BY <2>2, <2>3, <2>4, <4>1, EndingNotes
      <4>. QED BY <2>1, <3>5, <4>2 DEF TypeOK
    <3>6. CASE x # th
      <4>1. \A i \in 1..Len(ms) : ~Ends(ms[i], x, u)
        BY <2>4, <3>2, <3>3, <3>6 DEF Ends
      <4>2. Stands(x, u)' <=> Stands(x, u)
        BY <2>2, <2>3, <4>1, NeutralNotes
      <4>. QED BY <2>1, <3>1, <3>6, <4>2 DEF TypeOK
    <3>. QED BY <3>4, <3>5, <3>6
  <2>. QED BY <2>5, StandsIsActiveNext
<1>. QED BY <1>1, <1>2, <1>3, <1>4, StreamMove DEF NoteMoves

\* The mux's idea of a thread's active turn is what the notifications say,
\* whatever order turns start and complete in (trackActiveTurn).
THEOREM ActiveTurnFollowsStreamHolds == Spec => []ActiveTurnFollowsStream
<1>1. Init => ActiveTurnFollowsStream
  <2>. SUFFICES ASSUME Init, NEW th \in Threads, NEW t \in Turns
                PROVE  activeTurns[th] # t /\ DOMAIN notes = {}
    BY DEF ActiveTurnFollowsStream
  <2>. QED BY NoTurnAssumption DEF Init
<1>2. TypeOK /\ ActiveTurnFollowsStream /\ [Next]_vars => ActiveTurnFollowsStream'
  BY ActiveStep
<1>. QED
  BY <1>1, <1>2, TypeCorrect, PTL DEF Spec

-----------------------------------------------------------------------------
(* Echoes of turn/start *)

\* No answer in seq, the answers to request k, is a refusal by the child.
NotRefused(seq, k) == \A j \in DOMAIN seq : seq[j].origin = k => seq[j].ok

\* A turn/start waits for its turn at most once, and no note is from a request
\* that has not been sent: a request sent now has neither.
EchoInv ==
    /\ \A e \in starts : e.key \in asked
    /\ \A e, f \in starts : e.key = f.key => e = f
    /\ \A n \in DOMAIN notes : notes[n].from \in asked \cup {NoReq}
    /\ EchoOncePerStart

LEMMA EchoParts ==
    EchoOncePerStart <=>
        /\ \A n, m \in DOMAIN notes :
              (/\ notes[n].kind = "echo" /\ notes[m].kind = "echo"
               /\ notes[n].from = notes[m].from /\ notes[n].from # NoReq) => n = m
        /\ \A e \in starts : /\ \A n \in DOMAIN notes : notes[n].from # e.key
                             /\ NotRefused(replies[e.key], e.key)
BY DEF EchoOncePerStart, NotRefused

\* While no note is broadcast, it is enough to look at the answers.
LEMMA EchoKept ==
    ASSUME EchoInv, notes' = notes, asked \subseteq asked', starts' \subseteq starts,
           \A e \in starts' : NotRefused(replies'[e.key], e.key)
    PROVE  EchoInv'
BY DEF EchoInv, EchoOncePerStart, NotRefused

\* The answer to a request that had none.
LEMMA FirstAnswer ==
    ASSUME TypeOK, NEW r \in Reqs, replies[r] = <<>>, NEW origin, NEW ok, NEW p,
           Reply(r, origin, ok, p), NEW k \in Reqs,
           NotRefused(replies[k], k), r = k /\ origin = k => ok
    PROVE  NotRefused(replies'[k], k)
<1>. DEFINE answer == [origin |-> origin, ok |-> ok]
<1>1. CASE ~Written(r[1])
  BY <1>1 DEF Reply
<1>2. CASE Written(r[1])
  <2>1. replies' = [replies EXCEPT ![r] = Append(<<>>, answer)]
    BY <1>2 DEF Reply
  <2>2. k # r => replies'[k] = replies[k]
    BY <2>1 DEF TypeOK
  <2>3. CASE k = r
    <3>1. replies'[k] = Append(<<>>, answer)
      BY <2>1, <2>3 DEF TypeOK
    <3>2. answer.origin = k => answer.ok
      BY <2>3
    <3>. HIDE DEF answer
    <3>3. Append(<<>>, answer) = <<answer>>
      OBVIOUS
    <3>4. DOMAIN <<answer>> = {1} /\ <<answer>>[1] = answer
      OBVIOUS
    <3>. QED BY <3>1, <3>2, <3>3, <3>4 DEF NotRefused
  <2>. QED BY <2>2, <2>3
<1>. QED BY <1>1, <1>2

\* Of the notes ms, those with a sender are from different ones, which have
\* waited for their turn until now.
EchoesOf(ms) ==
    /\ \A i \in 1..Len(ms) : ms[i].from = NoReq \/ \E e \in starts \ starts' : ms[i].from = e.key
    /\ \A i, j \in 1..Len(ms) : ms[i].from = ms[j].from /\ ms[i].from # NoReq => i = j

LEMMA EchoBroadcast ==
    ASSUME TypeOK, EchoInv, NEW ms, Len(ms) \in Nat, Behind(ms), EchoesOf(ms),
           UNCHANGED <<asked, replies>>, starts' \subseteq starts
    PROVE  EchoInv'
<1>1. \A e \in starts : e.key # NoReq
  <2>1. NoReq \notin Reqs
    BY DEF NoReq, Reqs
  <2>. QED BY <2>1 DEF TypeOK, Starts
<1>2. \A n \in DOMAIN notes' :
         \/ n \in DOMAIN notes /\ notes'[n] = notes[n]
         \/ n > Len(notes) /\ n - Len(notes) \in 1..Len(ms) /\ notes'[n] = ms[n - Len(notes)]
  BY DEF Behind
<1>3. \A n \in DOMAIN notes : n <= Len(notes)
  BY DEF Behind
<1>4. \A e \in starts : e.key \in asked /\ \A n \in DOMAIN notes : notes[n].from # e.key
  BY EchoParts DEF EchoInv
<1>5. \A n \in DOMAIN notes' : notes'[n].from \in asked \cup {NoReq}
  BY <1>2, <1>4 DEF EchoInv, EchoesOf
<1>6. ASSUME NEW n \in DOMAIN notes', NEW m \in DOMAIN notes',
             notes'[n].kind = "echo", notes'[m].kind = "echo",
             notes'[n].from = notes'[m].from, notes'[n].from # NoReq
      PROVE  n = m
  <2>1. CASE n \in DOMAIN notes /\ m \in DOMAIN notes
    BY <1>6, <2>1, EchoParts DEF EchoInv, Behind
  <2>2. CASE n > Len(notes) /\ m > Len(notes)
    <3>1. n - Len(notes) = m - Len(notes)
      BY <1>2, <1>3, <1>6, <2>2 DEF EchoesOf
    <3>. QED BY <3>1, <1>2, <1>3, <2>2 DEF Behind
  <2>3. CASE n \in DOMAIN notes /\ m > Len(notes)
    BY <1>2, <1>3, <1>4, <1>6, <2>3 DEF EchoesOf
  <2>4. CASE m \in DOMAIN notes /\ n > Len(notes)
    BY <1>2, <1>3, <1>4, <1>6, <2>4 DEF EchoesOf
  <2>. QED BY <1>2, <2>1, <2>2, <2>3, <2>4
<1>7. ASSUME NEW e \in starts' PROVE \A n \in DOMAIN notes' : notes'[n].from # e.key
  <2>1. \A f \in starts \ starts' : f.key # e.key
    BY <1>7 DEF EchoInv
  <2>. QED BY <1>1, <1>2, <1>4, <2>1 DEF EchoesOf
<1>8. \A e \in starts' : NotRefused(replies'[e.key], e.key)
  BY EchoParts DEF EchoInv
<1>9. /\ \A e \in starts' : e.key \in asked'
      /\ \A e, f \in starts' : e.key = f.key => e = f
  BY DEF EchoInv
<1>. QED BY <1>5, <1>6, <1>7, <1>8, <1>9 DEF EchoInv, EchoOncePerStart, NotRefused

LEMMA EchoStep ==
    ASSUME TypeOK, RpcInv, EchoInv, [Next]_vars
    PROVE  EchoInv'
<1>. DEFINE Sound == \A e \in starts' : NotRefused(replies'[e.key], e.key)
<1>0. /\ \A e \in starts : e.key \in Reqs /\ NotRefused(replies[e.key], e.key)
      /\ NoReq \notin Reqs
  BY EchoParts DEF EchoInv, TypeOK, Starts, NoReq, Reqs
<1>1. ASSUME UNCHANGED <<notes, asked, replies>>, starts' \subseteq starts
      PROVE  EchoInv'
  BY <1>0, <1>1, EchoKept
\* Broadcasts
<1>2. ASSUME NEW ms \in Seq(Notes), Publish(ms), EchoesOf(ms), UNCHANGED <<asked, replies>>,
             starts' \subseteq starts
      PROVE  EchoInv'
  BY <1>2, PublishBehind, EchoBroadcast
<1>3. ASSUME NEW note \in Notes, note.from = NoReq, Publish(<<note>>),
             UNCHANGED <<asked, replies, starts>>
      PROVE  EchoInv'
  <2>1. <<note>> \in Seq(Notes) /\ Len(<<note>>) = 1 /\ <<note>>[1] = note
    OBVIOUS
  <2>2. EchoesOf(<<note>>)
    BY <1>3, <2>1 DEF EchoesOf
  <2>. QED BY <1>2, <1>3, <2>1, <2>2
<1>4. ASSUME PlainNote, UNCHANGED AsideVars
      PROVE  EchoInv'
  BY <1>3, <1>4 DEF PlainNote, AsideVars
<1>5. ASSUME NEW th \in Threads, NEW t \in Turns \cup {NoTurn}, TurnCompleted(th, t)
      PROVE  EchoInv'
  <2>1. Publish(<<CompletedNote(th, t)>>) /\ UNCHANGED <<asked, replies, starts>>
    BY <1>5 DEF TurnCompleted, CompletedNote
  <2>2. CompletedNote(th, t) \in Notes /\ CompletedNote(th, t).from = NoReq
    BY TurnNotes DEF CompletedNote
  <2>. QED BY <1>3, <2>1, <2>2
<1>6. ASSUME NEW th \in Threads, NEW t \in Turns, TurnStarted(th, t)
      PROVE  EchoInv'
  <2>1. UNCHANGED <<asked, replies>>
    BY <1>6 DEF TurnStarted
  <2>2. StartedNote(th, t) \in Notes /\ StartedNote(th, t).from = NoReq
    BY TurnNotes DEF StartedNote
  <2>3. CASE Publish(<<StartedNote(th, t)>>) /\ UNCHANGED starts
    BY <1>3, <2>1, <2>2, <2>3
  <2>4. ASSUME NEW e \in starts,
               <<StartedNote(th, t), EchoNote(th, t, e)>> \in Seq(Notes),
               Publish(<<StartedNote(th, t), EchoNote(th, t, e)>>),
               starts' = starts \ {e}
        PROVE  EchoInv'
    <3>. DEFINE s == StartedNote(th, t)
                f == EchoNote(th, t, e)
    <3>1. s.from = NoReq /\ f.from = e.key /\ e.key # NoReq
      BY <1>0 DEF StartedNote, EchoNote
    <3>2. <<s, f>> \in Seq(Notes) /\ Publish(<<s, f>>)
      BY <2>4
    <3>. HIDE DEF s, f
    <3>3. Len(<<s, f>>) = 2 /\ <<s, f>>[1] = s /\ <<s, f>>[2] = f
      OBVIOUS
    <3>4. EchoesOf(<<s, f>>)
      BY <2>4, <3>1, <3>3 DEF EchoesOf
    <3>. QED BY <1>2, <2>1, <2>4, <3>2, <3>4
  <2>. QED BY <1>6, <2>3, <2>4, StartedIs
\* Requests
<1>7. ASSUME NEW c \in Clients, NEW i \in Ids, Fresh(c, i), NEW k \in Reqs,
             NotRefused(replies[k], k),
             \/ \E inf : InitializeReply(c, i, inf, NoReq, pending)
             \/ \E call : Forward(c, i, call)
      PROVE  NotRefused(replies'[k], k)
  <2>1. <<c, i>> \in Reqs /\ replies[<<c, i>>] = <<>>
    BY <1>7 DEF Fresh, Reqs, RpcInv
  <2>2. CASE \E ok, p : Reply(<<c, i>>, NoReq, ok, p)
    BY <1>0, <1>7, <2>1, <2>2, FirstAnswer
  <2>3. CASE replies' = replies
    BY <1>7, <2>3
  <2>. QED BY <1>7, <2>2, <2>3 DEF InitializeReply, Forward
<1>8. ASSUME NEW c \in Clients, NEW i \in Ids, Initialize(c, i)
      PROVE  EchoInv'
  <2>1. Fresh(c, i) /\ asked \subseteq asked' /\ UNCHANGED <<notes, starts>>
    BY <1>8 DEF Initialize
  <2>2. Sound
    BY <1>0, <1>7, <1>8, <2>1 DEF Initialize
  <2>. QED BY <2>1, <2>2, EchoKept
<1>9. ASSUME NEW c \in Clients, NEW i \in Ids, NEW call \in Calls, Request(c, i, call)
      PROVE  EchoInv'
  <2>. DEFINE r == <<c, i>>
  <2>1. /\ Fresh(c, i) /\ asked' = asked \cup {r} /\ notes' = notes
        /\ starts' = Remember(c, i, call) /\ Forward(c, i, call)
    BY <1>9 DEF Request
  <2>2. /\ r \in Reqs /\ r \notin asked /\ NotRefused(replies[r], r)
        /\ \A n \in DOMAIN notes : notes[n].from # r
        /\ \A e \in starts : e.key # r
    BY <1>0, <2>1 DEF Fresh, Reqs, RpcInv, NotRefused, EchoInv
  <2>3. \A e \in starts' : e \in starts \/ e.key = r
    BY <2>1 DEF Remember, InternalId
  <2>4. \A e, f \in starts' : e.key = f.key => e = f
    BY <2>1, <2>2 DEF Remember, InternalId, EchoInv
  <2>5. Sound
    <3>1. \A k \in Reqs : NotRefused(replies[k], k) => NotRefused(replies'[k], k)
      BY <1>7, <2>1
    <3>. HIDE DEF r
    <3>. QED BY <1>0, <2>2, <2>3, <3>1
  <2>6. \A e \in starts' : e.key \in asked' /\ \A n \in DOMAIN notes' : notes'[n].from # e.key
    <3>. HIDE DEF r
    <3>. QED BY <2>1, <2>2, <2>3, EchoParts DEF EchoInv
  <2>7. /\ \A n \in DOMAIN notes' : notes'[n].from \in asked' \cup {NoReq}
        /\ \A n, m \in DOMAIN notes' :
              (/\ notes'[n].kind = "echo" /\ notes'[m].kind = "echo"
               /\ notes'[n].from = notes'[m].from /\ notes'[n].from # NoReq) => n = m
    BY <2>1, EchoParts DEF EchoInv
  <2>. QED BY <2>4, <2>5, <2>6, <2>7 DEF EchoInv, EchoOncePerStart, NotRefused
\* Answers of the child
<1>10. ASSUME NEW p \in held, NEW q \in EntryFor(p), NEW ok, NEW rest,
              Reply(<<q.client, q.id>>, <<p.client, p.id>>, ok, rest),
              NEW k \in Reqs, NotRefused(replies[k], k), k = p.key => ok
       PROVE  NotRefused(replies'[k], k)
  <2>1. q \in held /\ q.key = p.key
    BY DEF EntryFor, RpcInv
  <2>2. /\ <<q.client, q.id>> = p.key /\ <<p.client, p.id>> = p.key
        /\ p.key \in Reqs /\ replies[p.key] = <<>>
    BY <2>1 DEF RpcInv, TypeOK, Entries
  <2>3. Reply(p.key, p.key, ok, rest)
    BY <1>10, <2>2
  <2>. QED BY <1>10, <2>2, <2>3, FirstAnswer
<1>11. ASSUME NEW p \in held, NEW o \in {"ok", "error", "already"}, AnswerRequest(p, o)
       PROVE  EchoInv'
  <2>1. /\ UNCHANGED <<asked, notes>> /\ starts' = AfterAnswer(p, o)
        /\ \E q \in EntryFor(p) : Reply(<<q.client, q.id>>, <<p.client, p.id>>, o = "ok",
                                        pending \ {q})
    BY <1>11 DEF AnswerRequest
  <2>2. starts' \subseteq starts /\ \A e \in starts' : e.key = p.key => o = "ok"
    BY <2>1 DEF AfterAnswer
  <2>3. Sound
    BY <1>0, <1>10, <2>1, <2>2
  <2>. QED BY <2>1, <2>2, <2>3, EchoKept
<1>12. ASSUME NEW p \in held, NEW o \in {"ok", "error", "already"}, AnswerInitialize(p, o)
       PROVE  EchoInv'
  <2>1. /\ UNCHANGED <<asked, notes, starts>>
        /\ \E q \in EntryFor(p) : Reply(<<q.client, q.id>>, <<p.client, p.id>>, TRUE,
                                        pending \ {q})
    BY <1>12 DEF AnswerInitialize, InitializeReply
  <2>2. Sound
    BY <1>0, <1>10, <2>1
  <2>. QED BY <2>1, <2>2, EchoKept
\* The other steps
<1>13. ASSUME UNCHANGED <<notes, live, activeTurns>>,
              \/ \E c \in Clients : \/ Connect(c) \/ WriteFails(c) \/ Disconnect(c)
                                    \/ \E s \in Questions : AnswerQuestion(c, s)
                                    \/ \E th \in Threads, t \in Turns \cup {NoTurn} :
                                          UserMessage(c, th, t)
              \/ \E s \in Questions : AskQuestion(s) \/ Resolved(s)
              \/ \E th \in Threads, kind \in {"item", "delta"} : Notification(kind, th)
       PROVE  EchoInv'
  <2>1. UNCHANGED <<asked, replies, starts>>
    BY <1>13 DEF Connect, WriteFails, Disconnect, AnswerQuestion, UserMessage, AskQuestion,
                 Resolved, Notification, muxVars, histVars
  <2>. QED BY <1>1, <1>13, <2>1
<1>14. ASSUME \/ \E p \in held, o \in {"ok", "error", "already"} : AnswerUnknown(p, o)
              \/ ChildDies \/ ChildExits \/ StartExpires \/ NoteAges \/ UNCHANGED vars
       PROVE  EchoInv'
  BY <1>1, <1>14
  DEF AnswerUnknown, ChildDies, ChildExits, StartExpires, NoteAges, vars, muxVars, histVars
<1>. QED
  BY <1>4, <1>5, <1>6, <1>8, <1>9, <1>11, <1>12, <1>13, <1>14, StreamMove
  DEF NoteMoves, Next, ClientStep, ChildStep, ChildAnswer

\* A turn/start of Mobile Web is echoed in one turn at most, and not at all once
\* its sender has been told that the child refused it (rememberPendingMobileTurnStart
\* against handleChildLine's two uses of it).
THEOREM EchoOncePerStartHolds == Spec => []EchoOncePerStart
<1>1. Init => EchoInv
  BY DEF Init, EchoInv, EchoOncePerStart
<1>2. TypeOK /\ RpcInv /\ EchoInv /\ [Next]_vars => EchoInv'
  BY EchoStep
<1>3. EchoInv => EchoOncePerStart
  BY DEF EchoInv
<1>. QED
  BY <1>1, <1>2, <1>3, TypeCorrect, RpcCorrect, PTL DEF Spec

-----------------------------------------------------------------------------
(* The replay buffer *)

\* What of the stream seq is replayable from note n + 1 up to note k.
Newer(seq, n, k) == {m \in (n + 1)..k : Replayable(seq[m])}

LEMMA NewerCount ==
    ASSUME NEW seq, NEW n \in Nat, NEW j \in Nat, NEW k \in Nat, j <= k
    PROVE  /\ Cardinality(Newer(seq, n, j)) \in Nat
           /\ Cardinality(Newer(seq, n, k)) \in Nat
           /\ Cardinality(Newer(seq, n, j)) <= Cardinality(Newer(seq, n, k))
<1>1. IsFiniteSet((n + 1)..k)
  BY FS_Interval
<1>2. Newer(seq, n, k) \in SUBSET ((n + 1)..k)
  BY DEF Newer
<1>3. IsFiniteSet(Newer(seq, n, k))
  BY <1>1, <1>2, FS_Subset
<1>4. Newer(seq, n, j) \in SUBSET Newer(seq, n, k)
  BY DEF Newer
<1>. QED BY <1>3, <1>4, FS_Subset, FS_CardinalityType

\* A cut down to the k newest leaves a note behind only if k newer ones exist.
LEMMA NewestKeeps ==
    ASSUME NEW seq, NEW len \in Nat, NEW b, NEW n \in b, NEW k \in Nat,
           b \subseteq {m \in 1..len : Replayable(seq[m])},
           Cardinality(Newer(seq, n, len)) < k
    PROVE  n \in Newest(b, k)
<1>. DEFINE above == {m \in b : m > n}
<1>1. n \in Nat
  OBVIOUS
<1>2. above \in SUBSET Newer(seq, n, len)
  <2>1. \A m \in above : m \in 1..len /\ Replayable(seq[m]) /\ m > n
    OBVIOUS
  <2>2. \A m \in above : m \in (n + 1)..len
    BY <1>1, <2>1
  <2>. HIDE DEF above
  <2>. QED BY <2>1, <2>2 DEF Newer
<1>3. IsFiniteSet(Newer(seq, n, len))
  <2>1. IsFiniteSet((n + 1)..len)
    BY <1>1, FS_Interval
  <2>2. Newer(seq, n, len) \in SUBSET ((n + 1)..len)
    BY DEF Newer
  <2>. QED BY <2>1, <2>2, FS_Subset
<1>. HIDE DEF above
<1>4. /\ Cardinality(above) \in Nat /\ Cardinality(Newer(seq, n, len)) \in Nat
      /\ Cardinality(above) <= Cardinality(Newer(seq, n, len))
  BY <1>2, <1>3, FS_Subset, FS_CardinalityType
<1>5. Cardinality(above) < k
  BY <1>4
<1>. QED BY <1>5 DEF Newest, above

\* pruneReplayBuffer drops a note only for its age or for newer ones.
LEMMA PruneKeeps ==
    ASSUME TypeOK, NEW seq, NEW len \in Nat, NEW b, NEW n \in b,
           b \subseteq {m \in 1..len : Replayable(seq[m])},
           n > aged, Cardinality(Newer(seq, n, len)) < BufferLimit
    PROVE  n \in Prune(b)
<1>. DEFINE young == {m \in b : m > aged}
<1>1. n \in young /\ young \subseteq {m \in 1..len : Replayable(seq[m])}
  OBVIOUS
<1>. HIDE DEF young
<1>2. n \in Newest(young, BufferLimit)
  BY <1>1, NewestKeeps, MuxAssumption
<1>. QED BY <1>2 DEF Prune, young

\* The buffer holds of the stream what replay may use of it, but for what is
\* too old or more than its limit back.
BufferInv ==
    /\ \A c \in Clients : initAt[c] <= Len(notes)
    /\ \A n \in replayBuffer : Replayable(notes[n])
    /\ \A n \in DOMAIN notes :
          Replayable(notes[n]) =>
              \/ n \in replayBuffer
              \/ n <= aged
              \/ Cardinality(Newer(notes, n, Len(notes))) >= BufferLimit

LEMMA BufferKept ==
    ASSUME BufferInv, TypeOK, UNCHANGED <<notes, initAt, replayBuffer>>, aged <= aged', aged' \in Nat
    PROVE  BufferInv'
<1>1. DOMAIN notes \subseteq Nat
  BY LenProperties DEF TypeOK
<1>. QED BY <1>1 DEF BufferInv, TypeOK

LEMMA BufferPruned ==
    ASSUME BufferInv, TypeOK, UNCHANGED <<notes, aged>>, replayBuffer' = Prune(replayBuffer),
           \A c \in Clients : initAt'[c] <= Len(notes)
    PROVE  BufferInv'
<1>1. DOMAIN notes = 1..Len(notes) /\ Len(notes) \in Nat
  BY LenProperties DEF TypeOK
<1>2. replayBuffer \subseteq {m \in 1..Len(notes) : Replayable(notes[m])}
  BY <1>1 DEF BufferInv, TypeOK
<1>3. \A n \in replayBuffer' : Replayable(notes'[n])
  BY <1>2 DEF Prune, Newest
<1>4. ASSUME NEW n \in DOMAIN notes, Replayable(notes[n]), n > aged,
             ~(Cardinality(Newer(notes, n, Len(notes))) >= BufferLimit)
      PROVE  n \in replayBuffer'
  <2>1. Cardinality(Newer(notes, n, Len(notes))) < BufferLimit
    BY <1>1, <1>4, NewerCount, MuxAssumption
  <2>2. n \in replayBuffer
    BY <1>1, <1>4 DEF BufferInv, TypeOK
  <2>. QED BY <1>1, <1>2, <1>4, <2>1, <2>2, PruneKeeps
<1>. QED BY <1>1, <1>3, <1>4 DEF BufferInv, TypeOK

LEMMA BufferBroadcast ==
    ASSUME BufferInv, TypeOK, NEW ms \in Seq(Notes), Publish(ms), UNCHANGED <<aged, initAt>>
    PROVE  BufferInv'
<1>. DEFINE fresh == (Len(notes) + 1)..Len(notes')
            cached == {n \in fresh : Replayable(notes'[n])}
            old == Len(notes)
            len == Len(notes')
<1>1. replayBuffer' = IF cached = {} THEN replayBuffer ELSE Prune(replayBuffer \cup cached)
  BY DEF Publish
<1>2. /\ Behind(ms) /\ Len(ms) \in Nat
      /\ old \in Nat /\ len \in Nat /\ old <= len
      /\ DOMAIN notes = 1..old /\ DOMAIN notes' = 1..len
  BY PublishBehind DEF Behind
<1>3. \A n \in 1..old : notes'[n] = notes[n]
  BY <1>2 DEF Behind
<1>4. fresh = (old + 1)..len
  OBVIOUS
<1>. HIDE DEF fresh, old, len
<1>5. cached \subseteq {m \in 1..len : Replayable(notes'[m])}
  BY <1>2, <1>4
<1>6. replayBuffer \subseteq {m \in 1..len : Replayable(notes'[m])}
  BY <1>2, <1>3 DEF BufferInv, TypeOK
<1>7. \A n \in replayBuffer' : Replayable(notes'[n])
  BY <1>1, <1>5, <1>6 DEF Prune, Newest
<1>8. ASSUME NEW n \in 1..len, Replayable(notes'[n]), n > aged,
             Cardinality(Newer(notes', n, len)) < BufferLimit
      PROVE  n \in replayBuffer'
  <2>1. n \in replayBuffer \cup cached
    <3>1. CASE n \in 1..old
      <4>1. /\ Cardinality(Newer(notes', n, old)) \in Nat
            /\ Cardinality(Newer(notes', n, len)) \in Nat
            /\ Cardinality(Newer(notes', n, old)) <= Cardinality(Newer(notes', n, len))
        BY <1>2, <1>8, NewerCount
      <4>2. Newer(notes', n, old) = Newer(notes, n, old)
        BY <1>2, <1>3, <3>1 DEF Newer
      <4>3. Cardinality(Newer(notes, n, old)) < BufferLimit
        BY <1>8, <4>1, <4>2, MuxAssumption
      <4>4. ~(n <= aged)
        BY <1>8 DEF TypeOK
      <4>5. Replayable(notes[n]) /\ ~(Cardinality(Newer(notes, n, old)) >= BufferLimit)
        BY <1>3, <1>8, <3>1, <4>1, <4>2, <4>3, MuxAssumption
      <4>. QED BY <1>2, <3>1, <4>4, <4>5 DEF BufferInv, old
    <3>2. CASE n \notin 1..old
      BY <1>2, <1>4, <1>8, <3>2
    <3>. QED BY <3>1, <3>2
  <2>2. CASE cached = {}
    BY <1>1, <2>1, <2>2
  <2>3. CASE cached # {}
    <3>. DEFINE b == replayBuffer \cup cached
    <3>1. n \in b /\ b \subseteq {m \in 1..len : Replayable(notes'[m])}
      BY <1>5, <1>6, <2>1
    <3>. HIDE DEF b
    <3>2. n \in Prune(b)
      BY <1>2, <1>8, <3>1, PruneKeeps
    <3>. QED BY <1>1, <2>3, <3>2 DEF b
  <2>. QED BY <2>2, <2>3
<1>9. ASSUME NEW n \in DOMAIN notes', Replayable(notes'[n])
      PROVE  \/ n \in replayBuffer'
             \/ n <= aged'
             \/ Cardinality(Newer(notes', n, Len(notes'))) >= BufferLimit
  <2>1. n \in 1..len /\ aged \in Nat /\ Cardinality(Newer(notes', n, len)) \in Nat
    BY <1>2, <1>9, NewerCount DEF TypeOK
  <2>2. \/ n <= aged \/ n > aged
    BY <2>1
  <2>3. \/ Cardinality(Newer(notes', n, len)) < BufferLimit
        \/ Cardinality(Newer(notes', n, len)) >= BufferLimit
    BY <2>1, MuxAssumption
  <2>. QED BY <1>8, <1>9, <2>1, <2>2, <2>3 DEF len
<1>10. \A c \in Clients : initAt'[c] <= Len(notes')
  <2>1. \A c \in Clients : initAt[c] <= old /\ initAt[c] \in Nat
    BY DEF BufferInv, TypeOK, old
  <2>2. \A c \in Clients : initAt'[c] <= len
    BY <1>2, <2>1
  <2>. QED BY <2>2 DEF len
<1>. QED BY <1>7, <1>9, <1>10 DEF BufferInv

\* What a step does to the replay: nothing to those that have had it, or it
\* broadcasts notes, or it answers an initialize.
Quiet ==
    /\ UNCHANGED <<notes, live, replayed, initAt, replayBuffer>>
    /\ aged' \in Nat /\ aged <= aged'
    /\ \A x \in clients' \cap ready' : x \in clients \cap ready /\ info'[x] = info[x]

Broadcast ==
    /\ \E ms \in Seq(Notes) : Publish(ms)
    /\ UNCHANGED <<aged, initAt, replayed, info, ready>>

Replays ==
    /\ \E c \in Clients : \E i, origin, p :
          /\ InitializeReply(c, i, info'[c], origin, p)
          /\ \A x \in Clients \ {c} : info'[x] = info[x]
    /\ UNCHANGED <<notes, live, aged>>

LEMMA ReplayMove ==
    ASSUME TypeOK, RpcInv, ClientsKnown, [Next]_vars
    PROVE  Quiet \/ Broadcast \/ Replays
<1>0. aged \in Nat
  BY DEF TypeOK
<1>1. ASSUME UNCHANGED <<notes, live, replayed, initAt, replayBuffer, aged, info, ready>>,
             clients' \subseteq clients
      PROVE  Quiet
  BY <1>0, <1>1 DEF Quiet
<1>2. ASSUME NEW c \in Clients, Connect(c)
      PROVE  Quiet
  <2>1. c \notin ready
    BY <1>2 DEF Connect, ClientsKnown
  <2>. QED BY <1>0, <1>2, <2>1 DEF Connect, histVars, Quiet
<1>3. ASSUME NEW c \in Clients, NEW i \in Ids, Initialize(c, i)
      PROVE  Quiet \/ Replays
  <2>. DEFINE inf == IF c \in Mobile THEN "mobile" ELSE "desktop"
  <2>1. /\ info[c] = "none" /\ info' = [info EXCEPT ![c] = inf]
        /\ UNCHANGED <<notes, live, aged>>
    BY <1>3 DEF Initialize
  <2>2. info'[c] = inf /\ \A x \in Clients \ {c} : info'[x] = info[x]
    BY <2>1 DEF TypeOK
  <2>3. CASE InitializeReply(c, i, inf, NoReq, pending)
    <3>1. InitializeReply(c, i, info'[c], NoReq, pending)
      BY <2>2, <2>3
    <3>. HIDE DEF inf
    <3>. QED BY <2>1, <2>2, <3>1 DEF Replays
  <2>4. CASE /\ Forward(c, i, [method |-> "initialize", thread |-> NoThread])
             /\ UNCHANGED <<replayBuffer, replayed, ready, initAt>>
    <3>1. c \notin ready
      BY <2>1 DEF ClientsKnown
    <3>2. clients' \subseteq clients
      BY <2>4, ForwardGivesUp
    <3>. HIDE DEF inf
    <3>. QED BY <1>0, <2>1, <2>2, <2>4, <3>1, <3>2 DEF Quiet, TypeOK
  <2>. QED BY <1>3, <2>3, <2>4 DEF Initialize
<1>4. ASSUME NEW c \in Clients, NEW i \in Ids, NEW call \in Calls, Request(c, i, call)
      PROVE  Quiet
  BY <1>1, <1>4, ForwardGivesUp DEF Request
<1>5. ASSUME NEW p \in held, NEW o \in {"ok", "error", "already"}, AnswerRequest(p, o)
      PROVE  Quiet
  BY <1>1, <1>5 DEF AnswerRequest, Reply
<1>6. ASSUME NEW p \in held, NEW o \in {"ok", "error", "already"}, AnswerInitialize(p, o)
      PROVE  Replays
  <2>1. PICK q \in EntryFor(p) :
           InitializeReply(q.client, q.id, info[q.client], <<p.client, p.id>>, pending \ {q})
    BY <1>6 DEF AnswerInitialize
  <2>2. q.client \in Clients
    BY DEF EntryFor, TypeOK, Entries
  <2>3. UNCHANGED <<info, notes, live, aged>>
    BY <1>6 DEF AnswerInitialize
  <2>4. InitializeReply(q.client, q.id, info'[q.client], <<p.client, p.id>>, pending \ {q})
    BY <2>1, <2>3
  <2>. QED BY <2>2, <2>3, <2>4 DEF Replays
<1>7. ASSUME NoteMoves
      PROVE  Broadcast
  BY <1>7, Broadcasts DEF NoteMoves, Broadcast, AsideVars
<1>8. ASSUME \/ \E c \in Clients : \/ WriteFails(c) \/ Disconnect(c)
                                   \/ \E s \in Questions : AnswerQuestion(c, s)
             \/ \E s \in Questions : AskQuestion(s)
      PROVE  Quiet
  BY <1>1, <1>8 DEF WriteFails, Disconnect, AnswerQuestion, AskQuestion, muxVars, envVars,
                   histVars
<1>9. ASSUME \/ \E p \in held, o \in {"ok", "error", "already"} : AnswerUnknown(p, o)
             \/ ChildDies \/ ChildExits \/ StartExpires \/ UNCHANGED vars
      PROVE  Quiet
  BY <1>1, <1>9
  DEF AnswerUnknown, ChildDies, ChildExits, StartExpires, vars, muxVars, envVars, histVars
<1>10. ASSUME NoteAges
       PROVE  Quiet
  BY <1>0, <1>10 DEF NoteAges, muxVars, histVars, Quiet
<1>. QED
  BY <1>2, <1>3, <1>4, <1>5, <1>6, <1>7, <1>8, <1>9, <1>10, NoteMove
  DEF Next, ClientStep, ChildStep, ChildAnswer

LEMMA BufferStep ==
    ASSUME TypeOK, RpcInv, ClientsKnown, BufferInv, [Next]_vars
    PROVE  BufferInv'
<1>1. CASE Quiet
  BY <1>1, BufferKept DEF Quiet
<1>2. CASE Broadcast
  BY <1>2, BufferBroadcast DEF Broadcast
<1>3. CASE Replays
  <2>1. /\ UNCHANGED <<notes, aged>> /\ replayBuffer' = Prune(replayBuffer)
        /\ \E c \in Clients : initAt' \in {initAt, [initAt EXCEPT ![c] = Len(notes)]}
    BY <1>3 DEF Replays, InitializeReply
  <2>2. Len(notes) \in Nat
    BY LenProperties DEF TypeOK
  <2>3. \A c \in Clients : initAt'[c] <= Len(notes)
    <3>. DEFINE len == Len(notes)
    <3>1. \A c \in Clients : initAt'[c] = initAt[c] \/ initAt'[c] = len
      BY <2>1 DEF TypeOK
    <3>2. \A c \in Clients : initAt[c] <= len
      BY DEF BufferInv
    <3>3. len <= len
      BY <2>2
    <3>. HIDE DEF len
    <3>4. \A c \in Clients : initAt'[c] <= len
      BY <3>1, <3>2, <3>3
    <3>. QED BY <3>4 DEF len
  <2>. QED BY <2>1, <2>3, BufferPruned
<1>. QED BY <1>1, <1>2, <1>3, ReplayMove

-----------------------------------------------------------------------------
(* What clients that asked for replay have *)

\* Note n has reached client c, or did not have to: it was broadcast before c's
\* initialize result and is out of the reach of its replay.
Reached(c, n) ==
    IF n > initAt[c] THEN n \in live[c]
    ELSE \/ ~Replayable(notes[n])
         \/ n \in replayed[c]
         \/ n <= aged
         \/ Cardinality(Newer(notes, n, initAt[c])) >= BufferLimit
         \/ Cardinality(Newer(notes, n, initAt[c])) >= ClientLimit[c]

Whole(c) ==
    (info[c] = "mobile" \/ ReplayDesktop) =>
        \A n \in DOMAIN notes : Visible(info[c], notes[n]) => Reached(c, n)

LEMMA NothingMissedIs ==
    /\ NothingMissed <=> \A c \in clients \cap ready : Whole(c)
    /\ NothingMissed' <=> \A c \in clients' \cap ready' : Whole(c)'
BY DEF NothingMissed, Whole, Reached, Newer

LEMMA QuietKeepsWhole ==
    ASSUME TypeOK, NothingMissed, Quiet
    PROVE  NothingMissed'
<1>1. DOMAIN notes \subseteq Nat /\ aged \in Nat
  BY LenProperties DEF TypeOK
<1>2. SUFFICES ASSUME NEW c \in clients' \cap ready' PROVE Whole(c)'
  BY NothingMissedIs
<1>3. Whole(c) /\ info'[c] = info[c]
  BY NothingMissedIs DEF Quiet
<1>4. \A n \in DOMAIN notes : n <= aged => n <= aged'
  BY <1>1 DEF Quiet
<1>. QED BY <1>3, <1>4 DEF Quiet, Whole, Reached

LEMMA BroadcastReachesWhole ==
    ASSUME TypeOK, BufferInv, NothingMissed, Broadcast
    PROVE  NothingMissed'
<1>1. PICK ms \in Seq(Notes) : Publish(ms)
  BY DEF Broadcast
<1>2. Behind(ms) /\ Reach(ms) /\ UNCHANGED <<aged, initAt, replayed, info, ready>>
  BY <1>1, PublishBehind, PublishReaches DEF Broadcast
<1>3. SUFFICES ASSUME NEW c \in clients' \cap ready',
                      info[c] = "mobile" \/ ReplayDesktop,
                      NEW n \in DOMAIN notes', Visible(info[c], notes'[n])
               PROVE  Reached(c, n)'
  BY <1>2, NothingMissedIs DEF Whole
<1>4. c \in Clients /\ c \in clients \cap ready /\ live[c] \subseteq live'[c]
  BY <1>2, <1>3 DEF Reach, TypeOK
<1>5. initAt[c] \in Nat /\ initAt[c] <= Len(notes) /\ Len(notes) \in Nat /\ n \in Nat
  BY <1>2, <1>4 DEF BufferInv, TypeOK, Behind
<1>6. CASE n \in DOMAIN notes
  <2>1. notes'[n] = notes[n] /\ Reached(c, n)
    BY <1>2, <1>3, <1>4, <1>6, NothingMissedIs DEF Whole, Behind
  <2>2. Newer(notes', n, initAt[c]) = Newer(notes, n, initAt[c])
    <3>1. \A m \in (n + 1)..initAt[c] : notes'[m] = notes[m]
      BY <1>2, <1>5 DEF Behind
    <3>. QED BY <3>1 DEF Newer
  <2>. QED BY <1>2, <1>4, <2>1, <2>2 DEF Reached
<1>7. CASE n > Len(notes)
  <2>1. n \in live'[c]
    BY <1>2, <1>3, <1>4, <1>7 DEF Reach
  <2>2. n > initAt[c]
    BY <1>5, <1>7
  <2>. QED BY <1>2, <2>1, <2>2 DEF Reached
<1>. QED BY <1>2, <1>5, <1>6, <1>7 DEF Behind

\* The replay gives a client all the buffer has for it, and a note that has been
\* cut from the buffer, or from the client's share, has enough newer ones.
LEMMA ReplayMakesWhole ==
    ASSUME TypeOK, BufferInv, NothingMissed, Replays
    PROVE  NothingMissed'
<1>1. PICK c \in Clients : \E i, origin, p :
         /\ InitializeReply(c, i, info'[c], origin, p)
         /\ \A x \in Clients \ {c} : info'[x] = info[x]
  BY DEF Replays
<1>. DEFINE len == Len(notes)
            buffer == Prune(replayBuffer)
            to == ReplayTo(c, info'[c], buffer)
<1>2. /\ clients' = clients \ Dropped(c)
      /\ UNCHANGED <<notes, live, aged>>
      /\ \A x \in Clients \ {c} : info'[x] = info[x]
  BY <1>1 DEF Replays, InitializeReply, Reply
<1>3. \/ /\ Written(c)
         /\ replayed' = [replayed EXCEPT ![c] = replayed[c] \cup to]
         /\ ready' = ready \cup {c}
         /\ initAt' = [initAt EXCEPT ![c] = len]
      \/ ~Written(c) /\ UNCHANGED <<replayed, ready, initAt>>
  BY <1>1 DEF InitializeReply
<1>4. SUFFICES ASSUME NEW x \in clients' \cap ready' PROVE Whole(x)'
  BY NothingMissedIs
<1>5. x \in Clients
  BY <1>2, <1>4 DEF TypeOK
<1>6. CASE x # c
  <2>1. x \in clients \cap ready
    BY <1>2, <1>3, <1>4, <1>6
  <2>2. /\ info'[x] = info[x] /\ initAt'[x] = initAt[x] /\ replayed'[x] = replayed[x]
    BY <1>2, <1>3, <1>5, <1>6 DEF TypeOK
  <2>. HIDE DEF to
  <2>. QED BY <1>2, <2>1, <2>2, NothingMissedIs DEF Whole, Reached
<1>7. CASE x = c
  <2>1. Written(c)
    BY <1>2, <1>4, <1>7 DEF Dropped, Written
  <2>2. to \subseteq replayed'[c] /\ initAt'[c] = len
    BY <1>3, <2>1 DEF TypeOK
  <2>3. DOMAIN notes = 1..len /\ len \in Nat
    BY LenProperties DEF TypeOK
  <2>4. SUFFICES ASSUME info'[c] = "mobile" \/ ReplayDesktop,
                        NEW n \in 1..len, Visible(info'[c], notes[n]), Replayable(notes[n]),
                        ~(n <= aged),
                        ~(Cardinality(Newer(notes, n, len)) >= BufferLimit),
                        ~(Cardinality(Newer(notes, n, len)) >= ClientLimit[c])
                 PROVE  n \in to
    <3>. HIDE DEF to, len
    <3>. QED BY <1>2, <1>7, <2>2, <2>3, <2>4 DEF Whole, Reached
  <2>. HIDE DEF to, buffer, len
  <2>5. /\ n > aged
        /\ Cardinality(Newer(notes, n, len)) < BufferLimit
        /\ Cardinality(Newer(notes, n, len)) < ClientLimit[c]
        /\ ClientLimit[c] \in Nat
    BY <2>3, <2>4, NewerCount, MuxAssumption DEF TypeOK
  <2>6. replayBuffer \subseteq {m \in 1..len : Replayable(notes[m])}
    BY <2>3 DEF BufferInv, TypeOK
  <2>7. n \in replayBuffer
    BY <2>3, <2>4 DEF BufferInv, len
  <2>8. n \in buffer
    BY <2>3, <2>5, <2>6, <2>7, PruneKeeps DEF buffer
  <2>9. buffer \subseteq {m \in 1..len : Replayable(notes[m])}
    BY <2>6 DEF buffer, Prune, Newest
  <2>10. n \in Newest(buffer, ClientLimit[c])
    BY <2>3, <2>5, <2>8, <2>9, NewestKeeps
  <2>. QED BY <2>4, <2>10 DEF to, ReplayTo
<1>. QED BY <1>6, <1>7

\* Mobile Web, and the desktop where replay is on for it, have every note they
\* may see: all since the initialize result, and of those before what is neither
\* too old nor more than the buffer's or their own limit back (broadcastToClients,
\* cacheReplayNotification and replayMissedNotifications).
THEOREM NothingMissedHolds == Spec => []NothingMissed
<1>1. Init => BufferInv /\ NothingMissed
  BY DEF Init, BufferInv, NothingMissed
<1>2. /\ TypeOK /\ RpcInv /\ ClientsKnown /\ BufferInv /\ NothingMissed /\ [Next]_vars
      => BufferInv' /\ NothingMissed'
  BY BufferStep, ReplayMove, QuietKeepsWhole, BroadcastReachesWhole, ReplayMakesWhole
<1>. QED
  BY <1>1, <1>2, TypeCorrect, RpcCorrect, ClientsCorrect, PTL DEF Spec
=============================================================================
