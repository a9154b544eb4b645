----------------------- MODULE AppServerClientProofs -----------------------
(***************************************************************************)
(* The web server's client and the muxes, for any number of profiles,      *)
(* muxes and calls: the client only does to muxes what MuxEndpoint allows, *)
(* no mux that ended by itself is named by a file, no call is left without *)
(* a timer or an attempt, and a mux connection is bound to where it leads. *)
(***************************************************************************)
(* ClientInv is the inductive invariant; its last part follows an attempt  *)
(* from the profile it began for to the connection it leaves behind.       *)
(***************************************************************************)
EXTENDS AppServerClient, TLAPS

\* A file names a mux of its own profile that has published itself.
Published ==
    \A p \in Profiles : file[p] # NoMux =>
        /\ Home[file[p]] = p
        /\ phase[file[p]] \in {"up", "stopping", "crashed"}

EndpointInv == EndpointTypeOK /\ Published

LEMMA EndpointInitInv == EndpointInit => EndpointInv
BY DEF EndpointInit, EndpointInv, EndpointTypeOK, Published, Phases

\* cleanupEndpointFile leaves no file that names the mux.
LEMMA CleanedFile ==
    ASSUME EndpointInv, NEW m \in Muxes, m # NoMux
    PROVE  /\ Cleaned(m) \in [Profiles -> Muxes \cup {NoMux}]
           /\ \A p \in Profiles : Cleaned(m)[p] # NoMux =>
                 Cleaned(m)[p] = file[p] /\ file[p] # m
BY MuxEndpointAssumption DEF EndpointInv, EndpointTypeOK, Published, Cleaned

\* One mux moves on; the files are left alone, and do not name it unless it
\* may be named where it goes.
LEMMA PhaseStep ==
    ASSUME EndpointInv, NEW m \in Muxes, NEW ph \in Phases, Became(m, ph),
           file' = file, saw' \in [Muxes -> Muxes \cup {NoMux}],
           \/ ph \in {"up", "stopping", "crashed"}
           \/ \A p \in Profiles : file[p] # m
    PROVE  EndpointInv'
BY MuxEndpointAssumption
DEF EndpointInv, EndpointTypeOK, Published, Became, Phases

LEMMA EndpointStep ==
    ASSUME EndpointInv, [EndpointNext]_endpointVars
    PROVE  EndpointInv'
<1>1. CASE UNCHANGED endpointVars
  BY <1>1 DEF endpointVars, EndpointInv, EndpointTypeOK, Published
<1>2. SUFFICES ASSUME NEW m \in Muxes,
                      Launch(m) \/ MuxStep(m) \/ Stop(m) \/ Crash(m)
               PROVE  EndpointInv'
  BY <1>1 DEF EndpointNext
<1>3. Home[m] \in Profiles /\ m # NoMux
  BY MuxEndpointAssumption, NoMuxAssumption
<1>4. CASE Launch(m)
  BY <1>4, <1>3, PhaseStep DEF Launch, EndpointInv, EndpointTypeOK, Phases
<1>5. CASE Attach(m)
  BY <1>5, <1>3, PhaseStep DEF Attach, EndpointInv, EndpointTypeOK, Phases, Published
<1>6. CASE Detach(m)
  BY <1>6, <1>3, PhaseStep DEF Detach, EndpointInv, EndpointTypeOK, Phases, Published
<1>7. CASE Listen(m)
  <2>1. CASE file' = file
    BY <2>1, <1>7, <1>3, PhaseStep DEF Listen, EndpointInv, EndpointTypeOK, Phases, Published
  <2>2. CASE file' = [file EXCEPT ![Home[m]] = m]
    BY <2>2, <1>7, <1>3, MuxEndpointAssumption
    DEF Listen, Became, EndpointInv, EndpointTypeOK, Phases, Published
  <2>. QED BY <2>1, <2>2, <1>7 DEF Listen
<1>8. CASE Publish(m)
  <2>1. CASE file' = file
    BY <2>1, <1>8, <1>3, PhaseStep DEF Publish, EndpointInv, EndpointTypeOK, Phases, Published
  <2>2. CASE file' = [file EXCEPT ![Home[m]] = m]
    BY <2>2, <1>8, <1>3, MuxEndpointAssumption
    DEF Publish, Became, EndpointInv, EndpointTypeOK, Phases, Published
  <2>. QED BY <2>1, <2>2, <1>8 DEF Publish
<1>9. CASE Stop(m)
  BY <1>9, <1>3, CleanedFile
  DEF Stop, Became, EndpointInv, EndpointTypeOK, Phases, Published
<1>10. CASE Exit(m)
  BY <1>10, <1>3, CleanedFile
  DEF Exit, Became, EndpointInv, EndpointTypeOK, Phases, Published
<1>11. CASE Crash(m)
  BY <1>11, <1>3, PhaseStep DEF Crash, EndpointInv, EndpointTypeOK, Phases
<1>. QED
  BY <1>2, <1>4, <1>5, <1>6, <1>7, <1>8, <1>9, <1>10, <1>11 DEF MuxStep

-----------------------------------------------------------------------------

LEMMA ClientStep == [Next]_vars => [EndpointNext]_endpointVars
<1>1. SUFFICES ASSUME [Next]_vars PROVE [EndpointNext]_endpointVars
  OBVIOUS
<1>2. CASE UNCHANGED vars
  BY <1>2 DEF vars
<1>3. CASE StartOwned
  BY <1>3, MuxEndpointAssumption DEF StartOwned, EndpointNext
<1>4. ASSUME NEW m \in Muxes, OthersLaunch(m) \/ Moves(m) \/ Ends(m)
      PROVE  [EndpointNext]_endpointVars
  BY <1>4 DEF OthersLaunch, Moves, Ends, EndpointNext
<1>5. ASSUME NEW k \in Calls, Request(k) \/ Retry(k) \/ Answered(k)
      PROVE  UNCHANGED endpointVars
  BY <1>5 DEF Request, Retry, Answered
<1>6. CASE Begin \/ SpawnChild \/ ReadFile \/ Connected \/ ConnectFails \/ RatesRead
           \/ BecomeReady \/ Finish \/ Fail
  BY <1>6 DEF Begin, SpawnChild, ReadFile, Connected, ConnectFails, RatesRead, BecomeReady, Finish, Fail
<1>7. CASE Lost \/ Closed \/ Reconnect \/ ResetOver \/ ChildExit
  BY <1>7 DEF Lost, Closed, Reconnect, ResetOver, ChildExit
<1>8. ASSUME \/ \E ok \in BOOLEAN : Initialized(ok)
             \/ \E o \in Owners : Timeout(o)
             \/ \E p \in Profiles : Select(p)
      PROVE  UNCHANGED endpointVars
  BY <1>8 DEF Initialized, Timeout, Select
<1>. QED
  BY <1>1, <1>2, <1>3, <1>4, <1>5, <1>6, <1>7, <1>8 DEF Next

\* The client launches and signals muxes, and reads their files; it does
\* nothing else to them (startOwnedMuxAndConnect, resetConnection).
THEOREM ClientRespectsEndpoint == Spec => EndpointSpec
<1>1. Init => EndpointInit
  BY DEF Init
<1>. QED BY <1>1, ClientStep, PTL DEF Spec, EndpointSpec

\* A mux that ended by itself is named by no endpoint file, not even one told
\* to stop while it was about to publish (exit handler, 1047).
THEOREM NoGhostEndpointHolds == Spec => []NoGhostEndpoint
<1>1. EndpointInv => NoGhostEndpoint
  BY DEF EndpointInv, Published, NoGhostEndpoint
<1>2. EndpointInv /\ [EndpointNext]_endpointVars => EndpointInv'
  BY EndpointStep
<1>. QED
  BY <1>1, <1>2, EndpointInitInv, ClientRespectsEndpoint, PTL DEF EndpointSpec

-----------------------------------------------------------------------------
(* The types of the client's own variables *)

LEMMA StageTypes ==
    ASSUME TypeOK, NEW r \in BOOLEAN
    PROVE  /\ Failed(r) \in [Calls -> Stages]
           /\ \A k \in Calls : Rejected(k, r) \in {"again", "over"}
           /\ \A st \in [Calls -> Stages], k \in Calls : Waits(st, k) \in [Calls -> Stages]
<1>1. \A k \in Calls : Rejected(k, r) \in {"again", "over"}
  BY DEF Rejected
<1>. QED BY <1>1 DEF TypeOK, Failed, Waits, Stages

\* What AttemptFailed and Joined leave of an attempt.
LEMMA AttemptTypes ==
    ASSUME TypeOK, NobodyForgotten
    PROVE  /\ AttemptFailed \in Attempts
           /\ \A a \in Attempts : Joined(a) \in Attempts
<1>1. AttemptFailed \in Attempts
  <2>1. CASE attempt = NoAttempt
    \* then nothing of initialize() is pending
    BY <2>1 DEF TypeOK, NobodyForgotten, AttemptFailed, NoAttempt
  <2>2. CASE attempt # NoAttempt
    BY <2>2 DEF TypeOK, Attempts, AttemptFailed, Continuing
  <2>. QED BY <2>1, <2>2
<1>. QED BY <1>1 DEF TypeOK, Attempts, Joined, NoAttempt, Continuing

\* An attempt that is under way has all its fields.
UnderWay == [at : Continuing \cup {"port", "connect", "wait", "init", "rates"},
             path : {"none", "external", "owned", "child"}, binding : Profiles,
             target : Muxes \cup {NoMux}]

LEMMA UnderWayTypes ==
    /\ TypeOK /\ attempt.at # "none" => attempt \in UnderWay
    /\ UnderWay \subseteq Attempts
BY DEF TypeOK, Attempts, NoAttempt, UnderWay

\* The transport of a lost or closed connection is one still.
LEMMA DownTypes ==
    ASSUME TypeOK, NEW st \in {"lost", "down"}, ws.st \in {"open", "lost"}
    PROVE  [ws EXCEPT !.st = st] \in Transports
<1>1. ws \in [via : {"mux", "child"}, home : Profiles,
             st : {"open", "lost", "down"}, greeted : BOOLEAN]
  BY DEF TypeOK, Transports, NoWs
<1>. QED BY <1>1 DEF Transports

LEMMA ResetTypes ==
    ASSUME TypeOK, Reset
    PROVE  /\ ws' \in Transports /\ ready' \in BOOLEAN /\ resetting' \in BOOLEAN
           /\ bound' \in Profiles \cup {NoProfile} /\ child' \in Profiles \cup {NoProfile}
           /\ muxChild' \in Owned \cup {NoMux} /\ signalled' \subseteq Owned
           /\ pending' \in [Owners -> {"none", "cur", "stale"}]
BY NoMuxAssumption DEF TypeOK, Reset, NonePending, Transports

LEMMA SentTypes ==
    ASSUME TypeOK, NEW S, Sent(S)
    PROVE  /\ stage' \in [Calls -> Stages]
           /\ pending' \in [Owners -> {"none", "cur", "stale"}]
BY DEF TypeOK, Sent, Stages

LEMMA EnsureTypes ==
    ASSUME TypeOK, NobodyForgotten, NEW k \in Calls, Ensure(k)
    PROVE  /\ ws' \in Transports /\ attempt' \in Attempts
           /\ ready' \in BOOLEAN /\ resetting' \in BOOLEAN
           /\ bound' \in Profiles \cup {NoProfile} /\ child' \in Profiles \cup {NoProfile}
           /\ muxChild' \in Owned \cup {NoMux} /\ signalled' \subseteq Owned
           /\ pending' \in [Owners -> {"none", "cur", "stale"}]
           /\ stage' \in [Calls -> Stages]
<1>1. CASE Sent({k}) /\ UNCHANGED <<ws, attempt, ready, resetting, bound, child,
                                   muxChild, signalled>>
  BY <1>1, SentTypes DEF TypeOK
<1>2. CASE Reset /\ stage' = Waits(Failed(FALSE), k) /\ attempt' = Joined(AttemptFailed)
  BY <1>2, ResetTypes, StageTypes, AttemptTypes
<1>3. CASE /\ stage' = Waits(stage, k) /\ attempt' = Joined(attempt)
           /\ UNCHANGED <<ws, ready, resetting, bound, child, muxChild, signalled, pending>>
  BY <1>3, StageTypes, AttemptTypes DEF TypeOK
<1>. QED BY <1>1, <1>2, <1>3 DEF Ensure

LEMMA TypeStep ==
    ASSUME TypeOK, Published, NobodyForgotten, [Next]_vars
    PROVE  TypeOK'
<1>1. EndpointTypeOK'
  BY ClientStep, EndpointStep DEF EndpointInv, TypeOK
<1>2. CASE UNCHANGED vars
  BY <1>1, <1>2 DEF vars, clientVars, TypeOK
<1>3. ASSUME NEW k \in Calls, Request(k) \/ Retry(k)
      PROVE  TypeOK'
  BY <1>1, <1>3, EnsureTypes DEF Request, Retry, TypeOK
<1>4. ASSUME NEW k \in Calls, Answered(k)
      PROVE  TypeOK'
  BY <1>1, <1>4 DEF Answered, TypeOK, Stages
<1>5. CASE Begin
  <2>1. attempt.binding \in Profiles /\ file[attempt.binding] \in Muxes \cup {NoMux}
    BY <1>5 DEF Begin, TypeOK, EndpointTypeOK, Attempts, NoAttempt
  <2>2. requireShared' \in BOOLEAN /\ child' \in Profiles \cup {NoProfile}
    BY <1>5, <2>1 DEF Begin, TypeOK
  <2>4. attempt' \in Attempts
    <3>1. PICK m \in Muxes \cup {NoMux}, at \in {"port", "connect"} :
            \/ m # NoMux /\ attempt' = [attempt EXCEPT !.at = "connect", !.path = "external",
                                                      !.target = m]
            \/ attempt' = [attempt EXCEPT !.at = "owned", !.path = "owned"]
            \/ attempt' = [attempt EXCEPT !.at = at, !.path = "child"]
      BY <1>5, <2>1 DEF Begin
    <3>2. attempt \in UnderWay
      BY <1>5, UnderWayTypes DEF Begin
    <3>3. attempt' \in UnderWay
      BY <3>1, <3>2 DEF UnderWay, Continuing
    <3>. QED BY <3>3, UnderWayTypes
  <2>3. ws' \in Transports /\ pending' \in [Owners -> {"none", "cur", "stale"}]
    BY <1>5 DEF Begin, TypeOK, Transports, Detached
  <2>. QED BY <1>1, <1>5, <2>2, <2>3, <2>4 DEF Begin, TypeOK
<1>6. CASE StartOwned
  <2>1. attempt' \in Attempts /\ muxChild' \in Owned \cup {NoMux}
    BY <1>6 DEF StartOwned, TypeOK, Attempts, NoAttempt, Continuing
  <2>. QED BY <1>1, <1>6, <2>1 DEF StartOwned, TypeOK
<1>7. CASE Connected
  <2>1. attempt' \in Attempts
    BY <1>7 DEF Connected, TypeOK, Attempts, NoAttempt, Continuing
  <2>2. ws' \in Transports /\ requireShared' \in BOOLEAN
    <3>1. CASE child # NoProfile /\ UNCHANGED requireShared
               /\ ws' = [via |-> "child", home |-> child, st |-> "open", greeted |-> FALSE]
      BY <3>1 DEF TypeOK, Transports
    <3>2. ASSUME NEW m \in Muxes, requireShared' = TRUE,
                 ws' = [via |-> "mux", home |-> Home[m], st |-> "open", greeted |-> FALSE]
          PROVE  ws' \in Transports /\ requireShared' \in BOOLEAN
      BY <3>2, MuxEndpointAssumption DEF Transports
    <3>. QED BY <1>7, <3>1, <3>2 DEF Connected
  <2>3. pending' \in [Owners -> {"none", "cur", "stale"}]
    BY <1>7 DEF Connected, TypeOK
  <2>. QED BY <1>1, <1>7, <2>1, <2>2, <2>3 DEF Connected, TypeOK
<1>20. CASE SpawnChild \/ ReadFile
  <2>1. attempt \in UnderWay
    BY <1>20, UnderWayTypes DEF SpawnChild, ReadFile
  <2>2. file[attempt.binding] \in Muxes \cup {NoMux} /\ attempt.binding \in Profiles
    BY <2>1 DEF UnderWay, TypeOK, EndpointTypeOK
  <2>3. attempt' \in UnderWay /\ child' \in Profiles \cup {NoProfile}
    BY <1>20, <2>1, <2>2 DEF SpawnChild, ReadFile, UnderWay, TypeOK
  <2>. QED BY <1>1, <1>20, <2>3, UnderWayTypes DEF SpawnChild, ReadFile, TypeOK
<1>8. CASE ConnectFails \/ BecomeReady
  <2>1. attempt' \in Attempts /\ ready' \in BOOLEAN
    <3>1. PICK at \in Continuing : attempt' = [attempt EXCEPT !.at = at]
      BY <1>8 DEF ConnectFails, BecomeReady, Continuing
    <3>2. attempt.at # "none" /\ ready' \in BOOLEAN
      BY <1>8 DEF ConnectFails, BecomeReady, TypeOK
    <3>3. attempt \in UnderWay
      BY <3>2, UnderWayTypes
    <3>4. attempt' \in UnderWay
      BY <3>1, <3>3 DEF UnderWay
    <3>. QED BY <3>2, <3>4, UnderWayTypes
  <2>. QED BY <1>1, <1>8, <2>1 DEF ConnectFails, BecomeReady, TypeOK
<1>9. ASSUME NEW ok \in BOOLEAN, Initialized(ok)
      PROVE  TypeOK'
  <2>1. attempt' \in Attempts
    BY <1>9 DEF Initialized, TypeOK, NobodyForgotten, Attempts, NoAttempt, Continuing
  <2>2. ws' \in Transports
    BY <1>9 DEF Initialized, TypeOK, Open, Transports, NoWs
  <2>3. pending' \in [Owners -> {"none", "cur", "stale"}]
    BY <1>9 DEF Initialized, TypeOK
  <2>. QED BY <1>1, <1>9, <2>1, <2>2, <2>3 DEF Initialized, TypeOK
<1>10. CASE RatesRead
  <2>1. attempt' \in Attempts
    BY <1>10 DEF RatesRead, TypeOK, NobodyForgotten, Attempts, NoAttempt, Continuing
  <2>2. pending' \in [Owners -> {"none", "cur", "stale"}]
    BY <1>10 DEF RatesRead, TypeOK
  <2>. QED BY <1>1, <1>10, <2>1, <2>2 DEF RatesRead, TypeOK
<1>11. CASE Finish
  <2>1. bound' \in Profiles
    BY <1>11 DEF Finish, Remembered, TypeOK, Attempts, NoAttempt
  <2>2. attempt' \in Attempts
    BY <1>11 DEF Finish, Attempts
  <2>. QED BY <1>1, <1>11, <2>1, <2>2, SentTypes DEF Finish, TypeOK
<1>12. CASE Fail
  <2>1. attempt' \in Attempts
    <3>1. CASE attempt' = NoAttempt
      BY <3>1 DEF Attempts
    <3>2. CASE attempt' = [attempt EXCEPT !.at = "owned", !.path = "owned", !.target = NoMux]
      <4>1. attempt \in UnderWay
        BY <1>12, UnderWayTypes DEF Fail
      <4>2. attempt' \in UnderWay
        BY <3>2, <4>1 DEF UnderWay, Continuing
      <4>. QED BY <4>2, UnderWayTypes
    <3>. QED BY <1>12, <3>1, <3>2 DEF Fail
  <2>2. ws' \in Transports /\ pending' \in [Owners -> {"none", "cur", "stale"}]
    BY <1>12 DEF Fail, TypeOK, Transports, Detached
  <2>3. stage' \in [Calls -> Stages]
    BY <1>12 DEF Fail, TypeOK, Stages
  <2>. QED BY <1>1, <1>12, <2>1, <2>2, <2>3 DEF Fail, TypeOK
<1>13. CASE Lost
  <2>1. ready' \in BOOLEAN
    BY <1>13 DEF Lost, TypeOK
  <2>2. ws' \in Transports
    BY <1>13, DownTypes DEF Lost, Open
  <2>. QED BY <1>1, <1>13, <2>1, <2>2 DEF Lost, TypeOK
<1>14. CASE Closed
  <2>1. ws' \in Transports
    BY <1>14, DownTypes DEF Closed
  <2>2. pending' \in [Owners -> {"none", "cur", "stale"}]
    BY <1>14 DEF Closed, NonePending
  <2>3. stage' \in [Calls -> Stages] /\ attempt' \in Attempts
    BY <1>14, StageTypes, AttemptTypes DEF Closed
  <2>. QED BY <1>1, <1>14, <2>1, <2>2, <2>3 DEF Closed, TypeOK
<1>15. CASE Reconnect
  <2>1. stage' \in [Calls -> Stages] /\ attempt' \in Attempts
    BY <1>15, StageTypes, AttemptTypes DEF Reconnect
  <2>2. Reset
    BY <1>15 DEF Reconnect
  <2>. QED BY <1>1, <1>15, <2>1, <2>2, ResetTypes DEF Reconnect, TypeOK
<1>16. CASE ResetOver \/ ChildExit
  BY <1>1, <1>16 DEF ResetOver, ChildExit, TypeOK
<1>17. ASSUME NEW o \in Owners, Timeout(o)
       PROVE  TypeOK'
  <2>1. UNCHANGED <<profile, requireShared>>
    BY <1>17 DEF Timeout
  <2>2. CASE Reset /\ stage' = Failed(TRUE) /\ attempt' = AttemptFailed
    <3>1. stage' \in [Calls -> Stages] /\ attempt' \in Attempts
      BY <2>2, StageTypes, AttemptTypes
    <3>. QED BY <1>1, <2>1, <2>2, <3>1, ResetTypes DEF TypeOK
  <2>3. CASE /\ pending' = [pending EXCEPT ![o] = "none"]
             /\ IF o \in Calls
                THEN stage' = [stage EXCEPT ![o] = Rejected(o, TRUE)] /\ UNCHANGED attempt
                ELSE attempt' = AttemptFailed /\ UNCHANGED stage
             /\ UNCHANGED <<ws, ready, resetting, bound, child, muxChild, signalled>>
    <3>1. pending' \in [Owners -> {"none", "cur", "stale"}]
      BY <2>3 DEF TypeOK
    <3>2. stage' \in [Calls -> Stages] /\ attempt' \in Attempts
      <4>1. CASE o \in Calls /\ stage' = [stage EXCEPT ![o] = Rejected(o, TRUE)]
                 /\ attempt' = attempt
        <5>1. Rejected(o, TRUE) \in {"again", "over"}
          BY <4>1, StageTypes
        <5>. QED BY <4>1, <5>1 DEF TypeOK, Stages
      <4>2. CASE attempt' = AttemptFailed /\ stage' = stage
        BY <4>2, AttemptTypes DEF TypeOK
      <4>. QED BY <2>3, <4>1, <4>2
    <3>. QED BY <1>1, <2>1, <2>3, <3>1, <3>2 DEF TypeOK
  <2>. QED BY <1>17, <2>2, <2>3 DEF Timeout
<1>18. ASSUME NEW p \in Profiles, Select(p)
       PROVE  TypeOK'
  BY <1>1, <1>18 DEF Select, TypeOK
<1>19. ASSUME NEW m \in Muxes, OthersLaunch(m) \/ Moves(m) \/ Ends(m)
       PROVE  TypeOK'
  BY <1>1, <1>19 DEF OthersLaunch, Moves, Ends, clientVars, TypeOK
<1>. QED
  BY <1>2, <1>3, <1>4, <1>5, <1>6, <1>7, <1>8, <1>9, <1>10, <1>11, <1>12, <1>13,
     <1>14, <1>15, <1>16, <1>17, <1>18, <1>19, <1>20 DEF Next

-----------------------------------------------------------------------------
(* Nobody is forgotten *)

\* Who failed is not awaiting an answer any more, and nobody new waits.
LEMMA FailedIs ==
    ASSUME TypeOK, NobodyForgotten, NEW r \in BOOLEAN
    PROVE  \A k \in Calls :
              /\ Failed(r)[k] \notin {"sent", "sent2"}
              /\ Failed(r)[k] \in {"wait", "wait2"} => Failed(r)[k] = stage[k]
BY DEF TypeOK, NobodyForgotten, Failed, Rejected

\* initialize() does not await an answer any more, and is not over either.
LEMMA AttemptFailedIs ==
    ASSUME TypeOK, NobodyForgotten
    PROVE  /\ AttemptFailed.at \notin {"init", "rates"}
           /\ AttemptFailed = NoAttempt <=> attempt = NoAttempt
           /\ AttemptFailed.at = "none" <=> attempt.at = "none"
<1>1. CASE attempt = NoAttempt
  BY <1>1 DEF NobodyForgotten, AttemptFailed, NoAttempt
<1>2. CASE attempt # NoAttempt
  <2>1. attempt \in UnderWay
    BY <1>2 DEF TypeOK, Attempts, UnderWay
  <2>. QED BY <1>2, <2>1 DEF NobodyForgotten, AttemptFailed, NoAttempt, UnderWay, Continuing
<1>. QED BY <1>1, <1>2

\* There is an attempt once somebody joined it.
LEMMA JoinedIs ==
    ASSUME NEW a \in Attempts, a.at \notin {"init", "rates"}
    PROVE  /\ Joined(a) # NoAttempt
           /\ Joined(a).at \notin {"init", "rates"}
BY DEF Joined, NoAttempt

\* What sendRpc does to the calls in S.
LEMMA SentIs ==
    ASSUME TypeOK, NobodyForgotten, NEW S \in SUBSET Calls, Sent(S),
           \A k \in S : stage[k] \notin {"sent", "sent2"}
    PROVE  /\ \A k \in Calls : stage'[k] \in {"sent", "sent2"} <=> pending'[k] # "none"
           /\ \A k \in Calls : stage'[k] \in {"wait", "wait2"} =>
                                  k \notin S /\ stage[k] \in {"wait", "wait2"}
           /\ \A o \in {"init", "rates"} : pending'[o] = pending[o]
<1>1. \A k \in Calls : k \notin S => stage'[k] = stage[k] /\ pending'[k] = pending[k]
  BY DEF Sent, Owners
<1>2. \A k \in S : pending[k] = "none"
  BY DEF NobodyForgotten
<1>3. \A k \in S : /\ Open => stage'[k] \in {"sent", "sent2"} /\ pending'[k] = "cur"
                   /\ ~Open => stage'[k] \in {"again", "over"} /\ pending'[k] = "none"
  BY <1>2 DEF Sent, Owners
<1>4. \A o \in {"init", "rates"} : pending'[o] = pending[o]
  BY ClientAssumption DEF Sent, Owners
<1>. QED BY <1>1, <1>3, <1>4 DEF NobodyForgotten

LEMMA EnsureForgetsNobody ==
    ASSUME TypeOK, NobodyForgotten, NEW k \in Calls, Ensure(k),
           stage[k] \in {"over", "again"}
    PROVE  NobodyForgotten'
<1>1. CASE Sent({k}) /\ attempt' = attempt
  <2>1. /\ \A j \in Calls : stage'[j] \in {"sent", "sent2"} <=> pending'[j] # "none"
        /\ \A j \in Calls : stage'[j] \in {"wait", "wait2"} => stage[j] \in {"wait", "wait2"}
        /\ pending'["init"] = pending["init"] /\ pending'["rates"] = pending["rates"]
    BY <1>1, SentIs
  <2>. QED BY <1>1, <2>1 DEF NobodyForgotten, Waiting
<1>2. CASE Reset /\ stage' = Waits(Failed(FALSE), k) /\ attempt' = Joined(AttemptFailed)
  <2>1. attempt' # NoAttempt /\ attempt'.at \notin {"init", "rates"}
    BY <1>2, AttemptTypes, AttemptFailedIs, JoinedIs
  <2>2. \A o \in Owners : pending'[o] = "none"
    BY <1>2 DEF Reset, NonePending
  <2>3. \A j \in Calls : stage'[j] \notin {"sent", "sent2"}
    BY <1>2, FailedIs, StageTypes DEF Waits
  <2>. QED BY <2>1, <2>2, <2>3 DEF NobodyForgotten, Owners
<1>3. CASE /\ stage' = Waits(stage, k) /\ attempt' = Joined(attempt)
           /\ UNCHANGED pending
  <2>1. attempt' # NoAttempt
    BY <1>3 DEF Joined, NoAttempt
  <2>2. attempt'.at = attempt.at \/ (attempt = NoAttempt /\ attempt'.at = "begin")
    BY <1>3 DEF Joined, NoAttempt
  <2>3. \A j \in Calls : \/ j # k /\ stage'[j] = stage[j]
                         \/ j = k /\ stage'[j] \in {"wait", "wait2"}
    BY <1>3 DEF Waits, TypeOK
  <2>4. attempt = NoAttempt => attempt.at = "none"
    BY DEF NoAttempt
  <2>. QED BY <1>3, <2>1, <2>2, <2>3, <2>4 DEF NobodyForgotten
<1>. QED BY <1>1, <1>2, <1>3 DEF Ensure

\* All RPCs of the map fail together.
LEMMA FailingForgetsNobody ==
    ASSUME TypeOK, NobodyForgotten, NEW r \in BOOLEAN, pending' = NonePending,
           stage' = Failed(r), attempt' = AttemptFailed
    PROVE  NobodyForgotten'
<1>1. \A o \in Owners : pending'[o] = "none"
  BY DEF NonePending
<1>2. attempt'.at \notin {"init", "rates"}
  BY AttemptFailedIs
<1>3. Waiting' # {} => attempt' # NoAttempt
  BY FailedIs, AttemptFailedIs DEF NobodyForgotten, Waiting
<1>. QED BY <1>1, <1>2, <1>3, FailedIs DEF NobodyForgotten, Owners

LEMMA AwaitedStep ==
    ASSUME TypeOK, NobodyForgotten, [Next]_vars
    PROVE  NobodyForgotten'
<1>1. ASSUME UNCHANGED <<attempt, pending, stage>>
      PROVE  NobodyForgotten'
  BY <1>1 DEF NobodyForgotten, Waiting
<1>2. ASSUME NEW k \in Calls, Request(k) \/ Retry(k)
      PROVE  NobodyForgotten'
  BY <1>2, EnsureForgetsNobody DEF Request, Retry
<1>3. ASSUME NEW k \in Calls, Answered(k)
      PROVE  NobodyForgotten'
  <2>1. \A j \in Calls : \/ j # k /\ stage'[j] = stage[j] /\ pending'[j] = pending[j]
                         \/ j = k /\ stage'[j] = "over" /\ pending'[j] = "none"
    BY <1>3 DEF Answered, TypeOK, Owners
  <2>2. \A o \in {"init", "rates"} : pending'[o] = pending[o]
    BY <1>3, ClientAssumption DEF Answered, TypeOK, Owners
  <2>3. attempt' = attempt
    BY <1>3 DEF Answered
  <2>. QED BY <2>1, <2>2, <2>3 DEF NobodyForgotten, Waiting
\* The attempt goes from a continuation to a continuation, or starts to await
\* something that is not an RPC.
<1>4. ASSUME attempt.at \notin {"none", "init", "rates"},
             attempt'.at \notin {"none", "init", "rates"}, stage' = stage,
             pending' = pending \/ pending' = Detached
      PROVE  NobodyForgotten'
  <2>1. \A o \in Owners : pending'[o] # "none" <=> pending[o] # "none"
    BY <1>4 DEF Detached
  <2>. QED BY <1>4, <2>1 DEF NobodyForgotten, Waiting, Owners, NoAttempt
<1>5. CASE Begin
  <2>1. attempt \in UnderWay
    BY <1>5, UnderWayTypes DEF Begin
  <2>2. attempt'.at \in {"owned", "port", "connect"}
    BY <1>5, <2>1 DEF Begin, UnderWay
  <2>. QED BY <1>5, <1>4, <2>2 DEF Begin
<1>6. CASE SpawnChild \/ StartOwned \/ ReadFile \/ ConnectFails \/ BecomeReady
  <2>1. attempt \in UnderWay
    BY <1>6, UnderWayTypes DEF SpawnChild, StartOwned, ReadFile, ConnectFails, BecomeReady
  <2>2. /\ attempt.at \in {"owned", "port", "connect", "wait", "ready"}
        /\ attempt'.at \in {"connect", "wait", "failed", "bind"}
        /\ stage' = stage /\ pending' = pending
    BY <1>6, <2>1
    DEF SpawnChild, StartOwned, ReadFile, ConnectFails, BecomeReady, UnderWay
  <2>. QED BY <1>4, <2>2
<1>7. CASE Connected
  <2>1. attempt.at \in {"connect", "wait"}
    BY <1>7 DEF Connected
  <2>2. attempt \in UnderWay
    BY <2>1, UnderWayTypes
  <2>3. attempt'.at = "init" /\ stage' = stage
    BY <1>7, <2>2 DEF Connected, UnderWay
  <2>4. \A o \in Owners : pending'[o] = IF o = "init" THEN "cur" ELSE pending[o]
    BY <1>7 DEF Connected, TypeOK
  <2>. QED BY <2>1, <2>3, <2>4, ClientAssumption DEF NobodyForgotten, Waiting, Owners, NoAttempt
<1>8. ASSUME NEW ok \in BOOLEAN, Initialized(ok)
      PROVE  NobodyForgotten'
  <2>1. attempt.at = "init" /\ pending["rates"] = "none"
    BY <1>8 DEF Initialized, NobodyForgotten
  <2>2. attempt \in UnderWay
    BY <2>1, UnderWayTypes
  <2>3. attempt'.at = (IF ok THEN "rates" ELSE "failed") /\ stage' = stage
    BY <1>8, <2>2 DEF Initialized, UnderWay
  <2>4. \A o \in Owners : pending'[o] = IF o = "init" THEN "none"
                                       ELSE IF o = "rates" /\ ok THEN "cur" ELSE pending[o]
    BY <1>8 DEF Initialized, TypeOK, Owners
  <2>. QED BY <2>1, <2>3, <2>4, ClientAssumption DEF NobodyForgotten, Waiting, Owners, NoAttempt
<1>9. CASE RatesRead
  <2>1. attempt.at = "rates" /\ pending["init"] = "none"
    BY <1>9 DEF RatesRead, NobodyForgotten
  <2>2. attempt \in UnderWay
    BY <2>1, UnderWayTypes
  <2>3. attempt'.at = "ready" /\ stage' = stage
    BY <1>9, <2>2 DEF RatesRead, UnderWay
  <2>4. \A o \in Owners : pending'[o] = IF o = "rates" THEN "none" ELSE pending[o]
    BY <1>9 DEF RatesRead, TypeOK
  <2>. QED BY <2>1, <2>3, <2>4, ClientAssumption DEF NobodyForgotten, Waiting, Owners, NoAttempt
<1>10. CASE Finish
  <2>1. attempt' = NoAttempt /\ attempt.at = "bind" /\ Sent(Waiting)
    BY <1>10 DEF Finish
  <2>2. Waiting \subseteq Calls /\ \A k \in Waiting : stage[k] \notin {"sent", "sent2"}
    BY DEF Waiting
  <2>3. /\ \A k \in Calls : stage'[k] \in {"sent", "sent2"} <=> pending'[k] # "none"
        /\ \A k \in Calls : stage'[k] \notin {"wait", "wait2"}
        /\ pending'["init"] = pending["init"] /\ pending'["rates"] = pending["rates"]
    BY <2>1, <2>2, SentIs DEF Waiting
  <2>. QED BY <2>1, <2>3 DEF NobodyForgotten, Waiting, NoAttempt
<1>11. CASE Fail
  <2>1. attempt \in UnderWay /\ attempt.at = "failed"
    BY <1>11, UnderWayTypes DEF Fail
  <2>2. pending' = pending \/ pending' = Detached
    BY <1>11 DEF Fail
  <2>3. CASE /\ attempt' = [attempt EXCEPT !.at = "owned", !.path = "owned",
                                           !.target = NoMux]
             /\ UNCHANGED stage
    <3>1. attempt'.at = "owned"
      BY <2>1, <2>3 DEF UnderWay
    <3>. QED BY <1>4, <2>1, <2>2, <2>3, <3>1
  <2>4. CASE /\ attempt' = NoAttempt
             /\ stage' = [k \in Calls |-> IF k \in Waiting THEN "over" ELSE stage[k]]
    <3>1. \A o \in Owners : pending'[o] # "none" <=> pending[o] # "none"
      BY <2>2 DEF Detached
    <3>2. \A k \in Calls : /\ stage'[k] \in {"sent", "sent2"} <=> stage[k] \in {"sent", "sent2"}
                           /\ stage'[k] \notin {"wait", "wait2"}
      BY <2>4 DEF Waiting
    <3>. QED BY <2>1, <2>4, <3>1, <3>2 DEF NobodyForgotten, Waiting, Owners, NoAttempt
  <2>. QED BY <1>11, <2>3, <2>4 DEF Fail
<1>12. CASE Closed \/ Reconnect
  BY <1>12, FailingForgetsNobody DEF Closed, Reconnect, Reset
<1>13. ASSUME NEW o \in Owners, Timeout(o)
       PROVE  NobodyForgotten'
  <2>1. CASE Reset /\ stage' = Failed(TRUE) /\ attempt' = AttemptFailed
    BY <2>1, FailingForgetsNobody DEF Reset
  <2>2. CASE /\ o \in Calls /\ pending' = [pending EXCEPT ![o] = "none"]
             /\ stage' = [stage EXCEPT ![o] = Rejected(o, TRUE)] /\ UNCHANGED attempt
    <3>1. Rejected(o, TRUE) \in {"again", "over"}
      BY <2>2, StageTypes
    <3>2. \A j \in Calls : \/ j # o /\ stage'[j] = stage[j] /\ pending'[j] = pending[j]
                           \/ j = o /\ stage'[j] \in {"again", "over"} /\ pending'[j] = "none"
      BY <2>2, <3>1 DEF TypeOK, Owners
    <3>3. \A x \in {"init", "rates"} : pending'[x] = pending[x]
      BY <2>2, ClientAssumption DEF TypeOK, Owners
    <3>. QED BY <2>2, <3>2, <3>3 DEF NobodyForgotten, Waiting
  <2>3. CASE /\ o \in {"init", "rates"} /\ pending' = [pending EXCEPT ![o] = "none"]
             /\ attempt' = AttemptFailed /\ UNCHANGED stage
    <3>1. pending[o] # "none"
      BY <1>13 DEF Timeout
    <3>2. \A x \in {"init", "rates"} : pending'[x] = "none"
      BY <2>3, <3>1 DEF NobodyForgotten, TypeOK, Owners
    <3>3. \A k \in Calls : pending'[k] = pending[k]
      BY <2>3, ClientAssumption DEF TypeOK, Owners
    <3>. QED BY <2>3, <3>2, <3>3, AttemptFailedIs DEF NobodyForgotten, Waiting
  <2>. QED BY <1>13, <2>1, <2>2, <2>3, ClientAssumption DEF Timeout, Owners
<1>. QED
  <2>1. CASE UNCHANGED vars
    BY <1>1, <2>1 DEF vars, clientVars
  <2>2. CASE Lost \/ ResetOver \/ ChildExit \/ \E p \in Profiles : Select(p)
    BY <1>1, <2>2 DEF Lost, ResetOver, ChildExit, Select
  <2>3. CASE \E m \in Muxes : OthersLaunch(m) \/ Moves(m) \/ Ends(m)
    BY <1>1, <2>3 DEF OthersLaunch, Moves, Ends, clientVars
  <2>. QED BY <1>2, <1>3, <1>5, <1>6, <1>7, <1>8, <1>9, <1>10, <1>11, <1>12, <1>13,
              <2>1, <2>2, <2>3 DEF Next

-----------------------------------------------------------------------------
(* The binding tells the truth *)

\* Whom an attempt connects to: the mux it has in mind is one of its profile,
\* it has no connection before it made one, and the connection that it then
\* initializes leads to its profile.
AttemptsOwnProfile ==
    /\ attempt.target # NoMux => Home[attempt.target] = attempt.binding
    /\ attempt.at \in {"owned", "port", "connect", "wait"} => ws = NoWs
    /\ attempt.at \in {"init", "failed"} => ~ws.greeted
    /\ attempt.at \in {"init", "rates", "ready", "bind"} /\ ws.via = "mux"
          => ws.home = attempt.binding

BindInv == AttemptsOwnProfile /\ BindingTellsTheTruth

\* A failing RPC of initialize() leaves the attempt its profile and its mux;
\* it fails only where it has not been greeted.
LEMMA FailingAttempt ==
    ASSUME TypeOK, NobodyForgotten, BindInv
    PROVE  /\ AttemptFailed.target = attempt.target
           /\ AttemptFailed.binding = attempt.binding
           /\ \/ AttemptFailed.at = attempt.at
              \/ AttemptFailed.at = "failed" /\ attempt.at = "init"
              \/ AttemptFailed.at = "ready" /\ attempt.at = "rates"
<1>1. CASE attempt = NoAttempt
  BY <1>1 DEF NobodyForgotten, AttemptFailed, NoAttempt
<1>2. CASE attempt # NoAttempt
  <2>1. attempt \in UnderWay
    BY <1>2 DEF TypeOK, Attempts, UnderWay
  <2>. QED BY <2>1 DEF NobodyForgotten, AttemptFailed, UnderWay, Continuing
<1>. QED BY <1>1, <1>2

\* What happens to the connection alone: it is lost or dropped, and with it
\* possibly the RPCs of initialize().
LEMMA LosingKeepsBinding ==
    ASSUME TypeOK, NobodyForgotten, BindInv,
           \/ ws' = NoWs
           \/ ws' = ws
           \/ \E st \in {"lost", "down"} : Open /\ ws' = [ws EXCEPT !.st = st]
           \/ ws.st = "lost" /\ ws' = [ws EXCEPT !.st = "down"],
           attempt' = attempt \/ attempt' = AttemptFailed,
           ready' => ready,
           ws'.st = "open" => bound' = bound
    PROVE  BindInv'
<1>1. \/ ws' = NoWs
      \/ ws' = ws
      \/ /\ ws'.st # "open" /\ ws.st \in {"open", "lost"} /\ ws'.via = ws.via
         /\ ws'.home = ws.home /\ ws'.greeted = ws.greeted
  <2>1. CASE ws = NoWs
    BY <2>1 DEF NoWs, Open
  <2>2. CASE ws \in [via : {"mux", "child"}, home : Profiles,
                     st : {"open", "lost", "down"}, greeted : BOOLEAN]
    BY <2>2 DEF Open
  <2>. QED BY <2>1, <2>2 DEF TypeOK, Transports
<1>2. /\ attempt'.target = attempt.target /\ attempt'.binding = attempt.binding
      /\ \/ attempt'.at = attempt.at
         \/ attempt'.at = "failed" /\ attempt.at = "init"
         \/ attempt'.at = "ready" /\ attempt.at = "rates"
  BY FailingAttempt
<1>3. ws'.st = "open" => ws' = ws
  BY <1>1 DEF NoWs
<1>4. AttemptsOwnProfile'
  BY <1>1, <1>2 DEF BindInv, AttemptsOwnProfile, NoWs
<1>5. attempt' = NoAttempt => attempt = NoAttempt
  BY AttemptFailedIs
<1>6. BindingTellsTheTruth'
  BY <1>3, <1>5 DEF BindInv, BindingTellsTheTruth, Open
<1>. QED BY <1>4, <1>6 DEF BindInv

LEMMA JoinedAttempt ==
    ASSUME NEW a
    PROVE  /\ Joined(a) # NoAttempt
           /\ \/ Joined(a) = a
              \/ Joined(a).at = "begin" /\ Joined(a).target = NoMux
<1>. DEFINE new == [NoAttempt EXCEPT !.at = "begin", !.binding = profile]
<1>1. new.at = "begin" /\ new.target = NoMux /\ NoAttempt.at = "none"
  BY DEF NoAttempt
<1>2. CASE a # NoAttempt
  <2>1. Joined(a) = a
    BY <1>2 DEF Joined
  <2>. QED BY <1>2, <2>1
<1>3. CASE a = NoAttempt
  <2>1. Joined(a) = new
    BY <1>3 DEF Joined
  <2>. HIDE DEF new
  <2>2. new # NoAttempt
    BY <1>1
  <2>. QED BY <1>1, <2>1, <2>2
<1>. QED BY <1>2, <1>3

\* A call that joins an attempt, or begins one.
LEMMA JoiningKeepsBinding ==
    ASSUME TypeOK, NobodyForgotten, BindInv, NEW k \in Calls, Ensure(k),
           UNCHANGED endpointVars
    PROVE  BindInv'
<1>1. CASE UNCHANGED <<ws, attempt, ready, bound>>
  BY <1>1, LosingKeepsBinding
<1>2. ASSUME \/ ws' = NoWs /\ attempt' = Joined(AttemptFailed)
             \/ ws' = ws /\ attempt' = Joined(attempt)
      PROVE  BindInv'
  <2>1. attempt' # NoAttempt
    BY <1>2, JoinedAttempt
  <2>2. \/ ws' = NoWs /\ attempt' = AttemptFailed
        \/ ws' = ws /\ attempt' = attempt
        \/ attempt'.at = "begin" /\ attempt'.target = NoMux
    BY <1>2, JoinedAttempt
  <2>3. AttemptsOwnProfile'
    BY <2>2, FailingAttempt DEF BindInv, AttemptsOwnProfile, NoWs
  <2>. QED BY <2>1, <2>3 DEF BindInv, BindingTellsTheTruth
<1>3. CASE Reset /\ attempt' = Joined(AttemptFailed)
  <2>1. ws' = NoWs
    BY <1>3 DEF Reset
  <2>. QED BY <1>2, <1>3, <2>1
<1>4. CASE attempt' = Joined(attempt) /\ ws' = ws
  BY <1>2, <1>4
<1>. QED BY <1>1, <1>3, <1>4 DEF Ensure

LEMMA BindStep ==
    ASSUME TypeOK, Published, NobodyForgotten, BindInv, [Next]_vars
    PROVE  BindInv'
<1>1. ASSUME UNCHANGED <<ws, attempt, bound>>, ready' => ready
      PROVE  BindInv'
  BY <1>1, LosingKeepsBinding
<1>2. ASSUME NEW k \in Calls, Request(k) \/ Retry(k)
      PROVE  BindInv'
  BY <1>2, JoiningKeepsBinding DEF Request, Retry
<1>3. CASE Begin
  <2>1. attempt \in UnderWay
    BY <1>3, UnderWayTypes DEF Begin
  <2>2. file[attempt.binding] # NoMux => Home[file[attempt.binding]] = attempt.binding
    BY <2>1 DEF Published, UnderWay
  <2>3. /\ attempt' # NoAttempt /\ attempt'.at \in {"owned", "port", "connect"}
        /\ attempt'.binding = attempt.binding
        /\ \/ attempt'.target = attempt.target
           \/ attempt'.target = file[attempt.binding] /\ file[attempt.binding] # NoMux
    <3>. DEFINE m == file[attempt.binding]
    <3>1. PICK at \in {"port", "connect"} :
            \/ m # NoMux /\ attempt' = [attempt EXCEPT !.at = "connect",
                                         !.path = "external", !.target = m]
            \/ attempt' = [attempt EXCEPT !.at = "owned", !.path = "owned"]
            \/ attempt' = [attempt EXCEPT !.at = at, !.path = "child"]
      BY <1>3 DEF Begin
    <3>2. CASE m # NoMux /\ attempt' = [attempt EXCEPT !.at = "connect",
                                                !.path = "external", !.target = m]
      BY <2>1, <3>1, <3>2 DEF UnderWay, NoAttempt
    <3>3. CASE attempt' = [attempt EXCEPT !.at = "owned", !.path = "owned"]
      BY <2>1, <3>3 DEF UnderWay, NoAttempt
    <3>4. CASE attempt' = [attempt EXCEPT !.at = at, !.path = "child"]
      BY <2>1, <3>4 DEF UnderWay, NoAttempt
    <3>. QED BY <3>1, <3>2, <3>3, <3>4
  <2>4. ws' = NoWs
    BY <1>3 DEF Begin
  <2>. QED BY <2>2, <2>3, <2>4 DEF BindInv, AttemptsOwnProfile, BindingTellsTheTruth
<1>4. CASE SpawnChild \/ StartOwned \/ ReadFile \/ ConnectFails
  <2>1. attempt \in UnderWay
    BY <1>4, UnderWayTypes DEF SpawnChild, StartOwned, ReadFile, ConnectFails
  <2>3. file[attempt.binding] # NoMux => Home[file[attempt.binding]] = attempt.binding
    BY <2>1 DEF Published, UnderWay
  <2>2. /\ attempt.at \in {"owned", "port", "connect", "wait"} /\ ws' = ws
        /\ attempt'.at \in {"connect", "wait", "failed"}
        /\ attempt'.binding = attempt.binding
        /\ attempt'.target \in {attempt.target, file[attempt.binding]}
    BY <1>4, <2>1 DEF SpawnChild, StartOwned, ReadFile, ConnectFails, UnderWay
  <2>. QED BY <2>2, <2>3 DEF BindInv, AttemptsOwnProfile, BindingTellsTheTruth, NoWs, NoAttempt
<1>5. CASE Connected
  <2>1. attempt.at \in {"connect", "wait"}
    BY <1>5 DEF Connected
  <2>2. attempt \in UnderWay
    BY <2>1, UnderWayTypes
  <2>3. /\ attempt'.at = "init" /\ attempt'.binding = attempt.binding
        /\ attempt'.target = attempt.target
    BY <1>5, <2>2 DEF Connected, UnderWay
  <2>4. ~ws'.greeted /\ (ws'.via = "mux" => ws'.home = attempt.binding)
    <3>1. CASE ws' = [via |-> "child", home |-> child, st |-> "open", greeted |-> FALSE]
      BY <3>1
    <3>2. ASSUME NEW m \in Muxes, m = attempt.target,
                 ws' = [via |-> "mux", home |-> Home[m], st |-> "open", greeted |-> FALSE]
          PROVE  ~ws'.greeted /\ ws'.home = attempt.binding
      <4>1. Home[m] = attempt.binding
        BY <3>2, NoMuxAssumption DEF BindInv, AttemptsOwnProfile
      <4>. QED BY <3>2, <4>1
    <3>. QED BY <1>5, <3>1, <3>2 DEF Connected
  <2>. QED BY <2>3, <2>4 DEF BindInv, AttemptsOwnProfile, BindingTellsTheTruth, NoAttempt
<1>6. ASSUME NEW ok \in BOOLEAN, Initialized(ok)
      PROVE  BindInv'
  <2>1. attempt.at = "init"
    BY <1>6 DEF Initialized, NobodyForgotten
  <2>2. attempt \in UnderWay
    BY <2>1, UnderWayTypes
  <2>3. /\ attempt'.at = (IF ok THEN "rates" ELSE "failed")
        /\ attempt'.binding = attempt.binding /\ attempt'.target = attempt.target
    BY <1>6, <2>2 DEF Initialized, UnderWay
  <2>4. ws'.via = ws.via /\ ws'.home = ws.home /\ ws'.greeted = ok
    BY <1>6 DEF Initialized, Open, TypeOK, Transports, NoWs
  <2>. QED BY <2>1, <2>3, <2>4 DEF BindInv, AttemptsOwnProfile, BindingTellsTheTruth, NoAttempt
<1>7. CASE RatesRead \/ BecomeReady
  <2>1. attempt.at \in {"rates", "ready"}
    BY <1>7 DEF RatesRead, BecomeReady, NobodyForgotten
  <2>2. attempt \in UnderWay
    BY <2>1, UnderWayTypes
  <2>3. /\ attempt'.at \in {"ready", "bind"} /\ ws' = ws
        /\ attempt'.binding = attempt.binding /\ attempt'.target = attempt.target
    BY <1>7, <2>2 DEF RatesRead, BecomeReady, UnderWay
  <2>. QED BY <2>1, <2>3 DEF BindInv, AttemptsOwnProfile, BindingTellsTheTruth, NoAttempt
<1>8. CASE Finish
  BY <1>8 DEF Finish, Remembered, BindInv, AttemptsOwnProfile, BindingTellsTheTruth, NoAttempt
<1>9. CASE Fail
  <2>1. attempt \in UnderWay /\ attempt.at = "failed"
    BY <1>9, UnderWayTypes DEF Fail
  <2>2. ~ws'.greeted
    BY <1>9, <2>1 DEF Fail, BindInv, AttemptsOwnProfile, NoWs
  <2>3. CASE attempt' = NoAttempt
    BY <2>2, <2>3 DEF BindInv, AttemptsOwnProfile, BindingTellsTheTruth, NoAttempt
  <2>4. CASE attempt' = [attempt EXCEPT !.at = "owned", !.path = "owned", !.target = NoMux]
             /\ ws' = NoWs
    <3>1. /\ attempt'.at = "owned" /\ attempt'.binding = attempt.binding
          /\ attempt'.target = NoMux
      BY <2>1, <2>4 DEF UnderWay
    <3>. QED BY <2>4, <3>1 DEF BindInv, AttemptsOwnProfile, BindingTellsTheTruth, NoAttempt
  <2>. QED BY <1>9, <2>3, <2>4 DEF Fail
<1>10. CASE Lost
  BY <1>10, LosingKeepsBinding DEF Lost
<1>11. CASE Closed
  BY <1>11, LosingKeepsBinding DEF Closed, Open
<1>12. ASSUME Reset, attempt' = AttemptFailed
       PROVE  BindInv'
  BY <1>12, LosingKeepsBinding DEF Reset, NoWs
<1>13. ASSUME NEW o \in Owners, Timeout(o)
       PROVE  BindInv'
  <2>1. CASE UNCHANGED <<ws, ready, bound>> /\ (attempt' = attempt \/ attempt' = AttemptFailed)
    BY <2>1, LosingKeepsBinding
  <2>. QED BY <1>12, <1>13, <2>1 DEF Timeout
<1>. QED
  <2>1. CASE UNCHANGED vars
    BY <1>1, <2>1 DEF vars, clientVars
  <2>2. CASE \/ ResetOver \/ ChildExit \/ \E p \in Profiles : Select(p)
             \/ \E k \in Calls : Answered(k)
    BY <1>1, <2>2 DEF ResetOver, ChildExit, Select, Answered
  <2>3. CASE \E m \in Muxes : OthersLaunch(m) \/ Moves(m) \/ Ends(m)
    BY <1>1, <2>3 DEF OthersLaunch, Moves, Ends, clientVars
  <2>4. CASE Reconnect
    BY <1>12, <2>4 DEF Reconnect
  <2>. QED BY <1>2, <1>3, <1>4, <1>5, <1>6, <1>7, <1>8, <1>9, <1>10, <1>11, <1>13,
              <2>1, <2>2, <2>3, <2>4 DEF Next

-----------------------------------------------------------------------------

ClientInv == TypeOK /\ Published /\ NobodyForgotten /\ BindInv

LEMMA ClientInitInv == Init => ClientInv
<1>1. SUFFICES ASSUME Init PROVE ClientInv
  OBVIOUS
<1>2. EndpointTypeOK /\ Published
  BY <1>1, EndpointInitInv DEF Init, EndpointInv
<1>5. TypeOK
  <2>1. RequireShared \in BOOLEAN
    BY ClientAssumption
  <2>. QED
    BY <1>1, <1>2, <2>1
    DEF Init, TypeOK, Transports, Attempts, NonePending, Stages
<1>3. NobodyForgotten
  BY <1>1 DEF Init, NobodyForgotten, Waiting, NonePending, NoAttempt, Owners
<1>4. BindInv
  BY <1>1 DEF Init, BindInv, AttemptsOwnProfile, BindingTellsTheTruth, NoAttempt, NoWs
<1>. QED BY <1>2, <1>3, <1>4, <1>5 DEF ClientInv

LEMMA ClientInvStep == ClientInv /\ [Next]_vars => ClientInv'
<1>1. SUFFICES ASSUME ClientInv, [Next]_vars PROVE ClientInv'
  OBVIOUS
<1>2. Published'
  BY <1>1, ClientStep, EndpointStep DEF ClientInv, EndpointInv, TypeOK
<1>. QED BY <1>1, <1>2, TypeStep, AwaitedStep, BindStep DEF ClientInv

LEMMA ClientInvHolds == Spec => []ClientInv
BY ClientInitInv, ClientInvStep, PTL DEF Spec

\* Every variable keeps its type; that of the attempt rests on NobodyForgotten:
\* an RPC of initialize() fails only under an attempt.
THEOREM TypeCorrect == Spec => []TypeOK
<1>1. ClientInv => TypeOK
  BY DEF ClientInv
<1>. QED BY <1>1, ClientInvHolds, PTL

\* Whoever awaits an answer has a running timer, and whoever waits for a
\* connection has an attempt under way (request, sendRpc, failPending, ensure).
THEOREM NobodyForgottenHolds == Spec => []NobodyForgotten
<1>1. ClientInv => NobodyForgotten
  BY DEF ClientInv
<1>. QED BY <1>1, ClientInvHolds, PTL

\* Between attempts, an initialized connection to a mux is bound to the profile
\* of that mux (startAndConnect, rememberRuntimeBinding).  Nothing is said of a
\* connection to a child.
THEOREM BindingTellsTheTruthHolds == Spec => []BindingTellsTheTruth
<1>1. ClientInv => BindingTellsTheTruth
  BY DEF ClientInv, BindInv
<1>. QED BY <1>1, ClientInvHolds, PTL
=============================================================================
