-------------------------- MODULE AppServerClient --------------------------
(***************************************************************************)
(* CodexAppServerClient of codex-app-server-client-service.js: the one     *)
(* connection of the web server to an app-server, and the calls sent over  *)
(* it.  It finds muxes through the endpoint files of MuxEndpoint, or       *)
(* starts a mux or an app-server of its own.                               *)
(*                                                                         *)
(* The web server is single-threaded: an event is handled, and then the    *)
(* promise continuations it caused, before the next event.  Continuations  *)
(* that are steps of their own (Running below) keep events out; the other  *)
(* processes go on meanwhile.                                              *)
(***************************************************************************)
EXTENDS MuxEndpoint

CONSTANTS Calls,          \* callers of request(), one call of each at a time
          Retried,        \* calls of a method in SAFE_RETRY_METHODS
          Resetting,      \* calls that leave resetOnTimeout on
          OldExe,         \* muxes of another codex executable than CODEX_EXE
          RequireShared,  \* CODEX_MOBILE_REQUIRE_SHARED_APP_SERVER
          PersistMux,     \* CODEX_MOBILE_PERSIST_OWNED_MUX
          Desktops,       \* muxes that others launch
          MayStop, MayCrash  \* those that may stop by themselves, or crash

ASSUME ClientAssumption ==
    /\ Retried \subseteq Calls /\ Resetting \subseteq Calls
    /\ Desktops \subseteq Muxes \ Owned /\ OldExe \subseteq Muxes
    /\ MayStop \subseteq Muxes /\ MayCrash \subseteq Muxes
    /\ RequireShared \in BOOLEAN /\ PersistMux \in BOOLEAN
    /\ {"init", "rates"} \cap Calls = {}

\* NoMux stands for a missing file or child, and is no process.
ASSUME NoMuxAssumption == NoMux \notin Muxes

VARIABLES
    profile,     \* the active profile: runtimeProfileBinding()
    ws,          \* this.ws: what it leads to, and whether it is open
    attempt,     \* this.connecting: the startAndConnect under way
    ready, resetting, requireShared,
    bound,       \* connectedRuntimeBindingKey
    child,       \* profile of the running app-server child
    muxChild,    \* the owned mux, unless PersistMux
    signalled,   \* muxes killed but not yet stopped
    pending,     \* the `pending` map: RPCs with a running timer
    stage        \* stage[k]: where call k is

clientVars == <<profile, ws, attempt, ready, resetting, requireShared, bound,
                child, muxChild, signalled, pending, stage>>
vars == <<endpointVars, clientVars>>

NoProfile == "none"
NoWs == [via |-> "none", home |-> NoProfile, st |-> "down", greeted |-> FALSE]
NoAttempt == [at |-> "none", path |-> "none", binding |-> NoProfile,
              target |-> NoMux]

\* readyState: "open" is 1; "lost" is closing or failed, onclose not yet run.
\* greeted: its initialize was accepted; only the properties read it.
Transports == [via : {"mux", "child"}, home : Profiles,
               st : {"open", "lost", "down"}, greeted : BOOLEAN] \cup {NoWs}

\* Points of startAndConnect: at the first five it is about to continue, at
\* the others it awaits an event.
Continuing == {"begin", "owned", "failed", "ready", "bind"}
\* port: startManagedChild awaits a free port; target: the mux it connects to.
Attempts == [at : Continuing \cup {"port", "connect", "wait", "init", "rates"},
             path : {"none", "external", "owned", "child"}, binding : Profiles,
             target : Muxes \cup {NoMux}] \cup {NoAttempt}

\* wait: in ensure(); sent: in sendRpc(); 2 is the retry; again: about to.
\* over: none under way, the last one being settled either way.
Stages == {"over", "wait", "sent", "again", "wait2", "sent2"}

Owners == Calls \cup {"init", "rates"}
Open == ws.st = "open"

\* Continuations are due: no event is handled before them.
Running == attempt.at \in Continuing \/ \E k \in Calls : stage[k] = "again"

-----------------------------------------------------------------------------
(* Outcomes of calls *)

\* A rejection of call k: request() retries once, if it may.
Rejected(k, recoverable) ==
    IF stage[k] = "sent" /\ k \in Retried /\ recoverable THEN "again" ELSE "over"

\* Mutant: the map is cleared without rejecting what is in it.
MutFailed(recoverable) == stage

\* failPending: the calls in the map are rejected.
Failed(recoverable) ==
    [k \in Calls |-> IF pending[k] # "none" THEN Rejected(k, recoverable)
                     ELSE stage[k]]

IsRetry(k) == stage[k] \in {"again", "wait2", "sent2"}

\* A signal still finds the process there.
Stoppable(m) == phase[m] \in {"starting", "probing", "up"}

NonePending == [o \in Owners |-> "none"]

\* Mutant: initialize is left waiting for an RPC that is gone.
MutAttemptFailed == attempt

\* The same for the RPCs of initialize(): it fails, or it shrugs off the
\* error of account/rateLimits/read.
AttemptFailed ==
    IF pending["init"] # "none" THEN [attempt EXCEPT !.at = "failed"]
    ELSE IF pending["rates"] # "none" THEN [attempt EXCEPT !.at = "ready"]
    ELSE attempt

\* closeTransportOnly: handlers detached, so that the RPCs sent on the old
\* connection are left to their timers.
Detached == [o \in Owners |-> IF pending[o] = "none" THEN "none" ELSE "stale"]

\* resetConnection, when it is not skipped, but for stage and attempt.
Reset ==
    /\ resetting' = TRUE /\ ready' = FALSE
    /\ ws' = NoWs /\ bound' = NoProfile
    /\ child' = NoProfile /\ muxChild' = NoMux
    /\ signalled' = signalled \cup {m \in Muxes \cap {muxChild} : Stoppable(m)}
    /\ pending' = NonePending

\* sendRpc of the calls in S; one of them may find the connection closed.
Sent(S) ==
    /\ stage' = [k \in Calls |->
                    IF k \notin S THEN stage[k]
                    ELSE IF Open THEN IF IsRetry(k) THEN "sent2" ELSE "sent"
                    ELSE IF k \in Retried /\ ~IsRetry(k) THEN "again" ELSE "over"]
    /\ pending' = [o \in Owners |-> IF o \in S /\ Open THEN "cur" ELSE pending[o]]

-----------------------------------------------------------------------------
(* request() and ensure() *)

\* runtimeBindingMismatch.
Mismatch == bound # NoProfile /\ bound # profile

\* Mutant: the profile is not read at the start of the attempt.
MutJoined(a) == IF a # NoAttempt THEN a ELSE [NoAttempt EXCEPT !.at = "begin"]

\* `connecting` is shared by all calls that find it set.
Joined(a) == IF a # NoAttempt THEN a
             ELSE [NoAttempt EXCEPT !.at = "begin", !.binding = profile]

Waits(st, k) == [st EXCEPT ![k] = IF IsRetry(k) THEN "wait2" ELSE "wait"]

Ensure(k) ==
    \/ /\ ready /\ Open /\ ~Mismatch
       /\ Sent({k})
       /\ UNCHANGED <<ws, attempt, ready, resetting, bound, child, muxChild, signalled>>
    \/ /\ ready /\ Open /\ Mismatch /\ ~resetting
       /\ Reset
       /\ stage' = Waits(Failed(FALSE), k)
       /\ attempt' = Joined(AttemptFailed)
    \/ /\ ~(ready /\ Open) \/ (Mismatch /\ resetting)
       /\ stage' = Waits(stage, k)
       /\ attempt' = Joined(attempt)
       /\ UNCHANGED <<ws, ready, resetting, bound, child, muxChild, signalled,
                      pending>>

\* A new call, from an event or from code that a settled call resumed.
Request(k) ==
    /\ stage[k] = "over"
    /\ Ensure(k)
    /\ UNCHANGED <<endpointVars, profile, requireShared>>

Retry(k) ==
    /\ stage[k] = "again"
    /\ Ensure(k)
    /\ UNCHANGED <<endpointVars, profile, requireShared>>

-----------------------------------------------------------------------------
(* startAndConnect *)

\* Up to its first await.
Begin ==
    /\ attempt.at = "begin"
    /\ ws' = NoWs /\ pending' = Detached
    /\ LET m == file[attempt.binding]
       IN \/ /\ m # NoMux
             /\ requireShared' = TRUE
             /\ attempt' = IF m \in OldExe
                           THEN [attempt EXCEPT !.at = "owned", !.path = "owned"]
                           ELSE [attempt EXCEPT !.at = "connect", !.path = "external",
                                                !.target = m]
          \/ /\ m = NoMux /\ requireShared
             /\ attempt' = [attempt EXCEPT !.at = "owned", !.path = "owned"]
             /\ UNCHANGED requireShared
          \/ /\ m = NoMux /\ ~requireShared
             /\ attempt' = [attempt EXCEPT
                              !.at = IF child = NoProfile THEN "port" ELSE "connect",
                              !.path = "child"]
             /\ UNCHANGED requireShared
    /\ UNCHANGED <<endpointVars, profile, ready, resetting, bound, child, muxChild,
                   signalled, stage>>

\* startManagedChild: the child of an earlier profile would have been taken.
SpawnChild ==
    /\ ~Running
    /\ attempt.at = "port"
    /\ child' = attempt.binding
    /\ attempt' = [attempt EXCEPT !.at = "connect"]
    /\ UNCHANGED <<endpointVars, profile, ws, ready, resetting, requireShared, bound,
                   muxChild, signalled, pending, stage>>

\* A pid that nothing names can be given to a new process.
Unused(m) == m # attempt.target /\ m # muxChild /\ m \notin signalled

\* startOwnedMuxAndConnect: a mux child that runs is waited for.
StartOwned ==
    /\ attempt.at = "owned"
    /\ IF muxChild # NoMux
       THEN /\ attempt' = [attempt EXCEPT !.at = "wait"]
            /\ UNCHANGED <<endpointVars, muxChild>>
       ELSE \/ \E m \in Owned :
                 /\ Home[m] = attempt.binding /\ Unused(m)
                 /\ Launch(m)
                 /\ muxChild' = IF PersistMux THEN NoMux ELSE m
                 /\ attempt' = [attempt EXCEPT !.at = "wait"]
            \/ /\ attempt' = [attempt EXCEPT !.at = "failed"]  \* the spawn failed
               /\ UNCHANGED <<endpointVars, muxChild>>
    /\ UNCHANGED <<profile, ws, ready, resetting, requireShared, bound, child,
                   signalled, pending, stage>>

\* waitForMuxEndpointAndConnect reads the file anew once it is not connecting
\* to the mux that it read before, which may take 15 s.
ReadFile ==
    /\ ~Running
    /\ attempt.at = "wait"
    /\ attempt.target # file[attempt.binding]
    /\ attempt' = [attempt EXCEPT !.target = file[attempt.binding]]
    /\ UNCHANGED <<endpointVars, profile, ws, ready, resetting, requireShared, bound,
                   child, muxChild, signalled, pending, stage>>

\* connectEndpoint: some try before its deadline succeeds.
Connected ==
    /\ ~Running
    /\ \/ /\ attempt.at = "connect" /\ attempt.path = "child" /\ child # NoProfile
          /\ ws' = [via |-> "child", home |-> child, st |-> "open", greeted |-> FALSE]
          /\ UNCHANGED requireShared
       \/ \E m \in Muxes :
            /\ attempt.at \in {"connect", "wait"} /\ m = attempt.target
            /\ Reachable(m)
            /\ ws' = [via |-> "mux", home |-> Home[m], st |-> "open", greeted |-> FALSE]
            /\ requireShared' = TRUE
    /\ attempt' = [attempt EXCEPT !.at = "init"]
    /\ pending' = [pending EXCEPT !["init"] = "cur"]
    /\ UNCHANGED <<endpointVars, profile, ready, resetting, bound, child,
                   muxChild, signalled, stage>>

\* The deadline of either passes, or there is no port or no child.
ConnectFails ==
    /\ ~Running
    /\ attempt.at \in {"port", "connect", "wait"}
    /\ attempt' = [attempt EXCEPT !.at = "failed"]
    /\ UNCHANGED <<endpointVars, profile, ws, ready, resetting, requireShared,
                   bound, child, muxChild, signalled, pending, stage>>

\* initialize is answered; "already initialized" will do, except to a child.
Initialized(ok) ==
    /\ ~Running
    /\ pending["init"] = "cur" /\ Open
    /\ attempt' = [attempt EXCEPT !.at = IF ok THEN "rates" ELSE "failed"]
    /\ pending' = [pending EXCEPT !["init"] = "none",
                                  !["rates"] = IF ok THEN "cur" ELSE @]
    /\ ws' = [ws EXCEPT !.greeted = ok]
    /\ UNCHANGED <<endpointVars, profile, ready, resetting, requireShared,
                   bound, child, muxChild, signalled, stage>>

\* account/rateLimits/read is answered, one way or the other.
RatesRead ==
    /\ ~Running
    /\ pending["rates"] = "cur" /\ Open
    /\ attempt' = [attempt EXCEPT !.at = "ready"]
    /\ pending' = [pending EXCEPT !["rates"] = "none"]
    /\ UNCHANGED <<endpointVars, profile, ws, ready, resetting, requireShared,
                   bound, child, muxChild, signalled, stage>>

\* The end of initialize().
BecomeReady ==
    /\ attempt.at = "ready"
    /\ ready' = TRUE
    /\ attempt' = [attempt EXCEPT !.at = "bind"]
    /\ UNCHANGED <<endpointVars, profile, ws, resetting, requireShared, bound,
                   child, muxChild, signalled, pending, stage>>

Waiting == {k \in Calls : stage[k] \in {"wait", "wait2"}}

\* Mutant: rememberRuntimeBinding's default, the profile selected by now.
MutRemembered == profile

Remembered == attempt.binding

\* rememberRuntimeBinding; `connecting` is cleared and its calls go on.
Finish ==
    /\ attempt.at = "bind"
    /\ bound' = Remembered
    /\ attempt' = NoAttempt
    /\ Sent(Waiting)
    /\ UNCHANGED <<endpointVars, profile, ws, ready, resetting, requireShared,
                   child, muxChild, signalled>>

\* Its catch: a listed mux that still runs is not replaced.
Fail ==
    /\ attempt.at = "failed"
    /\ IF attempt.path = "external"
       THEN ws' = NoWs /\ pending' = Detached
       ELSE UNCHANGED <<ws, pending>>
    /\ IF attempt.path = "external" /\ ~Alive(attempt.target)
       THEN /\ attempt' = [attempt EXCEPT !.at = "owned", !.path = "owned",
                                           !.target = NoMux]
            /\ UNCHANGED stage
       ELSE /\ attempt' = NoAttempt
            /\ stage' = [k \in Calls |-> IF k \in Waiting THEN "over" ELSE stage[k]]
    /\ UNCHANGED <<endpointVars, profile, ready, resetting, requireShared, bound,
                   child, muxChild, signalled>>

-----------------------------------------------------------------------------
(* Events of the connection, timers and processes *)

\* handleMessage: the response to a call.
Answered(k) ==
    /\ ~Running
    /\ pending[k] = "cur" /\ Open
    /\ pending' = [pending EXCEPT ![k] = "none"]
    /\ stage' = [stage EXCEPT ![k] = "over"]
    /\ UNCHANGED <<endpointVars, profile, ws, attempt, ready, resetting,
                   requireShared, bound, child, muxChild, signalled>>

\* A transport error or an oversized line; the close event comes later.
Lost ==
    /\ ~Running
    /\ Open
    /\ ws' = [ws EXCEPT !.st = "lost"]
    /\ ready' = (ready /\ ws.via = "child")  \* a closing WebSocket has no error event
    /\ UNCHANGED <<endpointVars, profile, attempt, resetting, requireShared,
                   bound, child, muxChild, signalled, pending, stage>>

\* onclose.
Closed ==
    /\ ~Running
    /\ ws.st \in {"open", "lost"}
    /\ ws' = [ws EXCEPT !.st = "down"]
    /\ ready' = FALSE
    /\ pending' = NonePending
    /\ stage' = Failed(TRUE)
    /\ attempt' = AttemptFailed
    /\ UNCHANGED <<endpointVars, profile, resetting, requireShared, bound, child,
                   muxChild, signalled>>

\* The timer of an RPC.  That of initialize resets the connection, that of
\* account/rateLimits/read does not.
Timeout(o) ==
    /\ ~Running
    /\ pending[o] # "none"
    /\ IF o \in Resetting \cup {"init"} /\ ~resetting
       THEN Reset /\ stage' = Failed(TRUE) /\ attempt' = AttemptFailed
       ELSE /\ pending' = [pending EXCEPT ![o] = "none"]
            /\ IF o \in Calls
               THEN stage' = [stage EXCEPT ![o] = Rejected(o, TRUE)] /\ UNCHANGED attempt
               ELSE attempt' = AttemptFailed /\ UNCHANGED stage
            /\ UNCHANGED <<ws, ready, resetting, bound, child, muxChild, signalled>>
    /\ UNCHANGED <<endpointVars, profile, requireShared>>

\* POST /api/app-server/reconnect, or an oversized WebSocket message.
Reconnect ==
    /\ ~Running /\ ~resetting
    /\ Reset /\ stage' = Failed(FALSE) /\ attempt' = AttemptFailed
    /\ UNCHANGED <<endpointVars, profile, requireShared>>

\* 250 ms later.
ResetOver ==
    /\ ~Running
    /\ resetting
    /\ resetting' = FALSE
    /\ UNCHANGED <<endpointVars, profile, ws, attempt, ready, requireShared, bound,
                   child, muxChild, signalled, pending, stage>>

\* The exit events of the two kinds of child.
ChildExit ==
    /\ ~Running
    /\ \/ child # NoProfile /\ child' = NoProfile /\ UNCHANGED muxChild
       \/ /\ muxChild # NoMux /\ ~Alive(muxChild)
          /\ muxChild' = NoMux /\ UNCHANGED child
    /\ ready' = FALSE
    /\ UNCHANGED <<endpointVars, profile, ws, attempt, resetting, requireShared,
                   bound, signalled, pending, stage>>

\* setActiveProfile: another profile becomes the active one.
Select(p) ==
    /\ ~Running
    /\ p # profile
    /\ profile' = p
    /\ UNCHANGED <<endpointVars, ws, attempt, ready, resetting, requireShared,
                   bound, child, muxChild, signalled, pending, stage>>

-----------------------------------------------------------------------------
(* The other processes *)

OthersLaunch(m) ==
    /\ m \in Desktops /\ Unused(m)
    /\ Launch(m)
    /\ UNCHANGED clientVars

Moves(m) == MuxStep(m) /\ UNCHANGED clientVars

\* With the signals of child.kill(), which arrive some time after.
Ends(m) ==
    /\ \/ m \in signalled \cup MayStop /\ Stop(m)
       \/ m \in MayCrash /\ Crash(m)
    /\ signalled' = signalled \ {m}
    /\ UNCHANGED <<profile, ws, attempt, ready, resetting, requireShared, bound,
                   child, muxChild, pending, stage>>

-----------------------------------------------------------------------------

Init ==
    /\ EndpointInit
    /\ profile \in Profiles
    /\ ws = NoWs /\ attempt = NoAttempt
    /\ ready = FALSE /\ resetting = FALSE
    /\ requireShared = RequireShared
    /\ bound = NoProfile /\ child = NoProfile
    /\ muxChild = NoMux /\ signalled = {}
    /\ pending = NonePending
    /\ stage = [k \in Calls |-> "over"]

Next ==
    \/ \E k \in Calls : Request(k) \/ Retry(k) \/ Answered(k)
    \/ Begin \/ SpawnChild \/ StartOwned \/ ReadFile \/ Connected \/ ConnectFails
    \/ \E ok \in BOOLEAN : Initialized(ok)
    \/ RatesRead \/ BecomeReady \/ Finish \/ Fail
    \/ Lost \/ Closed \/ Reconnect \/ ResetOver \/ ChildExit
    \/ \E o \in Owners : Timeout(o)
    \/ \E p \in Profiles : Select(p)
    \/ \E m \in Muxes : OthersLaunch(m) \/ Moves(m) \/ Ends(m)

Spec == Init /\ [][Next]_vars

\* Continuations run; between events, timers of RPCs that are due fire, and so
\* does the deadline of whatever startAndConnect awaits.
Fairness ==
    /\ WF_vars(Begin \/ StartOwned \/ BecomeReady \/ Finish \/ Fail)
    /\ \A k \in Calls : WF_vars(Retry(k))
    /\ SF_vars(ConnectFails \/ Timeout("init") \/ Timeout("rates"))
    /\ \A k \in Calls : SF_vars(Timeout(k))

LiveSpec == Spec /\ Fairness

-----------------------------------------------------------------------------
(* Properties *)

TypeOK ==
    /\ EndpointTypeOK
    /\ profile \in Profiles
    /\ ws \in Transports /\ attempt \in Attempts
    /\ ready \in BOOLEAN /\ resetting \in BOOLEAN
    /\ requireShared \in BOOLEAN
    /\ bound \in Profiles \cup {NoProfile} /\ child \in Profiles \cup {NoProfile}
    /\ muxChild \in Owned \cup {NoMux} /\ signalled \subseteq Owned
    /\ pending \in [Owners -> {"none", "cur", "stale"}]
    /\ stage \in [Calls -> Stages]

\* Whoever awaits an answer has a timer running for it, whatever connection it
\* was sent on, and whoever waits for a connection has an attempt under way.
NobodyForgotten ==
    /\ \A k \in Calls : stage[k] \in {"sent", "sent2"} <=> pending[k] # "none"
    /\ attempt.at = "init" <=> pending["init"] # "none"
    /\ attempt.at = "rates" <=> pending["rates"] # "none"
    /\ Waiting # {} => attempt # NoAttempt

\* Between attempts, an initialized connection to a mux that calls may use is
\* bound to the profile of that mux, so that a call made after another profile
\* has been selected notices (ensure, 321).  It is not so for a child: one that
\* still runs for an earlier profile is taken for this one (408).
BindingTellsTheTruth ==
    attempt = NoAttempt /\ ready /\ Open /\ ws.greeted /\ ws.via = "mux"
        => bound = ws.home

\* Every call is settled, however the connection, the profile, the processes
\* and the other calls behave.
CallSettles == \A k \in Calls : stage[k] # "over" ~> stage[k] = "over"
============================================================================
