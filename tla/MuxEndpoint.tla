---------------------------- MODULE MuxEndpoint ----------------------------
(***************************************************************************)
(* The life of the mux processes of codex-app-server-mux.js around the     *)
(* endpoint file of each profile, through which clients find a mux.        *)
(*                                                                         *)
(* Each mux is a process of its own, so another process may read or write  *)
(* the file between any two steps of it.  A mux value stands for a pid and *)
(* may be launched again once nothing names it.                            *)
(***************************************************************************)
EXTENDS Naturals, FiniteSets

CONSTANTS Profiles,
          Muxes,        \* mux processes (pids)
          Home,         \* Home[m]: the profile (CODEX_HOME, endpoint file) of m
          Owned,        \* those Mobile Web spawns: CODEX_MUX_STANDALONE
          KeepAlive,    \* those with CODEX_MUX_KEEP_ALIVE
          StdioArgs     \* those launched with --listen stdio://

ASSUME MuxEndpointAssumption ==
    /\ Home \in [Muxes -> Profiles]
    /\ Owned \subseteq KeepAlive /\ KeepAlive \subseteq Muxes
    /\ StdioArgs \subseteq Muxes \ Owned

VARIABLES phase,   \* phase[m], where the process m is
          saw,     \* saw[m]: the mux read from the file and being connected to
          file     \* file[p]: the mux the endpoint file of p names

endpointVars == <<phase, saw, file>>

NoMux == "none"   \* what a missing or unreadable file names

\* attaching: main awaits tryAttachToExistingMux; starting: before the listen
\* callback; probing: shouldPublishEndpoint awaits a connection; attached: a
\* desktop piped to another mux; stopping: shutdown ran, process.exit is due.
Phases == {"off", "attaching", "starting", "probing", "up", "attached",
           "stopping", "crashed"}

\* The process exists, so that kill(pid, 0) succeeds.
Alive(m) == phase[m] \notin {"off", "crashed"}

\* Its TCP server accepts connections.
Reachable(m) == phase[m] \in {"probing", "up"}

EndpointInit ==
    /\ phase = [m \in Muxes |-> "off"]
    /\ saw = [m \in Muxes |-> NoMux]
    /\ file = [p \in Profiles |-> NoMux]

Became(m, ph) == phase' = [phase EXCEPT ![m] = ph]

\* cleanupEndpointFile: the file is unlinked when it names this process.
Cleaned(m) ==
    IF file[Home[m]] = m THEN [file EXCEPT ![Home[m]] = NoMux] ELSE file

\* main: a desktop's keep-alive mux first tries to attach to a listed one.
Launch(m) ==
    /\ phase[m] \in {"off", "crashed"}
    /\ \A p \in Profiles : file[p] # m
    /\ \A n \in Muxes : saw[n] # m
    /\ IF m \in Owned \/ m \notin KeepAlive \/ file[Home[m]] = NoMux
       THEN Became(m, "starting") /\ UNCHANGED saw
       ELSE Became(m, "attaching") /\ saw' = [saw EXCEPT ![m] = file[Home[m]]]
    /\ UNCHANGED file

\* connectExistingEndpoint, on the way to attachDesktopToExistingMux.
Attach(m) ==
    /\ phase[m] = "attaching"
    /\ Became(m, IF Reachable(saw[m]) THEN "attached" ELSE "starting")
    /\ saw' = [saw EXCEPT ![m] = NoMux]
    /\ UNCHANGED file

\* An attached desktop ends with its stdin or with the mux it is attached to.
Detach(m) ==
    /\ phase[m] = "attached"
    /\ Became(m, "off")
    /\ UNCHANGED <<saw, file>>

\* The listen callback, up to the connection shouldPublishEndpoint awaits.
Listen(m) ==
    /\ phase[m] = "starting"
    /\ IF m \notin StdioArgs \/ file[Home[m]] = NoMux
       THEN /\ Became(m, "up")
            /\ file' = [file EXCEPT ![Home[m]] = m]
            /\ UNCHANGED saw
       ELSE /\ Became(m, "probing")
            /\ saw' = [saw EXCEPT ![m] = file[Home[m]]]
            /\ UNCHANGED file

\* The rest of it: publish unless the mux seen accepted.  A mux told to stop
\* while it waits still gets here, until it exits.
Publish(m) ==
    /\ saw[m] # NoMux
    /\ phase[m] \in {"probing", "stopping"}
    /\ file' = IF Reachable(saw[m]) THEN file ELSE [file EXCEPT ![Home[m]] = m]
    /\ Became(m, IF phase[m] = "probing" THEN "up" ELSE "stopping")
    /\ saw' = [saw EXCEPT ![m] = NoMux]

\* shutdown: on a signal, when the app-server exits, or at the end of the
\* stdin of a desktop that does not keep the mux alive.
Stop(m) ==
    /\ phase[m] \in {"starting", "probing", "up"}
    /\ Became(m, "stopping")
    /\ file' = Cleaned(m)
    /\ UNCHANGED saw

\* Mutant: no exit handler, the file having been cleaned up by shutdown.
MutExit(m) ==
    /\ phase[m] = "stopping"
    /\ Became(m, "off")
    /\ saw' = [saw EXCEPT ![m] = NoMux]
    /\ UNCHANGED file

\* process.exit 50 ms later, with cleanupEndpointFile as exit handler.
Exit(m) ==
    /\ phase[m] = "stopping"
    /\ Became(m, "off")
    /\ file' = Cleaned(m)
    /\ saw' = [saw EXCEPT ![m] = NoMux]

\* SIGKILL or power: nothing is cleaned up.
Crash(m) ==
    /\ phase[m] \in {"starting", "probing", "up", "stopping"}
    /\ Became(m, "crashed")
    /\ saw' = [saw EXCEPT ![m] = NoMux]
    /\ UNCHANGED file

\* What a mux process does by itself once launched.
MuxStep(m) == Attach(m) \/ Detach(m) \/ Listen(m) \/ Publish(m) \/ Exit(m)

\* Whatever starts, stops or kills muxes can only do this to them.
EndpointNext ==
    \E m \in Muxes : Launch(m) \/ MuxStep(m) \/ Stop(m) \/ Crash(m)

EndpointSpec == EndpointInit /\ [][EndpointNext]_endpointVars

EndpointTypeOK ==
    /\ phase \in [Muxes -> Phases]
    /\ saw \in [Muxes -> Muxes \cup {NoMux}]
    /\ file \in [Profiles -> Muxes \cup {NoMux}]

\* A mux that ended by itself leaves no endpoint file behind, not even one
\* that was told to stop while it was about to publish (exit handler, 1047).
NoGhostEndpoint ==
    \A p \in Profiles : file[p] # NoMux => phase[file[p]] # "off"
============================================================================
