------------------------------ MODULE MCClient ------------------------------
(* Two profiles; a desktop's mux and an owned mux, both of the second.  In  *)
(* the first one the web server falls back on an app-server of its own.     *)
EXTENDS AppServerClient

CONSTANTS p1, p2, d1, o1

HomeOf == [m \in Muxes |-> p2]

\* Bound: the desktop's mux is told to stop only while it probes.
StopBound == phase[d1] # "stopping" /\ phase'[d1] = "stopping" => phase[d1] = "probing"
============================================================================
