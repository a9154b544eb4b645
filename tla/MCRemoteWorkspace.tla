------------------------- MODULE MCRemoteWorkspace -------------------------
(* Two cards, the run that the timer keeps going and one the settings page  *)
(* may force; a queue of one return.                                        *)
EXTENDS RemoteWorkspace

CONSTANTS c1, c2, scheduled, pressed

\* Bound: runs overlap as long as there is one card and few faults.  What it cuts
\* off are a second card, a forced run and a failure, none of which is fair.
OverlapBound == overlapped' => Len(arrived') <= 1 /\ faults' <= 2
=============================================================================
