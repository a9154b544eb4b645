------------------------------- MODULE MCMux -------------------------------
(***************************************************************************)
(* Instances of Mux for TLC.  Each run turns up the part of the system it  *)
(* is about and turns the others down.                                     *)
(***************************************************************************)
EXTENDS Mux, TLC

CONSTANTS desk, m1

\* No client asks for less than the buffer holds...
LimitAbove == [c \in Clients |-> BufferLimit + 1]
\* ... or the mobile ones do.
LimitBelow == [c \in Clients |-> IF c \in Mobile THEN 1 ELSE BufferLimit + 1]

\* Bound: a fourth request is made only while no question has been asked.
RequestsBound == Cardinality(asked') <= 3 \/ raised' = {}

\* Turns have no order but that of their notifications.
TurnSymmetry == Permutations(Turns)
=============================================================================
