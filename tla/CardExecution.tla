---------------------------- MODULE CardExecution ----------------------------
(***************************************************************************)
(* What a remote node and its control plane promise about a task card,     *)
(* with no request, key or file in it.  Cards are executed one at a time,  *)
(* each at most once, and only while they have no result.  A result is     *)
(* final, and it is the outcome of an execution that has ended or, for a   *)
(* card that is taken for a duplicate, none.                               *)
(*                                                                         *)
(* The node's user may have a second run of the node started while one is  *)
(* under way.  From then on, only what is said of results is promised.     *)
(***************************************************************************)
CONSTANTS Cards, Outcomes, Suppressed

VARIABLES standing,   \* standing[c]: what the control plane says of c
          begun,      \* the cards whose execution was started,
          awaited,    \* those it is waited for,
          ended,      \* those for which the wait has ended,
          over,       \* and those whose local turn has
          overlapped  \* two runs were under way at once

absVars == <<standing, begun, awaited, ended, over, overlapped>>

AbsInit ==
    /\ standing = [c \in Cards |-> "absent"]
    /\ begun = {} /\ awaited = {} /\ ended = {} /\ over = {}
    /\ overlapped = FALSE

Arrive(c) ==
    /\ standing[c] = "absent"
    /\ standing' = [standing EXCEPT ![c] = "open"]
    /\ UNCHANGED <<begun, awaited, ended, over, overlapped>>

Begin(c) ==
    /\ overlapped \/ (standing[c] = "open" /\ c \notin begun /\ awaited = {})
    /\ begun' = begun \cup {c} /\ awaited' = awaited \cup {c}
    /\ UNCHANGED <<standing, ended, over, overlapped>>

\* The local turn ends, whether it is waited for or not.
TurnEnds(c) ==
    /\ c \in begun \ over
    /\ over' = over \cup {c}
    /\ UNCHANGED <<standing, begun, awaited, ended, overlapped>>

\* The wait ends, with the turn or without it.
Finish(c) ==
    /\ c \in awaited
    /\ overlapped \/ standing[c] = "open"
    /\ awaited' = awaited \ {c} \/ (overlapped /\ awaited' = awaited)
    /\ ended' = ended \cup {c}
    /\ UNCHANGED <<standing, begun, over, overlapped>>

\* The node stops while it waits.
Abandon ==
    /\ awaited # {}
    /\ awaited' = {}
    /\ UNCHANGED <<standing, begun, ended, over, overlapped>>

\* The outcome of an execution is the control plane's.
Settle(c, o) ==
    /\ standing[c] = "open" /\ c \in ended
    /\ o = "completed" => c \in over
    /\ standing' = [standing EXCEPT ![c] = o]
    /\ UNCHANGED <<begun, awaited, ended, over, overlapped>>

\* A card that was interrupted, or whose outcome was lost, is not executed again.
Suppress(c) ==
    /\ standing[c] = "open"
    /\ overlapped \/ c \notin awaited
    /\ standing' = [standing EXCEPT ![c] = Suppressed]
    /\ UNCHANGED <<begun, awaited, ended, over, overlapped>>

Overlap ==
    /\ overlapped' = TRUE
    /\ UNCHANGED <<standing, begun, awaited, ended, over>>

AbsNext ==
    \/ \E c \in Cards :
          \/ Arrive(c) \/ Begin(c) \/ TurnEnds(c) \/ Finish(c) \/ Suppress(c)
          \/ \E o \in Outcomes : Settle(c, o)
    \/ Abandon \/ Overlap

AbsSpec == AbsInit /\ [][AbsNext]_absVars
=============================================================================
