--------------------------- MODULE SharedAppServer ---------------------------
(***************************************************************************)
(* What the mux promises the processes on its two sides, with no transport *)
(* in it.  Every client believes it talks to an app-server of its own:     *)
(* each of its requests gets one answer, or none if the client is gone.    *)
(* The app-server believes it talks to one client: each question it asks   *)
(* (an approval, a user-input request) gets at most one answer, and none   *)
(* once it has withdrawn it.                                               *)
(***************************************************************************)
EXTENDS Naturals

CONSTANTS Reqs,      \* the requests clients may send
          Questions  \* the requests the app-server may send to its clients

VARIABLES req,        \* req[r]: how far request r has come
          raised,     \* questions the app-server has asked
          withdrawn,  \* questions it has settled
          answers     \* answers[s]: how many answers to s it was given

absVars == <<req, raised, withdrawn, answers>>

AbsInit ==
    /\ req = [r \in Reqs |-> "new"]
    /\ raised = {}
    /\ withdrawn = {}
    /\ answers = [s \in Questions |-> 0]

\* An answer may be at hand as soon as the request is sent; the sender may be
\* gone by then.  "answered" and "lost" are final.
Moves ==
    {<<"new", "open">>, <<"new", "answered">>, <<"new", "lost">>,
     <<"open", "answered">>, <<"open", "lost">>}

\* Clients that go away lose all their requests in one step, but no two
\* requests are sent or answered together.
RequestStep ==
    /\ req' \in [Reqs -> {"new", "open", "answered", "lost"}]
    /\ \A r \in Reqs : req'[r] = req[r] \/ <<req[r], req'[r]>> \in Moves
    /\ \A r, x \in Reqs :
          (req'[r] # req[r] /\ req'[x] # req[x] /\ r # x)
              => "lost" \in {req'[r], req'[x]}

Raise(s) ==
    /\ s \notin raised
    /\ raised' = raised \cup {s}
    /\ UNCHANGED <<withdrawn, answers>>

Withdraw(s) ==
    /\ s \in raised \ withdrawn
    /\ withdrawn' = withdrawn \cup {s}
    /\ UNCHANGED <<raised, answers>>

Answer(s) ==
    /\ s \in raised \ withdrawn
    /\ answers[s] = 0
    /\ answers' = [answers EXCEPT ![s] = 1]
    /\ UNCHANGED <<raised, withdrawn>>

QuestionStep ==
    \/ \E s \in Questions : Raise(s) \/ Withdraw(s) \/ Answer(s)
    \/ UNCHANGED <<raised, withdrawn, answers>>

AbsNext == RequestStep /\ QuestionStep

AbsSpec == AbsInit /\ [][AbsNext]_absVars
=============================================================================
