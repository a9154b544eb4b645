---------------------------- MODULE DraftDelivery ----------------------------
(***************************************************************************)
(* What the VoxSpark queue promises the author of a draft, with no lease,  *)
(* ledger, disk or page in it.  Codex takes a draft at most once, and only *)
(* one that was handed to a page.  One draft is in a page's hands at a     *)
(* time.  The author is told that a draft is delivered only when Codex has *)
(* it; one whose outcome is unknown is not offered again, and neither is   *)
(* one that was delivered or cancelled.                                    *)
(***************************************************************************)
EXTENDS Naturals

CONSTANT Drafts

VARIABLES draft,    \* draft[d]: what the author sees of d
          claimed,  \* the drafts that were handed to a page
          taken     \* taken[d]: how often Codex took d

absVars == <<draft, claimed, taken>>

Outlooks == {"absent", "queued", "leased", "delivered", "failed", "unknown",
             "cancelled", "expired"}

\* A delivered draft becomes unknown when the backend restarts; a draft that
\* is not delivered yet may be found to be.
Moves ==
    {<<"absent", "queued">>, <<"queued", "leased">>, <<"queued", "cancelled">>,
     <<"leased", "delivered">>, <<"leased", "failed">>, <<"leased", "unknown">>,
     <<"failed", "queued">>, <<"failed", "delivered">>, <<"failed", "unknown">>,
     <<"failed", "cancelled">>, <<"unknown", "delivered">>, <<"delivered", "unknown">>}
    \cup (Outlooks \ {"absent"}) \X {"expired"}

AbsInit ==
    /\ draft = [d \in Drafts |-> "absent"]
    /\ claimed = {}
    /\ taken = [d \in Drafts |-> 0]

\* d comes to be in state o.
Becomes(d, o) == draft[d] # o /\ draft'[d] = o

\* Any number of drafts may move at once; one of them at most is handed out,
\* and only while no other is.
DraftStep ==
    /\ draft' \in [Drafts -> Outlooks]
    /\ \A d \in Drafts : draft'[d] = draft[d] \/ <<draft[d], draft'[d]>> \in Moves
    /\ \A d \in Drafts : Becomes(d, "delivered") => taken[d] = 1
    /\ \A c, d \in Drafts : Becomes(d, "leased") /\ draft'[c] = "leased" => c = d
    /\ claimed' = claimed \cup {d \in Drafts : Becomes(d, "leased")}
    /\ UNCHANGED taken

\* Codex may take a draft at any time after it was handed out, as what was
\* posted may be late, but not one that it was said to have.
Take(d) ==
    /\ d \in claimed
    /\ draft[d] # "delivered"
    /\ taken[d] = 0
    /\ taken' = [taken EXCEPT ![d] = 1]
    /\ UNCHANGED <<draft, claimed>>

AbsNext == DraftStep \/ \E d \in Drafts : Take(d)

AbsSpec == AbsInit /\ [][AbsNext]_absVars
=============================================================================
