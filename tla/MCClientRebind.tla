--------------------------- MODULE MCClientRebind ---------------------------
(* AppServerClient with history variables that only the property reads.     *)
EXTENDS MCClient

VARIABLES since,       \* since[k]: the profiles selected since call k was made
          misdirected  \* calls sent to the app-server of none of these

HistInit ==
    /\ Init
    /\ since = [k \in Calls |-> {}]
    /\ misdirected = {}

HistNext ==
    /\ Next
    /\ since' = [k \in Calls |->
                    IF stage'[k] = "over" THEN {}
                    ELSE IF stage[k] = "over" THEN {profile}
                    ELSE since[k] \cup {profile'}]
    /\ misdirected' = misdirected \cup
         {k \in Calls : /\ pending[k] = "none" /\ pending'[k] = "cur"
                        /\ ws.home \notin since'[k]}

HistSpec == HistInit /\ [][HistNext]_<<vars, since, misdirected>>

\* test/codex-app-server-client-service.test.js:261, "turn requests rebind
\* before sending after active profile changes": no call is sent to the
\* app-server of a profile that was not selected at any time since it was made.
RebindBeforeSending == misdirected = {}
============================================================================
