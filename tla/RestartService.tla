--------------------------- MODULE RestartService ---------------------------
(***************************************************************************)
(* What the staggered restart queue promises to those who ask it for       *)
(* restarts, without queues, copies of the config map or pods: a request   *)
(* that was accepted waits for its turn, one component of an organisation  *)
(* is restarted at a time, and a restart that is over is not taken up      *)
(* again.  The promise is void once a writer has replaced the config map   *)
(* from an outdated copy.                                                  *)
(***************************************************************************)
EXTENDS FiniteSets

CONSTANTS CRs, MSPIDs, MSPOf, Requests, CROf

VARIABLES
    stage,      \* how far each request has come
    void        \* an outdated copy was written back

serviceVars == <<stage, void>>

\* new: not accepted; gone: its component was found deleted
Stages == {"new", "queued", "restarting", "done", "gone"}

Of(m) == {r \in Requests : MSPOf[CROf[r]] = m}

Init == stage = [r \in Requests |-> "new"] /\ void = FALSE

Accept(r) ==
    /\ stage[r] = "new"
    /\ stage' = [stage EXCEPT ![r] = "queued"]
    /\ UNCHANGED void

At(m, s) == {r \in Of(m) : stage[r] = s}

\* The requests R of organisation m, all at stage "from", move to stage "to".
Move(m, R, from, to) ==
    /\ R # {} /\ R \subseteq At(m, from)
    /\ \A r, q \in R : CROf[r] = CROf[q]
    /\ \A r \in Of(m) : stage'[r] = IF r \in R THEN to ELSE stage[r]

\* One component's turn comes or is over.
Turn(m) ==
    \/ At(m, "restarting") = {} /\ \E R \in SUBSET At(m, "queued") : Move(m, R, "queued", "restarting")
    \/ At(m, "restarting") = {} /\ \E R \in SUBSET At(m, "queued") : Move(m, R, "queued", "gone")
    \/ Move(m, At(m, "restarting"), "restarting", "done")

\* The turns of several organisations may come at once.
Serve ==
    /\ \A m \in MSPIDs : Turn(m) \/ \A r \in Of(m) : stage'[r] = stage[r]
    /\ UNCHANGED void

Void == void'

Next == Void \/ (\E r \in Requests : Accept(r)) \/ Serve

Spec == Init /\ [][Next]_serviceVars
=============================================================================
