------------------------- MODULE MCStaggerRestarts -------------------------
(* Small instances of StaggerRestarts for TLC. *)
EXTENDS StaggerRestarts, TLC

CONSTANTS a, b, org1, p1, p2, p3

\* Two components of one organisation.
OneOrgMSPOf == a :> org1 @@ b :> org1
OneOrgCROf  == 1 :> a @@ 2 :> b

\* One component, requested twice.
OneCRMSPOf  == a :> org1
OneCRCROf   == 1 :> a @@ 2 :> a

PodSymmetry == Permutations({p1, p2, p3})
=============================================================================
