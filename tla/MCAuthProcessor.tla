--------------------------- MODULE MCAuthProcessor ---------------------------
(***************************************************************************)
(* Instances of AuthProcessor for TLC: identities, and the symmetry of the *)
(* requests and of the writes.                                             *)
(***************************************************************************)
EXTENDS AuthProcessorInv, TLC

\* Every request is for an identity of its own.
DistinctIdentities == [r \in Requests |-> r]

\* Every request is for one and the same identity.
OneIdentity == [r \in Requests |-> "alice"]

\* Writes differ in nothing, and requests in their identities alone.
TaskSymmetry == Permutations(Writes) \cup Permutations(Requests)
=============================================================================
