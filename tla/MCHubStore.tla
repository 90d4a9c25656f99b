----------------------------- MODULE MCHubStore -----------------------------
(***************************************************************************)
(* Small instances of HubStore for TLC.                                    *)
(***************************************************************************)
EXTENDS HubStoreInv

CONSTANTS c1, c2, n1, n2, n3, p1, p2, r1

Symmetry == Permutations(Nonces) \cup Permutations(Conns)
=============================================================================
