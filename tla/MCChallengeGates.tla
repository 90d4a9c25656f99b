-------------------------- MODULE MCChallengeGates --------------------------
(***************************************************************************)
(* A channel of two entries that is closed at State 0, a tower that comes  *)
(* to hold both its packages, and one approver of each failure domain.     *)
(***************************************************************************)
EXTENDS ChallengeGates

CONSTANTS a1, b1

One == <<[nonce |-> 1, amount |-> 1]>>
Two == <<[nonce |-> 1, amount |-> 1], [nonce |-> 2, amount |-> 1]>>

Claim(seq, entries, remainder, signed) ==
    [ seq |-> seq, entries |-> entries, reserved |-> EntriesSum(entries),
      remainder |-> remainder, signed |-> signed ]

MCFirstPackage == Claim(1, One, 1, TRUE)
MCPackages == {MCFirstPackage, Claim(2, Two, 0, TRUE)}

MCClaims == {Claim(0, <<>>, 2, FALSE)}

MCDomainOf == [a \in Approvers |-> IF a = a1 THEN "d1" ELSE "d2"]

\* The approval of domain d2 is the first to expire.
MCStatements ==
    {[approver |-> a1, expires |-> 2], [approver |-> b1, expires |-> 1]}
=============================================================================
