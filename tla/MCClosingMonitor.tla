--------------------------- MODULE MCClosingMonitor ---------------------------
(***************************************************************************)
(* A channel of two entries, claims that are acceptable and claims that    *)
(* are not, and a tower that is given the packages of both states.         *)
(***************************************************************************)
EXTENDS ClosingMonitor

One == <<[nonce |-> 1, amount |-> 1]>>
Two == <<[nonce |-> 1, amount |-> 1], [nonce |-> 2, amount |-> 1]>>
Twice == <<[nonce |-> 1, amount |-> 1], [nonce |-> 1, amount |-> 1]>>

Claim(seq, entries, remainder, signed) ==
    [ seq |-> seq, entries |-> entries, reserved |-> EntriesSum(entries),
      remainder |-> remainder, signed |-> signed ]

MCPackages == {Claim(1, One, 1, TRUE), Claim(2, Two, 0, TRUE)}

\* Not acceptable: unsigned, a nonce used twice, overdrawn, no State 0.
MCClaims ==
    MCPackages \cup
    { Claim(0, <<>>, 2, FALSE),
      Claim(2, Two, 0, FALSE), Claim(2, Twice, 0, TRUE), Claim(2, Two, 1, TRUE),
      Claim(0, One, 1, TRUE) }
=============================================================================
