------------------------- MODULE MCCustodyGreenlight ------------------------
(***************************************************************************)
(* Two towers, the second with two attesters in its one failure domain; a  *)
(* HUB that signed two different first states, and a successor of one that *)
(* also pays another merchant, who confirms nothing here.                  *)
(***************************************************************************)
EXTENDS CustodyGreenlight

CONSTANTS w1, w2, a, b, other, a1, a2, a3, d1, d2, k1, m1, m2

First(entry) ==
    [seq |-> 1, entries |-> <<entry>>, prev |-> "genesis", reveal |-> "puzzle",
     valid |-> TRUE]

Second ==
    [First(a) EXCEPT !.seq = 2, !.entries = <<a, other>>, !.prev = Checkpoint(First(a))]
Conflicting == {First(a), First(b), Second}

MCReceiptKey == a :> m1 @@ b :> m1 @@ other :> m2
MCConfirmerKey == k1 :> m1
MCAttesterKey == a1 :> a1 @@ a2 :> a2 @@ a3 :> a3
MCDomain == a1 :> d1 @@ a2 :> d2 @@ a3 :> d2
MCCustodian == a1 :> w1 @@ a2 :> w2 @@ a3 :> w2
=============================================================================
