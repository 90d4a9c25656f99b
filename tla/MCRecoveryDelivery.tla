-------------------------- MODULE MCRecoveryDelivery ------------------------
(***************************************************************************)
(* Three towers, a HUB with two states, and a first state of another       *)
(* ledger of the same coin.                                                *)
(***************************************************************************)
EXTENDS RecoveryDelivery

CONSTANTS w1, w2, w3, a, b, c, k1, r1, r2

Package(seq, entries, prev) ==
    [seq |-> seq, entries |-> entries, prev |-> prev, reveal |-> "puzzle",
     valid |-> TRUE]

First == Package(1, <<a>>, "genesis")
Second == Package(2, <<a, b>>, Checkpoint(First))
Other == Package(1, <<c>>, "genesis")

OneState == <<First>>
TwoStates == <<First, Second>>
HubOnly == {First, Second}
OneAndOther == {First, Other}
NoForeign == [w \in {w1, w2, w3} |-> {}]
OtherAtFirst == [NoForeign EXCEPT ![w1] = {Other}]

ThreeRecipients == <<w1, w2, w3>>

Quorums(n) ==
    {[seq |-> s, key |-> k1, kind |-> "WATCHTOWER", targets |-> ThreeRecipients] :
        s \in 1..n}
Singles(kind, towers) ==
    {[seq |-> 1, key |-> k1, kind |-> kind, targets |-> <<w>>] : w \in towers}

AskedOnce == Quorums(1) \cup Singles("MERCHANT", {w2}) \cup Singles("WATCHTOWER", {w1})
AskedAgain == Quorums(1)

Symmetry == Permutations(Requests)
=============================================================================
