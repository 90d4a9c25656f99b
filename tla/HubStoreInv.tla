----------------------------- MODULE HubStoreInv ----------------------------
(***************************************************************************)
(* The inductive invariant of HubStore: what ties the tables of the store, *)
(* the copies the processes hold of them and the signatures to each other. *)
(***************************************************************************)
EXTENDS HubStore

Taken(c, n) == rows[c][n].stage # "NONE"

\* The intents are those of the states in the ledger, and at most one more,
\* which is PREPARED and succeeds the latest state.
IntentsFollow ==
    \A c \in Coins :
        /\ Len(intents[c]) \in {latest[c].seq, latest[c].seq + 1}
        /\ \A s \in DOMAIN intents[c] :
             intents[c][s].stage = "PREPARED" <=> s = latest[c].seq + 1
        /\ \A s \in DOMAIN intents[c] :
             intents[c][s].stage = "PREPARED" =>
                 /\ intents[c][s].prev = entries[c]
                 /\ LedgerValid(intents[c][s].hash)

\* A reservation is of its own nonce; one that is (to be) accepted is signed
\* by the user and has an intent, which adds exactly its request.
RowsBound ==
    \A c \in Coins, n \in Nonces :
        Taken(c, n) =>
            /\ rows[c][n].request.nonce = n
            /\ rows[c][n].status = "SIGNED" =>
                 LET row == rows[c][n]
                     intent == intents[c][row.seq]
                 IN /\ row.request.auth
                    /\ row.seq \in DOMAIN intents[c]
                    /\ intent.nonce = n
                    /\ intent.stage = row.stage
                    /\ intent.hash = row.hash
                    /\ intent.hash = Append(intent.prev, row.request)

\* Every intent is of a reservation that is (to be) accepted.
IntentsBound ==
    \A c \in Coins : \A s \in DOMAIN intents[c] :
        LET n == intents[c][s].nonce
        IN /\ Taken(c, n)
           /\ rows[c][n].status = "SIGNED"
           /\ rows[c][n].seq = s

Signing == {"state", "package", "commit"}

\* What a process holds of a reservation is what the store holds, except that
\* another process may have completed the reservation since.
LocalBound(local) ==
    LET c == local.coin
        n == local.nonce
        row == local.row
    IN /\ local.pc \in {"reserve", "gate"} => n = local.request.nonce
       /\ local.pc = "load" => Taken(c, n)
       /\ \A d \in Coins, m \in Nonces :
            <<d, m>> \in local.todo => Taken(d, m)
       /\ local.pc \in Signing =>
            /\ row.stage = "PREPARED"
            /\ \/ rows[c][n] = row
               \/ rows[c][n] = [row EXCEPT !.stage = "SIGNED"]
       /\ local.pc \in {"state", "package"} => row.status = "SIGNED"
       /\ local.pc \in {"package", "commit"} /\ row.status = "SIGNED" =>
            /\ local.ckpt.prev = intents[c][row.seq].prev
            /\ local.ckpt.hash = intents[c][row.seq].hash
       /\ local.pc = "commit" /\ row.status = "SIGNED" =>
            local.package = local.ckpt.hash

LocalsBound == \A p \in Conns : LocalBound(conn[p])

\* At most one transaction is open, and what it found when it began still
\* holds: the channel can be loaded and the nonce is new.
GatesHeld ==
    /\ \A p, q \in Conns :
          conn[p].pc = "gate" /\ conn[q].pc = "gate" => p = q
    /\ \A p \in Conns :
          conn[p].pc = "gate" =>
              Readable(conn[p].coin) /\ ~Taken(conn[p].coin, conn[p].nonce)

\* A signed state is that of an intent.
StateSigsBound ==
    \A s \in stateSigs :
        /\ s.seq \in DOMAIN intents[s.coin]
        /\ s.hash = intents[s.coin][s.seq].hash

\* A signed result is that of its nonce's reservation.
ResultSigsBound ==
    \A t \in resultSigs :
        LET n == t.result.nonce
        IN Taken(t.coin, n) /\ t.result = Result(rows[t.coin][n])

\* The ledger of a channel is valid once it has an entry.
LedgersValid ==
    \A c \in Coins :
        /\ entries[c] # <<>> => LedgerValid(entries[c])
        /\ \A i \in DOMAIN entries[c] : entries[c][i].auth

HubInv ==
    /\ TypeOK
    /\ LedgerRecoverable
    /\ IntentsFollow
    /\ RowsBound
    /\ IntentsBound
    /\ LocalsBound
    /\ GatesHeld
    /\ StateSigsBound
    /\ ResultSigsBound
    /\ LedgersValid

-----------------------------------------------------------------------------
(* What is signed, beyond HubInv: the inductive invariant of what the HUB  *)
(* promises to those it gave its signatures to.                            *)

\* A state is that of its intent, and commits to a valid ledger.
StatesBound ==
    \A c \in Coins : \A s \in DOMAIN states[c] :
        /\ states[c][s].hash = intents[c][s].hash
        /\ LedgerValid(states[c][s].hash)

\* A process goes on only with what it has signed.
LocalSigned(local) ==
    /\ local.pc \in Signing =>
         [coin |-> local.coin, result |-> Result(local.row)] \in resultSigs
    /\ local.pc \in {"package", "commit"} /\ local.row.status = "SIGNED" =>
         [ coin |-> local.coin, seq |-> local.row.seq,
           hash |-> local.ckpt.hash ] \in stateSigs

LocalsSigned == \A p \in Conns : LocalSigned(conn[p])

\* What is committed was signed before.
CommittedSigned ==
    \A c \in Coins :
        /\ \A n \in Nonces :
             rows[c][n].stage = "SIGNED" =>
                 [coin |-> c, result |-> Result(rows[c][n])] \in resultSigs
        /\ \A s \in DOMAIN states[c] :
             [coin |-> c, seq |-> s, hash |-> states[c][s].hash] \in stateSigs

PromiseInv ==
    /\ HubInv
    /\ StatesBound
    /\ LocalsSigned
    /\ CommittedSigned

\* An accepted reservation has a place in the ledger, and its entry index is
\* that of its own entry; a refused one has none.
Placed(row) ==
    IF row.status = "SIGNED"
    THEN /\ row.seq # 0
         /\ row.index + 1 \in DOMAIN row.hash
         /\ row.hash[row.index + 1] = row.request
    ELSE row.seq = 0 /\ row.hash = <<>> /\ row.index = 0

RowsPlaced == \A c \in Coins, n \in Nonces : Taken(c, n) => Placed(rows[c][n])

-----------------------------------------------------------------------------
(* What is known of the chain, whatever it does.                           *)

\* The blocks are of the present branch or an earlier one, no coin is born
\* above the highest block, and none is spent before its close delay.
BlocksBound ==
    /\ \A i \in DOMAIN blocks : blocks[i] <= branch
    /\ \A c \in Coins :
         /\ born[c] <= Height
         /\ spent[c] > 0 => born[c] > 0 /\ spent[c] > born[c] + CloseDelay

\* A snapshot of a coin has a peak unless its call failed, and is true of the
\* chain for as long as the block it was made at is on it; that block never
\* comes back once it is gone.
StillTrue(c, snap) ==
    /\ snap.peak = NoPeak => snap.fault \in {"rpc", "invalid", "no_peak"}
    /\ snap.peak.height > 0 =>
         /\ Canonical(snap.peak) \/ snap.peak.hash < branch
         /\ Canonical(snap.peak) /\ snap.coin.kind = "Confirmed" =>
              /\ snap.coin.birth = born[c]
              /\ born[c] \in 1..snap.peak.height

\* What the process that holds the lock saw of the chain.
GatesTrue ==
    \A p \in Conns :
        conn[p].pc = "gate" => StillTrue(conn[p].coin, conn[p].again)

ChainSeenInv == BlocksBound /\ GatesTrue

-----------------------------------------------------------------------------
(* What the channel's row says of the chain, for as long as no             *)
(* reorganisation has happened.                                            *)

\* A registered channel knows when its coin was born, and its heights follow.
HeightsKept ==
    \A c \in registered :
        born[c] > 0 /\ view[c].birth = born[c] /\ TermsBound(view[c])

\* So does a process that is about to register it.
RegistersKept ==
    \A p \in Conns :
        LET c == conn[p].coin
        IN conn[p].pc = "register" =>
              born[c] > 0 /\ conn[p].snap.coin.birth = born[c]

\* A channel that refused a reservation because it is frozen is activated, and
\* the chain has reached its cutoff.
FreezesKept ==
    \A c \in Coins, n \in Nonces :
        Taken(c, n) /\ rows[c][n].status = "REJECTED_FREEZING" =>
            view[c].activated /\ view[c].cutoff <= Height

\* What the process that holds the lock saw is not above the chain, is the
\* birth that the channel knows, and has reached the cutoff if the channel
\* has refused a reservation because it is frozen.
GatesStraight ==
    \A p \in Conns :
        LET c == conn[p].coin
            seen == conn[p].again
        IN conn[p].pc = "gate" =>
             /\ seen.peak = NoPeak \/ seen.peak.height <= Height
             /\ born[c] > 0 /\ seen.coin.birth = born[c]
             /\ \A n \in Nonces :
                  Taken(c, n) /\ rows[c][n].status = "REJECTED_FREEZING" =>
                     seen.peak = NoPeak \/ view[c].cutoff <= seen.peak.height

StraightChainInv ==
    branch = 0 =>
        HeightsKept /\ RegistersKept /\ GatesStraight /\ FreezesKept
=============================================================================
