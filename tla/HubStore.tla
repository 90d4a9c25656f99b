------------------------------ MODULE HubStore ------------------------------
(***************************************************************************)
(* The HUB's reservation core: hub-v3_6/src/lib.rs.                        *)
(*                                                                         *)
(* Several processes hold connections to one SQLite database and serve     *)
(* requests with it.  A reservation goes through two transactions, with    *)
(* the signatures made between them:                                       *)
(*                                                                         *)
(*     StartReserve   the first chain snapshot, before any transaction     *)
(*     Evaluate       transaction 1 begins: the second snapshot            *)
(*     Prepare        transaction 1 ends: the gate's verdict, the PREPARED *)
(*                    reservation and the PREPARED intent                  *)
(*     LoadPrepared   reads them back and signs the result                 *)
(*     SignState      signs the state of the intent                        *)
(*     BuildPackage   builds and validates the RecoveryPackage             *)
(*     Commit*        transaction 2: compare-and-set of the channel's      *)
(*                    latest state; state, entry, intent, reservation      *)
(*                                                                         *)
(* BEGIN IMMEDIATE takes SQLite's only write lock, so a transaction is one *)
(* action, except that transaction 1 asks the chain while it holds the     *)
(* lock: between Evaluate and Prepare other processes read, but do not     *)
(* write, and the chain goes on.  The reads between the two transactions   *)
(* are made outside any transaction and are actions of their own.  A       *)
(* process may crash between any two actions; what it committed stays.     *)
(*                                                                         *)
(* A checkpoint hash stands for the ledger the checkpoint commits to, so   *)
(* the hash of state zero is the empty sequence.                           *)
(***************************************************************************)
EXTENDS FundingChain

CONSTANTS
    Conns,              \* connections to the database, one per process
    RequestIds,         \* request_id
    Confirmations,      \* confirmation_blocks of every registration
    Faults              \* what the chain provider may suffer from

\* "rpc"      the provider's call fails with RpcUnavailable
\* "invalid"  it fails with InvalidResponse or ConflictingSources
\* "no_peak"  the node knows no peak
\* "foreign"  the node is of another network
\* "unsynced" the node is not synced
AllFaults == {"rpc", "invalid", "no_peak", "foreign", "unsynced"}

ASSUME HubAssumption ==
    /\ Confirmations \in Nat
    /\ Faults \subseteq AllFaults
    /\ RequestIds # {}

VARIABLES
    registered, \* channels that have a row in v36_channels
    view,       \* chain columns of v36_channels
    latest,     \* latest_sequence and latest_checkpoint_hash of v36_channels
    rows,       \* v36_reservations
    intents,    \* v36_state_intents, by state_sequence
    states,     \* v36_states, by state_sequence
    entries,    \* v36_ledger_entries, by entry_index + 1
    conn,       \* what each process is doing, and what it holds in memory
    stateSigs,  \* every HUB state signature ever made
    resultSigs  \* every HUB result signature ever made

store == <<registered, view, latest, rows, intents, states, entries>>
sigs == <<stateSigs, resultSigs>>
hubVars == <<registered, view, latest, rows, intents, states, entries, conn,
             stateSigs, resultSigs>>
vars == <<hubVars, chainVars>>

-----------------------------------------------------------------------------
(* Values                                                                  *)

ChainStates ==
    {"UNCONFIRMED", "ACTIVE", "NODE_NOT_SYNCED", "RPC_UNAVAILABLE",
     "CHAIN_STATE_UNCERTAIN", "REORG_PENDING", "CLOSING"}

Statuses ==
    {"SIGNED", "REJECTED_FREEZING", "INVALID_AUTHORIZATION",
     "INSUFFICIENT_REMAINDER", "LEDGER_FULL", "CHANNEL_CLOSING",
     "NODE_NOT_SYNCED", "RPC_UNAVAILABLE", "CHAIN_STATE_UNCERTAIN",
     "CHANNEL_REORG_PENDING"}

\* A coin may be seen in the highest block, so its close height may lie
\* CloseDelay beyond the model's highest.
BlockHeights == 0..(MaxHeight + CloseDelay)

Views ==
    [ birth : 0..MaxHeight, cutoff : BlockHeights, close : BlockHeights,
      state : ChainStates, activated : BOOLEAN, peak : Peaks ]

NoView ==
    [ birth |-> 0, cutoff |-> 0, close |-> 0, state |-> "UNCONFIRMED",
      activated |-> FALSE, peak |-> NoPeak ]

Pointers == [seq : Nat, hash : Ledgers]

\* A reservation row.  seq, hash and index are NULL (here 0 and <<>>) and
\* ledger_written is 0 unless status is SIGNED.
Rows ==
    [ stage : {"NONE", "PREPARED", "SIGNED"}, request : Requests,
      id : RequestIds, peak : Nat, cutoff : BlockHeights, close : BlockHeights,
      status : Statuses, seq : Nat, hash : Ledgers, index : Nat ]

Intents == [prev : Ledgers, hash : Ledgers, nonce : Nonces,
            stage : {"PREPARED", "SIGNED"}]

States == [hash : Ledgers, package : Ledgers]

Results ==
    [ id : RequestIds, nonce : Nonces, amount : Amounts, status : Statuses,
      seq : Nat, hash : Ledgers, peak : Nat, cutoff : BlockHeights,
      close : BlockHeights ]

Snapshots ==
    [fault : Faults \cup {"none"}, peak : Peaks, coin : FundingCoinStates]

-----------------------------------------------------------------------------
(* The chain gate                                                          *)

\* What the provider answers for a coin now.  A failed call has no peak.
SnapshotsNow(c) ==
    { [ fault |-> f,
        peak |-> IF f \in {"rpc", "invalid", "no_peak"} THEN NoPeak ELSE Tip,
        coin |-> FundingCoin(c) ] : f \in Faults \cup {"none"} }

\* confirmation_depth
Depth(peak, birth) == IF peak.height < birth THEN 0 ELSE peak.height - birth + 1

\* The row that persist_chain_observation writes: the peak only if there is
\* one.
Observed(old, state, peak) ==
    [old EXCEPT !.state = state, !.peak = IF peak = NoPeak THEN @ ELSE peak]

\* GateEvaluation: the row written, the status that blocks a reservation
\* ("SIGNED" if none does) and the height it is judged at.
Verdict(new, status) ==
    [ view |-> new, status |-> status,
      height |-> IF new.peak = NoPeak THEN 0 ELSE new.peak.height ]

\* One of the two calls failed.
FailedVerdict(old, initial, committed) ==
    LET peak == IF committed.peak # NoPeak THEN committed.peak ELSE initial.peak
        rpc == "rpc" \in {initial.fault, committed.fault}
    IN IF rpc
       THEN Verdict(Observed(old, "RPC_UNAVAILABLE", peak), "RPC_UNAVAILABLE")
       ELSE Verdict(Observed(old, "CHAIN_STATE_UNCERTAIN", peak),
                    "CHAIN_STATE_UNCERTAIN")

\* The peaks went back or changed: between the two snapshots, or since the
\* last observation the channel remembers.
PeakReorged(old, initial, committed) ==
    \E earlier \in {initial.peak, old.peak} :
        /\ earlier # NoPeak
        /\ \/ committed.peak.height < earlier.height
           \/ /\ committed.peak.height = earlier.height
              /\ committed.peak.hash # earlier.hash

\* The coin is not on the chain.
MissingVerdict(old, peak) ==
    IF old.activated
    THEN Verdict(Observed(old, "REORG_PENDING", peak), "CHANNEL_REORG_PENDING")
    ELSE Verdict(Observed(old, "CHAIN_STATE_UNCERTAIN", peak),
                 "CHAIN_STATE_UNCERTAIN")

\* The coin is spent: its birth and close heights are taken over, the
\* acceptance cutoff is left as it was.
SpentVerdict(old, committed) ==
    LET birth == committed.coin.birth
        new == [ Observed(old, "CLOSING", committed.peak)
                 EXCEPT !.birth = birth, !.close = birth + CloseDelay ]
    IN Verdict(new, "CHANNEL_CLOSING")

\* The acceptance cutoff a coin seen at this birth height leaves the channel
\* with: once activated it may only come closer.
CutoffFromClose(old, birth) == birth + CloseDelay + AcceptanceBlocks  \* mutant
CutoffMoves(old, birth) == birth + AcceptanceBlocks                   \* mutant
EffectiveCutoff(old, birth) ==
    LET new == birth + AcceptanceBlocks
    IN IF old.activated /\ old.cutoff < new THEN old.cutoff ELSE new

\* The coin is on the chain and unspent.
ConfirmedVerdict(old, initial, committed) ==
    LET birth == committed.coin.birth
        peak == committed.peak
        reorged == \/ PeakReorged(old, initial, committed)
                   \/ initial.coin # committed.coin
                   \/ birth # old.birth
        cutoff == EffectiveCutoff(old, birth)
        activated == old.activated \/ Depth(peak, birth) >= Confirmations
        status == CASE ~activated -> "CHAIN_STATE_UNCERTAIN"
                    [] activated /\ reorged -> "CHANNEL_REORG_PENDING"
                    [] activated /\ ~reorged /\ peak.height >= cutoff ->
                         "REJECTED_FREEZING"
                    [] OTHER -> "SIGNED"
        state == CASE status = "CHAIN_STATE_UNCERTAIN" -> "UNCONFIRMED"
                   [] status = "CHANNEL_REORG_PENDING" -> "REORG_PENDING"
                   [] OTHER -> "ACTIVE"
    IN Verdict([ birth |-> birth, cutoff |-> cutoff,
                 close |-> birth + CloseDelay, state |-> state,
                 activated |-> activated, peak |-> peak ], status)

\* Both calls count.
FaultOfCommitted(initial, committed) == {committed.fault}            \* mutant
FaultsOf(initial, committed) == {initial.fault, committed.fault}

\* persist_blocked_snapshot: the status blocks the reservation, and of the
\* channel only its state and the peak seen change.
Blocked(old, status, committed) ==
    Verdict(Observed(old, status, committed.peak), status)

\* evaluate_chain_snapshots, in the order it makes its checks
Gate(old, initial, committed) ==
    LET faults == FaultsOf(initial, committed)
    IN IF faults \cap {"rpc", "invalid"} # {}
       THEN FailedVerdict(old, initial, committed)
       ELSE IF faults \cap {"no_peak", "foreign"} # {}
       THEN Blocked(old, "CHAIN_STATE_UNCERTAIN", committed)
       ELSE IF "unsynced" \in faults
       THEN Blocked(old, "NODE_NOT_SYNCED", committed)
       ELSE CASE committed.coin.kind = "Missing" ->
                   MissingVerdict(old, committed.peak)
              [] committed.coin.kind = "Spent" -> SpentVerdict(old, committed)
              [] committed.coin.kind = "Confirmed" ->
                   ConfirmedVerdict(old, initial, committed)

-----------------------------------------------------------------------------
(* Reading the store                                                       *)

\* load_channel: the checks that make it fail with Corrupt.
TermsBound(v) ==
    /\ IF v.activated
       THEN v.cutoff <= v.birth + AcceptanceBlocks
       ELSE v.cutoff = v.birth + AcceptanceBlocks
    /\ v.close = v.birth + CloseDelay

PointerBound(c) ==
    IF latest[c].seq = 0
    THEN latest[c].hash = <<>>
    ELSE /\ latest[c].seq \in DOMAIN states[c]
         /\ states[c][latest[c].seq].hash = latest[c].hash

Readable(c) == c \in registered /\ TermsBound(view[c]) /\ PointerBound(c)

\* has_prepared_intent
HasPreparedIntent(c) ==
    \E seq \in DOMAIN intents[c] : intents[c][seq].stage = "PREPARED"

\* load_intent_checkpoint finds only a PREPARED intent.
PreparedIntent(c, seq) ==
    seq \in DOMAIN intents[c] /\ intents[c][seq].stage = "PREPARED"

\* validate_reservation_binding: what a reservation's row must be, or it is
\* Corrupt.  The handlers leave the test out: Spec => []BindingsHold, which
\* HubProofs proves, says that it never fails.
BindingHolds(row, n) ==
    /\ row.request.nonce = n
    /\ IF row.status = "SIGNED" THEN row.seq # 0 /\ row.hash # <<>>
                                ELSE row.seq = 0 /\ row.hash = <<>> /\ row.index = 0

\* reservation_result_from: what the HUB signs as its answer to a nonce.  The
\* authorization_hash covers the entry, not the user's signature of it.
Result(row) ==
    [ id |-> row.id, nonce |-> row.request.nonce,
      amount |-> row.request.amount, status |-> row.status, seq |-> row.seq,
      hash |-> row.hash, peak |-> row.peak, cutoff |-> row.cutoff,
      close |-> row.close ]

-----------------------------------------------------------------------------
(* Processes                                                               *)

PCs == {"idle", "down", "register", "reserve", "gate", "recover", "load",
        "state", "package", "commit"}

AnyRequest == CHOOSE r \in Requests : TRUE

NoRow ==
    [ stage |-> "NONE", request |-> AnyRequest,
      id |-> CHOOSE i \in RequestIds : TRUE, peak |-> 0, cutoff |-> 0,
      close |-> 0, status |-> "INVALID_AUTHORIZATION", seq |-> 0,
      hash |-> <<>>, index |-> 0 ]

NoSnapshot ==
    [ fault |-> "none", peak |-> NoPeak,
      coin |-> [kind |-> "Missing", birth |-> 0] ]

NoCheckpoint == [prev |-> <<>>, hash |-> <<>>]

Idle ==
    [ pc |-> "idle", coin |-> CHOOSE c \in Coins : TRUE, request |-> AnyRequest,
      id |-> CHOOSE i \in RequestIds : TRUE, snap |-> NoSnapshot,
      again |-> NoSnapshot, nonce |-> AnyRequest.nonce, row |-> NoRow,
      ckpt |-> NoCheckpoint, package |-> <<>>, todo |-> {} ]

\* What process p does once it is through with one reservation: the next of
\* those it recovers, if it is recovering.
Rest(p) ==
    [ Idle EXCEPT !.pc = IF conn[p].todo = {} THEN "idle" ELSE "recover",
                  !.todo = conn[p].todo ]

Become(p, local) == conn' = [conn EXCEPT ![p] = local]

\* A transaction is open, and holds the write lock.
Locked == \E q \in Conns : conn[q].pc = "gate"

Checkpoints == [prev : Ledgers, hash : Ledgers]

Locals ==
    [ pc : PCs, coin : Coins, request : Requests, id : RequestIds,
      snap : Snapshots, again : Snapshots, nonce : Nonces, row : Rows,
      ckpt : Checkpoints, package : Ledgers, todo : SUBSET (Coins \X Nonces) ]

TypeOK ==
    /\ ChainTypeOK
    /\ registered \subseteq Coins
    /\ view \in [Coins -> Views]
    /\ latest \in [Coins -> Pointers]
    /\ rows \in [Coins -> [Nonces -> Rows]]
    /\ intents \in [Coins -> Seq(Intents)]
    /\ states \in [Coins -> Seq(States)]
    /\ entries \in [Coins -> Ledgers]
    /\ conn \in [Conns -> Locals]
    /\ stateSigs \subseteq [coin : Coins, seq : Nat, hash : Ledgers]
    /\ resultSigs \subseteq [coin : Coins, result : Results]

Init ==
    /\ ChainInit
    /\ registered = {}
    /\ view = [c \in Coins |-> NoView]
    /\ latest = [c \in Coins |-> [seq |-> 0, hash |-> <<>>]]
    /\ rows = [c \in Coins |-> [n \in Nonces |-> NoRow]]
    /\ intents = [c \in Coins |-> <<>>]
    /\ states = [c \in Coins |-> <<>>]
    /\ entries = [c \in Coins |-> <<>>]
    /\ conn = [p \in Conns |-> Idle]
    /\ stateSigs = {}
    /\ resultSigs = {}

-----------------------------------------------------------------------------
(* Registration                                                            *)

\* register_channel_from_chain reads the chain: the coin must be confirmed.
StartRegister(p, c) ==
    /\ conn[p].pc = "idle"
    /\ \E snap \in SnapshotsNow(c) :
         /\ snap.fault = "none"
         /\ snap.coin.kind = "Confirmed"
         /\ Become(p, [Idle EXCEPT !.pc = "register", !.coin = c, !.snap = snap])
    /\ UNCHANGED <<store, sigs, chainVars>>

\* register_channel_record: INSERT ... ON CONFLICT DO NOTHING.  The check of
\* what is stored decides what the caller is told, and changes nothing.
Register(p) ==
    LET c == conn[p].coin
        snap == conn[p].snap
        birth == snap.coin.birth
        deep == Depth(snap.peak, birth) >= Confirmations
    IN /\ conn[p].pc = "register"
       /\ ~Locked
       /\ IF c \in registered
          THEN UNCHANGED <<registered, view>>
          ELSE /\ registered' = registered \cup {c}
               /\ view' = [view EXCEPT ![c] =
                    [ birth |-> birth, cutoff |-> birth + AcceptanceBlocks,
                      close |-> birth + CloseDelay,
                      state |-> IF deep THEN "ACTIVE" ELSE "UNCONFIRMED",
                      activated |-> deep, peak |-> snap.peak ]]
       /\ Become(p, Idle)
       /\ UNCHANGED <<latest, rows, intents, states, entries, sigs, chainVars>>

-----------------------------------------------------------------------------
(* Reservation: transaction 1                                              *)

\* reserve_with_chain takes the first snapshot.
StartReserve(p, c, request, id) ==
    /\ conn[p].pc = "idle"
    /\ \E snap \in SnapshotsNow(c) :
         Become(p, [ Idle EXCEPT !.pc = "reserve", !.coin = c,
                                 !.request = request, !.id = id,
                                 !.snap = snap, !.nonce = request.nonce ])
    /\ UNCHANGED <<store, sigs, chainVars>>

\* The nonce has no reservation yet.
NotYetSigned(c, n) == rows[c][n].stage # "SIGNED"                    \* mutant
Fresh(c, n) == rows[c][n].stage = "NONE"

\* Mutant of Retry: a PREPARED reservation is reported and left alone.
ReportPending(p) ==
    /\ conn[p].pc = "reserve"
    /\ ~Locked
    /\ ~Fresh(conn[p].coin, conn[p].nonce)
    /\ Become(p, Idle)
    /\ UNCHANGED <<store, sigs, chainVars>>

\* The nonce already has a reservation, and the request is the same one: a
\* completed one is answered with its result, a PREPARED one is taken up.
Retry(p) ==
    LET c == conn[p].coin
        row == rows[c][conn[p].nonce]
    IN /\ conn[p].pc = "reserve"
       /\ ~Locked
       /\ Readable(c)
       /\ ~Fresh(c, conn[p].nonce)
       /\ row.request = conn[p].request
       /\ Become(p, IF row.stage = "SIGNED"
                    THEN Idle
                    ELSE [Idle EXCEPT !.pc = "load", !.coin = c,
                                      !.nonce = conn[p].nonce])
       /\ UNCHANGED <<store, sigs, chainVars>>

\* The nonce is new: the chain is asked again, now that the write lock is
\* held, and the lock is kept while the node answers.
Evaluate(p) ==
    LET c == conn[p].coin
    IN /\ conn[p].pc = "reserve"
       /\ ~Locked
       /\ Readable(c)
       /\ Fresh(c, conn[p].nonce)
       /\ \E again \in SnapshotsNow(c) :
            Become(p, [conn[p] EXCEPT !.pc = "gate", !.again = again])
       /\ UNCHANGED <<store, sigs, chainVars>>

\* What the gate makes of the two snapshots.
VerdictOnFirst(p) ==                                                  \* mutant
    Gate(view[conn[p].coin], conn[p].snap, conn[p].snap)
VerdictFor(p) == Gate(view[conn[p].coin], conn[p].snap, conn[p].again)

\* The user signed the entry and the gate lets it through.
Admitted(request, verdict) == request.auth /\ verdict.status = "SIGNED"

\* The status a new reservation is prepared with.
TargetStatus(c, request, verdict) ==
    LET ledger == Append(entries[c], request)
    IN IF ~request.auth THEN "INVALID_AUTHORIZATION"
       ELSE IF ~Admitted(request, verdict) THEN verdict.status
       ELSE IF LedgerFull(ledger) THEN "LEDGER_FULL"
       ELSE IF Overdrawn(ledger) THEN "INSUFFICIENT_REMAINDER"
       ELSE "SIGNED"

\* No transition of the channel is pending, no entry of its ledger has the
\* nonce, the total is in range (if the ledger is not full, which is checked
\* first), and the UNIQUE keys of the intents are free.
CanAlwaysExtend(c, request) == NoncesDiffer(Append(entries[c], request))  \* mutant
CanExtend(c, request) ==
    LET ledger == Append(entries[c], request)
    IN /\ ~HasPreparedIntent(c)
       /\ NoncesDiffer(ledger)
       /\ LedgerFull(ledger) \/ ~TooLarge(ledger)
       /\ Len(intents[c]) = latest[c].seq

\* The row a new reservation is prepared with: the heights are those of the
\* channel as the gate has just left it.
NewRow(p, verdict, status) ==
    LET c == conn[p].coin
        row == [ stage |-> "PREPARED", request |-> conn[p].request,
                 id |-> conn[p].id, peak |-> verdict.height,
                 cutoff |-> verdict.view.cutoff, close |-> verdict.view.close,
                 status |-> status, seq |-> 0, hash |-> <<>>, index |-> 0 ]
    IN IF status = "SIGNED"
       THEN [ row EXCEPT !.seq = latest[c].seq + 1,
                         !.hash = Append(entries[c], conn[p].request),
                         !.index = Len(entries[c]) ]
       ELSE row

\* A new reservation; the observation of the gate is saved with it.  What
\* Evaluate found in the store still holds: the lock was never given back.
Prepare(p) ==
    LET c == conn[p].coin
        request == conn[p].request
        verdict == VerdictFor(p)
        status == TargetStatus(c, request, verdict)
        row == NewRow(p, verdict, status)
    IN /\ conn[p].pc = "gate"
       /\ Admitted(request, verdict) => CanExtend(c, request)
       /\ view' = [view EXCEPT ![c] = verdict.view]
       /\ rows' = [rows EXCEPT ![c][request.nonce] = row]
       /\ Become(p, [Idle EXCEPT !.pc = "load", !.coin = c,
                                 !.nonce = request.nonce])
       /\ IF status = "SIGNED"
          THEN intents' = [intents EXCEPT ![c] = Append(@,
                 [ prev |-> latest[c].hash, hash |-> row.hash,
                   nonce |-> request.nonce, stage |-> "PREPARED" ])]
          ELSE UNCHANGED intents
       /\ UNCHANGED <<registered, latest, states, entries, sigs, chainVars>>

\* ChannelNotFound, Corrupt or NonceConflict, before the chain is asked;
\* PendingTransition or a total out of range, after it.  The whole transaction
\* is rolled back, the observation of the gate with it.
ReserveFails(p) ==
    LET c == conn[p].coin
        request == conn[p].request
        row == rows[c][request.nonce]
    IN /\ \/ /\ conn[p].pc = "reserve"
             /\ ~Locked
             /\ \/ ~Readable(c)
                \/ ~Fresh(c, request.nonce) /\ row.request # request
          \/ /\ conn[p].pc = "gate"
             /\ Admitted(request, VerdictFor(p))
             /\ ~CanExtend(c, request)
       /\ Become(p, Idle)
       /\ UNCHANGED <<store, sigs, chainVars>>

-----------------------------------------------------------------------------
(* Reservation: the signatures, and transaction 2 (finalize_prepared)      *)

\* Back to idle with nothing changed: an error ends the request, or the whole
\* recovery.
GiveUp(p) ==
    /\ Become(p, Idle)
    /\ UNCHANGED <<store, sigs, chainVars>>

\* The reservation is read; a completed one is answered, a PREPARED one has
\* its result signed.
LoadPrepared(p) ==
    LET c == conn[p].coin
        row == rows[c][conn[p].nonce]
    IN /\ conn[p].pc = "load"
       /\ Readable(c)
       /\ IF row.stage = "SIGNED"
          THEN Become(p, Rest(p)) /\ UNCHANGED sigs
          ELSE /\ resultSigs' = resultSigs \cup
                    {[coin |-> c, result |-> Result(row)]}
               /\ Become(p, [ conn[p] EXCEPT !.row = row,
                    !.pc = IF row.status = "SIGNED" THEN "state" ELSE "commit" ])
               /\ UNCHANGED stateSigs
       /\ UNCHANGED <<store, chainVars>>

\* Mutant of SignState: the checkpoint is built again, not read from the
\* intent.
SignRebuiltState(p) ==
    LET c == conn[p].coin
        ckpt == [ prev |-> latest[c].hash,
                  hash |-> Append(entries[c], conn[p].row.request) ]
    IN /\ conn[p].pc = "state"
       /\ stateSigs' = stateSigs \cup
            {[coin |-> c, seq |-> conn[p].row.seq, hash |-> ckpt.hash]}
       /\ Become(p, [conn[p] EXCEPT !.pc = "package", !.ckpt = ckpt])
       /\ UNCHANGED <<store, resultSigs, chainVars>>

\* load_intent_checkpoint finds the PREPARED intent of the sequence, and its
\* state is signed.
SignState(p) ==
    LET c == conn[p].coin
        seq == conn[p].row.seq
    IN /\ conn[p].pc = "state"
       /\ PreparedIntent(c, seq)
       /\ stateSigs' = stateSigs \cup
            {[coin |-> c, seq |-> seq, hash |-> intents[c][seq].hash]}
       /\ Become(p, [ conn[p] EXCEPT !.pc = "package",
            !.ckpt = [prev |-> intents[c][seq].prev,
                      hash |-> intents[c][seq].hash] ])
       /\ UNCHANGED <<store, resultSigs, chainVars>>

\* RecoveryPackage::validate: the entries are a ledger, every entry is signed
\* by the user, and the checkpoint commits to exactly these entries.
PackageValid(package, ckpt) ==
    /\ LedgerValid(package)
    /\ \A i \in DOMAIN package : package[i].auth
    /\ package = ckpt.hash

\* The committed entries are read again and the new one is put after them.
BuildPackage(p) ==
    LET package == Append(entries[conn[p].coin], conn[p].row.request)
    IN /\ conn[p].pc = "package"
       /\ PackageValid(package, conn[p].ckpt)
       /\ Become(p, [conn[p] EXCEPT !.pc = "commit", !.package = package])
       /\ UNCHANGED <<store, sigs, chainVars>>

\* The reservation as transaction 2 finds it.
StillPrepared(p) == rows[conn[p].coin][conn[p].nonce].stage = "PREPARED"

LeaveRow(c, n) == UNCHANGED rows                                     \* mutant
SignRow(c, n) == rows' = [rows EXCEPT ![c][n].stage = "SIGNED"]

\* A refusal needs its reservation to be PREPARED and nothing more.
CommitRefusal(p) ==
    /\ conn[p].pc = "commit"
    /\ ~Locked
    /\ conn[p].row.status # "SIGNED"
    /\ StillPrepared(p)
    /\ SignRow(conn[p].coin, conn[p].nonce)
    /\ Become(p, Rest(p))
    /\ UNCHANGED <<registered, view, latest, intents, states, entries, sigs,
                   chainVars>>

\* The signed state is the direct successor of the latest one, its intent is
\* PREPARED, and the primary keys of the rows to be inserted are free.
Succeeds(p) ==
    LET c == conn[p].coin
        seq == conn[p].row.seq
        ckpt == conn[p].ckpt
    IN /\ Readable(c)
       /\ seq = latest[c].seq + 1
       /\ ckpt.prev = latest[c].hash
       /\ ckpt.hash = conn[p].row.hash
       /\ PreparedIntent(c, seq)
       /\ Len(states[c]) = seq - 1
       /\ Len(entries[c]) = conn[p].row.index

\* The row of v36_states: the state with its RecoveryPackage.
StateWithOldPackage(p) ==                                             \* mutant
    [hash |-> conn[p].ckpt.hash, package |-> entries[conn[p].coin]]
StateRow(p) == [hash |-> conn[p].ckpt.hash, package |-> conn[p].package]

CommitState(p) ==
    LET c == conn[p].coin
        seq == conn[p].row.seq
        ckpt == conn[p].ckpt
    IN /\ conn[p].pc = "commit"
       /\ ~Locked
       /\ conn[p].row.status = "SIGNED"
       /\ StillPrepared(p)
       /\ Succeeds(p)
       /\ states' = [states EXCEPT ![c] = Append(@, StateRow(p))]
       /\ entries' = [entries EXCEPT ![c] = Append(@, conn[p].row.request)]
       /\ latest' = [latest EXCEPT ![c] = [seq |-> seq, hash |-> ckpt.hash]]
       /\ intents' = [intents EXCEPT ![c][seq].stage = "SIGNED"]
       /\ SignRow(c, conn[p].nonce)
       /\ Become(p, Rest(p))
       /\ UNCHANGED <<registered, view, sigs, chainVars>>

\* Another process completed the reservation meanwhile: its result is
\* returned, the signatures just made are dropped.
CommitLate(p) ==
    /\ conn[p].pc = "commit"
    /\ ~Locked
    /\ ~StillPrepared(p)
    /\ Become(p, Rest(p))
    /\ UNCHANGED <<store, sigs, chainVars>>

\* finalize_prepared ends in an error: the channel cannot be loaded, the intent
\* is no longer PREPARED, the package does not validate, or the state does not
\* succeed the latest one (StateConflict).
FinalizeFails(p) ==
    LET c == conn[p].coin
    IN /\ \/ conn[p].pc = "load" /\ ~Readable(c)
          \/ conn[p].pc = "state" /\ ~PreparedIntent(c, conn[p].row.seq)
          \/ /\ conn[p].pc = "package"
             /\ ~PackageValid(Append(entries[c], conn[p].row.request),
                              conn[p].ckpt)
          \/ /\ conn[p].pc = "commit"
             /\ ~Locked
             /\ conn[p].row.status = "SIGNED"
             /\ StillPrepared(p)
             /\ ~Succeeds(p)
       /\ GiveUp(p)

\* busy_timeout: a process has waited ten seconds for the write lock.
Busy(p) ==
    /\ conn[p].pc \in {"register", "reserve", "commit"}
    /\ Locked
    /\ GiveUp(p)

-----------------------------------------------------------------------------
(* Recovery and crashes                                                    *)

\* recover_pending lists the PREPARED reservations ...
StartRecovery(p) ==
    LET pending == { job \in Coins \X Nonces :
                       rows[job[1]][job[2]].stage = "PREPARED" }
    IN /\ conn[p].pc = "idle"
       /\ pending # {}
       /\ Become(p, [Idle EXCEPT !.pc = "recover", !.todo = pending])
       /\ UNCHANGED <<store, sigs, chainVars>>

\* ... and finalizes one after the other, in the order of the clock readings
\* their callers passed, which may be any; the first error ends it.
RecoverNext(p) ==
    /\ conn[p].pc = "recover"
    /\ \E job \in conn[p].todo :
         Become(p, [ Idle EXCEPT !.pc = "load", !.coin = job[1],
                                 !.nonce = job[2],
                                 !.todo = conn[p].todo \ {job} ])
    /\ UNCHANGED <<store, sigs, chainVars>>

\* The process dies, between two transactions, inside the first, which is then
\* rolled back, or before it could answer.
Crash(p) ==
    /\ conn[p].pc \notin {"idle", "down"}
    /\ Become(p, [Idle EXCEPT !.pc = "down"])
    /\ UNCHANGED <<store, sigs, chainVars>>

Restart(p) == conn[p].pc = "down" /\ GiveUp(p)

-----------------------------------------------------------------------------
\* What process p does of itself once it has begun.
Step(p) ==
    \/ Register(p)
    \/ Retry(p) \/ Evaluate(p) \/ Prepare(p) \/ ReserveFails(p)
    \/ LoadPrepared(p) \/ SignState(p) \/ BuildPackage(p)
    \/ CommitRefusal(p) \/ CommitState(p) \/ CommitLate(p)
    \/ FinalizeFails(p) \/ Busy(p)
    \/ RecoverNext(p)

\* What others make it begin, or end.
Begin(p) ==
    \/ \E c \in Coins : StartRegister(p, c)
    \/ \E c \in Coins, request \in Requests, id \in RequestIds :
         StartReserve(p, c, request, id)
    \/ StartRecovery(p)

ChainStep == ChainNext /\ UNCHANGED hubVars

Next ==
    \/ \E p \in Conns : Step(p) \/ Begin(p) \/ Crash(p) \/ Restart(p)
    \/ ChainStep

Spec == Init /\ [][Next]_vars

-----------------------------------------------------------------------------
(* What others can do with what the HUB gave them                          *)

\* DoubleSignEvidence::new and validate: two states that verify under the
\* HUB's key, of one coin and one state_sequence, with different checkpoints.
\* new puts the two in order, so which is first does not matter.
DoubleSignEvidence(s, t) ==
    /\ {s, t} \subseteq stateSigs
    /\ s.coin = t.coin
    /\ s.seq = t.seq
    /\ s.hash # t.hash

\* ConflictingResultEvidence::new and validate: two results that verify, for
\* one nonce of one coin, which differ.
ConflictingResultEvidence(s, t) ==
    /\ {s, t} \subseteq resultSigs
    /\ s.coin = t.coin
    /\ s.result.nonce = t.result.nonce
    /\ s.result # t.result

\* completed_reservation: what a completed reservation is answered with,
\* whoever asks and however often.
Outcome(c, n) ==
    LET row == rows[c][n]
    IN [ result |-> Result(row),
         package |-> IF row.status = "SIGNED" THEN states[c][row.seq].package
                                              ELSE <<>> ]

\* The ledger has the entry of an accepting result at its place.
Pays(ledger, result) ==
    /\ result.seq \in DOMAIN ledger
    /\ ledger[result.seq].nonce = result.nonce
    /\ ledger[result.seq].amount = result.amount

-----------------------------------------------------------------------------
(* Properties                                                              *)

\* No DoubleSignEvidence can be built against the HUB: however requests,
\* retries, recoveries and crashes interleave, it never signs two checkpoints
\* of the same state_sequence, not even one it did not commit.
NoDoubleSign == \A s, t \in stateSigs : ~DoubleSignEvidence(s, t)

\* Nor can ConflictingResultEvidence: a nonce of a channel has one result,
\* the same in every process that signs it.
NoConflictingResults ==
    \A s, t \in resultSigs : ~ConflictingResultEvidence(s, t)

\* The states a HUB signs for a channel are one ledger that only grows: of any
\* two, committed or not, the earlier commits to a prefix of the later.  So
\* there is no DoubleSignEvidence, and no two RecoveryPackages that different
\* recipients hold can ever disagree about an entry.
SignedStatesAreOneLedger ==
    \A s, t \in stateSigs :
        s.coin = t.coin /\ s.seq <= t.seq =>
            /\ Len(s.hash) = s.seq
            /\ IsPrefix(s.hash, t.hash)

\* Once the HUB has signed that it accepts a reservation, every state of that
\* sequence or a later one that it ever signs pays it, at the place the result
\* names.  And a completed reservation is answered with a result that was
\* signed and, if it is accepted, with a valid package of a signed state that
\* pays it.
AcceptedIsPaid ==
    /\ \A t \in resultSigs, s \in stateSigs :
          t.result.status = "SIGNED" /\ s.coin = t.coin
          /\ t.result.seq <= s.seq => Pays(s.hash, t.result)
    /\ \A c \in Coins, n \in Nonces :
          rows[c][n].stage = "SIGNED" =>
              LET outcome == Outcome(c, n)
                  result == outcome.result
                  package == outcome.package
              IN /\ [coin |-> c, result |-> result] \in resultSigs
                 /\ result.status = "SIGNED" =>
                      /\ LedgerValid(package)
                      /\ Pays(package, result)
                      /\ [coin |-> c, seq |-> result.seq, hash |-> package]
                            \in stateSigs

\* At every instant, so after every crash, the three tables transaction 2
\* writes agree with the channel's pointer, and the RecoveryPackage kept with
\* each state is the whole ledger that the state commits to.
LedgerRecoverable ==
    \A c \in Coins :
        /\ latest[c].seq = Len(states[c])
        /\ latest[c].hash = entries[c]
        /\ Len(entries[c]) = Len(states[c])
        /\ \A s \in DOMAIN states[c] :
             /\ states[c][s].hash = SubSeq(entries[c], 1, s)
             /\ states[c][s].package = states[c][s].hash

\* What a crash between the two transactions leaves can be completed: a
\* channel has at most one PREPARED intent, it is the direct successor of the
\* latest state, and it is the intent of a PREPARED reservation, which is the
\* only one of its channel that waits to enter the ledger.
PreparedCanBeCompleted ==
    \A c \in Coins :
        LET waiting == { n \in Nonces : /\ rows[c][n].stage = "PREPARED"
                                        /\ rows[c][n].status = "SIGNED" }
        IN /\ \A s \in DOMAIN intents[c] :
                intents[c][s].stage = "PREPARED" =>
                    /\ s = latest[c].seq + 1
                    /\ intents[c][s].prev = latest[c].hash
                    /\ LedgerValid(intents[c][s].hash)
                    /\ waiting = {intents[c][s].nonce}
           /\ \A n \in waiting :
                /\ rows[c][n].seq \in DOMAIN intents[c]
                /\ intents[c][rows[c][n].seq].stage = "PREPARED"
                /\ intents[c][rows[c][n].seq].hash = rows[c][n].hash

\* The ledger of a channel never promises more than the channel holds, and
\* holds no entry the user did not sign.
Solvent ==
    \A c \in Coins :
        /\ ~(ReservedTotal(entries[c]) > FundingAmount)
        /\ \A i \in DOMAIN entries[c] : entries[c][i].auth

\* An acceptance cutoff, once the channel is activated, never moves away, and
\* a channel stays activated: effective_A = min(old_A, new_A) of section
\* 12.3.11, whatever reorganisations are observed in whatever order.
AcceptanceNeverExtended ==
    [][\A c \in Coins : view[c].activated =>
          view'[c].activated /\ view'[c].cutoff <= view[c].cutoff]_vars

\* The block of this peak is on the chain.
Canonical(peak) == peak.height \in 1..Height /\ blocks[peak.height] = peak.hash

\* A reservation is accepted as of the snapshot its process made while it held
\* the write lock, not on what it saw before it waited for the lock: the height
\* that the signed result names is that snapshot's, and below the cutoff the
\* channel has.  The chain goes on between that snapshot and the commit.  But
\* unless the block it was made at is no longer on the chain, the coin was
\* there, below the cutoff of its actual birth height, and cannot be spent
\* before FREEZE_BLOCKS more blocks: that is how long the HUB has to commit,
\* sign and hand out the state.
AcceptedInTime ==
    [][\A p \in Conns :
          LET c == conn[p].coin
              n == conn[p].nonce
              tip == conn[p].again.peak
          IN /\ conn[p].pc = "gate"
             /\ rows[c][n].stage = "NONE"
             /\ rows'[c][n].stage = "PREPARED"
             /\ rows'[c][n].status = "SIGNED"
             => /\ rows'[c][n].peak = tip.height
                /\ view[c].activated => tip.height < view[c].cutoff
                /\ Canonical(tip) =>
                     /\ born[c] \in 1..tip.height
                     /\ tip.height < born[c] + AcceptanceBlocks
                     /\ spent[c] > 0 => spent[c] > tip.height + FreezeBlocks]_vars

\* A reservation prepared although one of the provider's answers was faulty
\* is neither accepted nor refused as frozen or closing, and what the channel
\* knows of its coin (heights, activation) stays as it was: a failing node
\* can only make the HUB wait.
FaultyNodeOnlyBlocks ==
    [][\A p \in Conns :
          LET c == conn[p].coin
              n == conn[p].nonce
          IN /\ conn[p].pc = "gate"
             /\ \/ conn[p].snap.fault # "none"
                \/ conn[p].again.fault # "none"
             /\ conn'[p].pc = "load"
             /\ rows[c][n].stage = "NONE"
             /\ rows'[c][n].stage = "PREPARED"
             => /\ rows'[c][n].status \notin
                     {"SIGNED", "REJECTED_FREEZING", "CHANNEL_CLOSING"}
                /\ view'[c] = [view[c] EXCEPT !.state = view'[c].state,
                                              !.peak = view'[c].peak]]_vars

\* The answer a nonce was given, for the abstract ledger.
AnswerOf(row) ==
    IF row.stage # "SIGNED" THEN "none"
    ELSE IF row.status = "SIGNED" THEN "signed" ELSE "refused"

HubLedger == INSTANCE HubLedger WITH
    ledger <- entries,
    answer <- [c \in Coins |-> [n \in Nonces |-> AnswerOf(rows[c][n])]]

\* The store keeps the HUB's promise: one answer for a nonce, and the answer
\* and the ledger entry together, in transaction 2, or not at all.
KeepsLedgerPromise == HubLedger!LedgerSpec

\* load_channel treats a row whose heights do not belong together as
\* corrupt: the HUB must never write such a row itself.
NeverCorrupt == \A c \in registered : Readable(c)

\* No reservation is ever one that validate_reservation_binding calls Corrupt.
BindingsHold ==
    \A c \in Coins, n \in Nonces :
        rows[c][n].stage # "NONE" => BindingHolds(rows[c][n], n)

\* protocol-v3_6.md:859 "重组不得重新开放已经冻结的通道或延长预扣接受期": once a
\* reservation of a channel was refused because the channel is frozen, no
\* later one is accepted.
FrozenStaysFrozen ==
    [][\A c \in Coins, n, m \in Nonces :
          /\ rows[c][n].status = "REJECTED_FREEZING"
          /\ rows[c][n].stage # "NONE"
          /\ rows[c][m].stage = "NONE"
          /\ rows'[c][m].stage = "PREPARED"
          => rows'[c][m].status # "SIGNED"]_vars

-----------------------------------------------------------------------------
(* Liveness                                                                *)

\* Wallets retry a request they have seen no answer to.
Retries(p, c, n) ==
    /\ rows[c][n].stage = "PREPARED"
    /\ StartReserve(p, c, rows[c][n].request, rows[c][n].id)

\* Nothing in the code waits for another process except for SQLite's write
\* lock, for ten seconds, so a process that has begun goes on.  Processes crash
\* as often as they like, but not for ever.
Fairness ==
    /\ \A p \in Conns : WF_vars(Step(p)) /\ WF_vars(Restart(p))
    /\ \A p \in Conns, c \in Coins, n \in Nonces : SF_vars(Retries(p, c, n))

FairSpec == Spec /\ Fairness /\ <>[][~\E p \in Conns : Crash(p)]_vars

\* A reservation that was prepared is answered, even if the process that
\* prepared it died: a later request, or the retry of this one, completes it.
PreparedIsAnswered ==
    \A c \in Coins, n \in Nonces :
        rows[c][n].stage = "PREPARED" ~> rows[c][n].stage = "SIGNED"
=============================================================================
