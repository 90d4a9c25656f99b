------------------------------ MODULE HubProofs ------------------------------
(***************************************************************************)
(* HubStore for every instance.  The types and HubInv are invariants, and  *)
(* from them follows what the users of the HUB rely on: nothing is signed  *)
(* twice, the store is recoverable, what is prepared can be completed, the *)
(* ledgers are solvent, and the store implements HubLedger; and what the   *)
(* chain gate guarantees, whatever the provider answers.  PromiseInv says  *)
(* what is signed when something is committed; from it follows what those  *)
(* who hold the HUB's signatures can rely on.  The last part shows what    *)
(* needs a reorganisation to go wrong.                                     *)
(***************************************************************************)
EXTENDS HubStoreInv, SequenceTheorems, TLAPS

-----------------------------------------------------------------------------
(* Values                                                                  *)

\* There is a request, so the CHOOSEs of Idle and NoRow choose something.
LEMMA Chosen ==
    /\ AnyRequest \in Requests
    /\ AnyRequest.nonce \in Nonces
    /\ (CHOOSE i \in RequestIds : TRUE) \in RequestIds
    /\ (CHOOSE c \in Coins : TRUE) \in Coins
<1>1. Requests # {}
  <2>1. PICK n \in Nonces, a \in Amounts, b \in Auths : TRUE
    BY TermsAssumption
  <2>2. [nonce |-> n, amount |-> a, auth |-> b] \in Requests
    BY DEF Requests
  <2> QED BY <2>2
<1>2. AnyRequest \in Requests
  BY <1>1 DEF AnyRequest
<1>3. AnyRequest.nonce \in Nonces
  BY <1>2 DEF Requests
<1> QED BY <1>2, <1>3, TermsAssumption, HubAssumption

LEMMA EmptyLedger == <<>> \in Ledgers
BY DEF Ledgers

LEMMA NoRowType == NoRow \in Rows
<1>1. 0 \in BlockHeights
  BY TermsAssumption, ChainAssumption DEF BlockHeights, CloseDelay
<1>2. "INVALID_AUTHORIZATION" \in Statuses
  BY DEF Statuses
<1> QED BY <1>1, <1>2, Chosen, EmptyLedger DEF NoRow, Rows

LEMMA NoViewType == NoView \in Views
BY TermsAssumption, ChainAssumption
   DEF NoView, Views, BlockHeights, CloseDelay, ChainStates, Peaks

LEMMA IdleType == Idle \in Locals
<1>1. NoSnapshot \in Snapshots
  BY ChainAssumption DEF NoSnapshot, Snapshots, Peaks, FundingCoinStates
<1>2. NoCheckpoint \in Checkpoints
  BY EmptyLedger DEF NoCheckpoint, Checkpoints
<1>3. "idle" \in PCs
  BY DEF PCs
<1> QED
  BY <1>1, <1>2, <1>3, Chosen, EmptyLedger, NoRowType DEF Idle, Locals

-----------------------------------------------------------------------------
(* The chain and its gate                                                  *)

LEMMA SnapshotType ==
    ASSUME ChainTypeOK, NEW c \in Coins, NEW snap \in SnapshotsNow(c)
    PROVE  snap \in Snapshots
<1>1. PICK f \in Faults \cup {"none"} :
        snap = [ fault |-> f,
                 peak |-> IF f \in {"rpc", "invalid", "no_peak"}
                          THEN NoPeak ELSE Tip,
                 coin |-> FundingCoin(c) ]
  BY DEF SnapshotsNow
<1>2. Tip \in Peaks
  BY ChainAssumption DEF Tip, Peaks, ChainTypeOK, Height
<1>3. FundingCoin(c) \in FundingCoinStates
  BY ChainAssumption DEF FundingCoin, FundingCoinStates, ChainTypeOK
<1>4. NoPeak \in Peaks
  BY DEF Peaks
<1> QED BY <1>1, <1>2, <1>3, <1>4 DEF Snapshots

Verdicts == [view : Views, status : Statuses, height : Nat]

LEMMA VerdictType ==
    ASSUME NEW new \in Views, NEW status \in Statuses
    PROVE  Verdict(new, status) \in Verdicts
<1>1. new.peak \in Peaks
  BY DEF Views
<1>2. new.peak # NoPeak => new.peak.height \in Nat
  BY <1>1, ChainAssumption DEF Peaks
<1> QED BY <1>2 DEF Verdict, Verdicts

LEMMA ObservedType ==
    ASSUME NEW old \in Views, NEW state \in ChainStates, NEW peak \in Peaks
    PROVE  Observed(old, state, peak) \in Views
BY DEF Observed, Views

\* Every verdict of the gate is a row of v36_channels, a status and a height.
LEMMA GateType ==
    ASSUME NEW old \in Views, NEW initial \in Snapshots,
           NEW committed \in Snapshots
    PROVE  Gate(old, initial, committed) \in Verdicts
<1> DEFINE faults == FaultsOf(initial, committed)
<1>1. /\ initial.peak \in Peaks
      /\ committed.peak \in Peaks
      /\ committed.coin \in FundingCoinStates
  BY DEF Snapshots
<1>2. ASSUME NEW state \in ChainStates \cap Statuses
      PROVE  Verdict(Observed(old, state, committed.peak), state) \in Verdicts
  BY <1>1, ObservedType, VerdictType
<1>3. /\ {"RPC_UNAVAILABLE", "CHAIN_STATE_UNCERTAIN", "NODE_NOT_SYNCED"}
            \subseteq ChainStates \cap Statuses
      /\ {"CLOSING", "REORG_PENDING", "UNCONFIRMED", "ACTIVE"}
            \subseteq ChainStates
      /\ {"CHANNEL_CLOSING", "CHANNEL_REORG_PENDING", "REJECTED_FREEZING",
          "SIGNED"} \subseteq Statuses
  BY DEF ChainStates, Statuses
<1>4. FailedVerdict(old, initial, committed) \in Verdicts
  BY <1>1, <1>3, ObservedType, VerdictType DEF FailedVerdict
<1>5. MissingVerdict(old, committed.peak) \in Verdicts
  BY <1>1, <1>3, ObservedType, VerdictType DEF MissingVerdict
<1>6. committed.coin.birth \in 0..MaxHeight
  BY <1>1 DEF FundingCoinStates
<1>7. ASSUME NEW birth \in 0..MaxHeight
      PROVE  /\ birth + CloseDelay \in BlockHeights
             /\ birth + AcceptanceBlocks \in BlockHeights
  BY TermsAssumption, ChainAssumption DEF BlockHeights, CloseDelay
<1>8. SpentVerdict(old, committed) \in Verdicts
  <2> DEFINE seen == Observed(old, "CLOSING", committed.peak)
             birth == committed.coin.birth
             new == [seen EXCEPT !.birth = birth, !.close = birth + CloseDelay]
  <2>1. seen \in Views
    BY <1>1, <1>3, ObservedType
  <2>2. new \in Views
    BY <2>1, <1>6, <1>7 DEF Views
  <2> QED BY <2>2, <1>3, VerdictType DEF SpentVerdict
<1>9. ConfirmedVerdict(old, initial, committed) \in Verdicts
  <2> DEFINE birth == committed.coin.birth
             peak == committed.peak
             reorged == \/ PeakReorged(old, initial, committed)
                        \/ initial.coin # committed.coin
                        \/ birth # old.birth
             cutoff == EffectiveCutoff(old, birth)
             activated == \/ old.activated
                          \/ Depth(peak, birth) >= Confirmations
             status == CASE ~activated -> "CHAIN_STATE_UNCERTAIN"
                         [] activated /\ reorged -> "CHANNEL_REORG_PENDING"
                         [] activated /\ ~reorged /\ peak.height >= cutoff ->
                              "REJECTED_FREEZING"
                         [] OTHER -> "SIGNED"
             state == CASE status = "CHAIN_STATE_UNCERTAIN" -> "UNCONFIRMED"
                        [] status = "CHANNEL_REORG_PENDING" -> "REORG_PENDING"
                        [] OTHER -> "ACTIVE"
             new == [ birth |-> birth, cutoff |-> cutoff,
                      close |-> birth + CloseDelay, state |-> state,
                      activated |-> activated, peak |-> peak ]
  <2>1. cutoff \in BlockHeights
    <3>1. old.cutoff \in BlockHeights
      BY DEF Views
    <3> QED BY <3>1, <1>6, <1>7 DEF EffectiveCutoff
  <2>2. status \in Statuses
    BY <1>3
  <2>3. state \in ChainStates
    BY <1>3
  <2>4. activated \in BOOLEAN
    BY DEF Views
  <2> HIDE DEF status, state, activated, cutoff
  <2>5. new \in Views
    BY <2>1, <2>3, <2>4, <1>1, <1>6, <1>7 DEF Views
  <2>6. Verdict(new, status) \in Verdicts
    BY <2>5, <2>2, VerdictType
  <2> USE DEF status, state, activated, cutoff
  <2> QED BY <2>6 DEF ConfirmedVerdict
<1>10. committed.coin.kind \in {"Missing", "Confirmed", "Spent"}
  BY <1>1 DEF FundingCoinStates
<1> HIDE DEF faults
<1>11. CASE faults \cap {"rpc", "invalid"} # {}
  BY <1>11, <1>4 DEF Gate, faults
<1>12. CASE /\ ~(faults \cap {"rpc", "invalid"} # {})
            /\ \/ faults \cap {"no_peak", "foreign"} # {}
               \/ "unsynced" \in faults
  BY <1>12, <1>2, <1>3 DEF Gate, Blocked, faults
<1>13. CASE /\ ~(faults \cap {"rpc", "invalid"} # {})
            /\ ~(faults \cap {"no_peak", "foreign"} # {})
            /\ ~("unsynced" \in faults)
  BY <1>13, <1>5, <1>8, <1>9, <1>10 DEF Gate, faults
<1> QED BY <1>11, <1>12, <1>13

-----------------------------------------------------------------------------
(* Type correctness                                                        *)

\* Locals of a process are replaced as a whole.
LEMMA BecomeType ==
    ASSUME conn \in [Conns -> Locals], NEW p \in Conns,
           NEW local \in Locals, Become(p, local)
    PROVE  conn' \in [Conns -> Locals]
BY DEF Become

LEMMA RestType ==
    ASSUME conn \in [Conns -> Locals], NEW p \in Conns
    PROVE  Rest(p) \in Locals
<1>1. conn[p].todo \in SUBSET (Coins \X Nonces)
  BY DEF Locals
<1>2. {"idle", "recover"} \subseteq PCs
  BY DEF PCs
<1> QED BY <1>1, <1>2, IdleType, Zenon DEF Rest, Locals

\* What the steps that change nothing but the locals of a process preserve.
LEMMA LocalStepType ==
    ASSUME TypeOK, conn' \in [Conns -> Locals],
           UNCHANGED <<store, sigs, chainVars>>
    PROVE  TypeOK'
BY DEF TypeOK, ChainTypeOK, Height, store, sigs, chainVars

LEMMA SignedIntentsType ==
    ASSUME NEW s \in Seq(Intents), NEW i \in DOMAIN s
    PROVE  [s EXCEPT ![i].stage = "SIGNED"] \in Seq(Intents)
<1> DEFINE t == [s EXCEPT ![i].stage = "SIGNED"]
<1>1. Len(s) \in Nat /\ DOMAIN s = 1..Len(s) /\ s \in [1..Len(s) -> Intents]
  OBVIOUS
<1>2. [s[i] EXCEPT !.stage = "SIGNED"] \in Intents
  BY <1>1 DEF Intents
<1>3. t \in [1..Len(s) -> Intents]
  BY <1>1, <1>2
<1> QED BY <1>1, <1>3

LEMMA ResultType ==
    ASSUME NEW row \in Rows
    PROVE  Result(row) \in Results
BY DEF Result, Results, Rows, Requests

LEMMA NewRowType ==
    ASSUME TypeOK, NEW p \in Conns, NEW verdict \in Verdicts,
           NEW status \in Statuses
    PROVE  NewRow(p, verdict, status) \in Rows
<1> DEFINE c == conn[p].coin
           row == [ stage |-> "PREPARED", request |-> conn[p].request,
                    id |-> conn[p].id, peak |-> verdict.height,
                    cutoff |-> verdict.view.cutoff,
                    close |-> verdict.view.close, status |-> status,
                    seq |-> 0, hash |-> <<>>, index |-> 0 ]
<1>1. /\ c \in Coins
      /\ conn[p].request \in Requests
      /\ conn[p].id \in RequestIds
  BY DEF TypeOK, Locals
<1>2. /\ verdict.height \in Nat
      /\ verdict.view.cutoff \in BlockHeights
      /\ verdict.view.close \in BlockHeights
  BY DEF Verdicts, Views
<1>3. row \in Rows
  BY <1>1, <1>2, EmptyLedger DEF Rows
<1>4. latest[c].seq + 1 \in Nat
  BY <1>1 DEF TypeOK, Pointers
<1>5. /\ Append(entries[c], conn[p].request) \in Ledgers
      /\ Len(entries[c]) \in Nat
  BY <1>1 DEF TypeOK, Ledgers
<1> HIDE DEF c
<1>6. [ row EXCEPT !.seq = latest[c].seq + 1,
                   !.hash = Append(entries[c], conn[p].request),
                   !.index = Len(entries[c]) ] \in Rows
  BY <1>3, <1>4, <1>5 DEF Rows
<1> QED BY <1>3, <1>6 DEF NewRow, c

LEMMA TypeInit == Init => TypeOK
<1> SUFFICES ASSUME Init PROVE TypeOK
  OBVIOUS
<1>1. ChainTypeOK
  BY ChainAssumption DEF Init, ChainInit, ChainTypeOK, Height
<1>2. [seq |-> 0, hash |-> <<>>] \in Pointers
  BY EmptyLedger DEF Pointers
<1> QED
  BY <1>1, <1>2, NoViewType, NoRowType, IdleType, EmptyLedger
     DEF Init, TypeOK, Ledgers

LEMMA TypeStartRegister ==
    ASSUME TypeOK, NEW p \in Conns, NEW c \in Coins, StartRegister(p, c)
    PROVE  TypeOK'
<1>1. PICK snap \in SnapshotsNow(c) :
        Become(p, [Idle EXCEPT !.pc = "register", !.coin = c, !.snap = snap])
  BY Zenon DEF StartRegister
<1>2. snap \in Snapshots
  BY SnapshotType DEF TypeOK
<1>3. [Idle EXCEPT !.pc = "register", !.coin = c, !.snap = snap] \in Locals
  BY <1>2, IdleType DEF Locals, PCs
<1> QED BY <1>1, <1>3, BecomeType, LocalStepType DEF TypeOK, StartRegister

LEMMA TypeRegister ==
    ASSUME TypeOK, NEW p \in Conns, Register(p)
    PROVE  TypeOK'
<1> DEFINE c == conn[p].coin
           snap == conn[p].snap
           birth == snap.coin.birth
           deep == Depth(snap.peak, birth) >= Confirmations
           new == [ birth |-> birth, cutoff |-> birth + AcceptanceBlocks,
                    close |-> birth + CloseDelay,
                    state |-> IF deep THEN "ACTIVE" ELSE "UNCONFIRMED",
                    activated |-> deep, peak |-> snap.peak ]
<1>1. c \in Coins /\ snap \in Snapshots
  BY DEF TypeOK, Locals
<1>2. birth \in 0..MaxHeight /\ snap.peak \in Peaks
  BY <1>1 DEF Snapshots, FundingCoinStates
<1>3. /\ birth + AcceptanceBlocks \in BlockHeights
      /\ birth + CloseDelay \in BlockHeights
  BY <1>2, TermsAssumption, ChainAssumption DEF BlockHeights, CloseDelay
<1>4. new \in Views
  BY <1>2, <1>3 DEF Views, ChainStates
<1>5. view' \in [Coins -> Views] /\ registered' \subseteq Coins
  BY <1>1, <1>4 DEF Register, TypeOK
<1>6. conn' \in [Conns -> Locals]
  BY IdleType, BecomeType DEF Register, TypeOK
<1> QED
  BY <1>5, <1>6 DEF Register, TypeOK, ChainTypeOK, Height, sigs, chainVars

LEMMA TypeStartReserve ==
    ASSUME TypeOK, NEW p \in Conns, NEW c \in Coins, NEW request \in Requests,
           NEW id \in RequestIds, StartReserve(p, c, request, id)
    PROVE  TypeOK'
<1>1. PICK snap \in SnapshotsNow(c) :
        Become(p, [ Idle EXCEPT !.pc = "reserve", !.coin = c,
                                !.request = request, !.id = id,
                                !.snap = snap, !.nonce = request.nonce ])
  BY Zenon DEF StartReserve
<1>2. snap \in Snapshots
  BY SnapshotType DEF TypeOK
<1>3. request.nonce \in Nonces
  BY DEF Requests
<1>4. [ Idle EXCEPT !.pc = "reserve", !.coin = c, !.request = request,
                    !.id = id, !.snap = snap, !.nonce = request.nonce ]
        \in Locals
  BY <1>2, <1>3, IdleType DEF Locals, PCs
<1> QED BY <1>1, <1>4, BecomeType, LocalStepType DEF TypeOK, StartReserve

LEMMA TypeRetry ==
    ASSUME TypeOK, NEW p \in Conns, Retry(p)
    PROVE  TypeOK'
<1>1. conn[p].coin \in Coins /\ conn[p].nonce \in Nonces
  BY DEF TypeOK, Locals
<1>2. [Idle EXCEPT !.pc = "load", !.coin = conn[p].coin,
                   !.nonce = conn[p].nonce] \in Locals
  BY <1>1, IdleType DEF Locals, PCs
<1>3. conn' \in [Conns -> Locals]
  BY <1>2, IdleType, BecomeType DEF Retry, TypeOK
<1> QED BY <1>3, LocalStepType DEF Retry

LEMMA TypeEvaluate ==
    ASSUME TypeOK, NEW p \in Conns, Evaluate(p)
    PROVE  TypeOK'
<1>1. conn[p].coin \in Coins /\ conn[p] \in Locals
  BY DEF TypeOK, Locals
<1>2. PICK again \in SnapshotsNow(conn[p].coin) :
        Become(p, [conn[p] EXCEPT !.pc = "gate", !.again = again])
  BY Zenon DEF Evaluate
<1>3. again \in Snapshots
  BY <1>1, SnapshotType DEF TypeOK
<1>4. [conn[p] EXCEPT !.pc = "gate", !.again = again] \in Locals
  BY <1>1, <1>3 DEF Locals, PCs
<1> QED BY <1>2, <1>4, BecomeType, LocalStepType DEF TypeOK, Evaluate

LEMMA TargetStatusType ==
    ASSUME NEW c, NEW request, NEW verdict \in Verdicts
    PROVE  TargetStatus(c, request, verdict) \in Statuses
BY DEF TargetStatus, Admitted, Statuses, Verdicts

LEMMA TypePrepare ==
    ASSUME TypeOK, NEW p \in Conns, Prepare(p)
    PROVE  TypeOK'
<1> DEFINE c == conn[p].coin
           request == conn[p].request
           verdict == VerdictFor(p)
           status == TargetStatus(c, request, verdict)
           row == NewRow(p, verdict, status)
           intent == [ prev |-> latest[c].hash, hash |-> row.hash,
                       nonce |-> request.nonce, stage |-> "PREPARED" ]
<1>1. /\ c \in Coins
      /\ request \in Requests
      /\ request.nonce \in Nonces
      /\ conn[p].snap \in Snapshots
      /\ conn[p].again \in Snapshots
  BY DEF TypeOK, Locals, Requests
<1>2. verdict \in Verdicts
  <2>1. view[c] \in Views
    BY <1>1 DEF TypeOK
  <2> QED BY <1>1, <2>1, GateType DEF VerdictFor
<1> HIDE DEF verdict
<1>3. row \in Rows
  BY <1>2, TargetStatusType, NewRowType
<1> HIDE DEF row
<1>4. intent \in Intents
  BY <1>1, <1>3 DEF Intents, Rows, TypeOK, Pointers
<1> HIDE DEF intent
<1>5. view' \in [Coins -> Views]
  <2>1. verdict.view \in Views
    BY <1>2 DEF Verdicts
  <2> QED BY <2>1, <1>1 DEF Prepare, verdict, TypeOK
<1>6. rows' \in [Coins -> [Nonces -> Rows]]
  <2>1. rows' = [rows EXCEPT ![c][request.nonce] = row]
    BY DEF Prepare, verdict, row
  <2> QED BY <2>1, <1>1, <1>3 DEF TypeOK
<1>7. intents' \in [Coins -> Seq(Intents)]
  <2>1. \/ intents' = [intents EXCEPT ![c] = Append(@, intent)]
        \/ UNCHANGED intents
    BY DEF Prepare, verdict, row, intent
  <2>2. Append(intents[c], intent) \in Seq(Intents)
    BY <1>1, <1>4 DEF TypeOK
  <2> QED BY <2>1, <2>2, <1>1 DEF TypeOK
<1>8. conn' \in [Conns -> Locals]
  <2>1. [Idle EXCEPT !.pc = "load", !.coin = c, !.nonce = request.nonce]
          \in Locals
    BY <1>1, IdleType DEF Locals, PCs
  <2> QED BY <2>1, BecomeType DEF Prepare, TypeOK
<1> QED
  BY <1>5, <1>6, <1>7, <1>8
     DEF Prepare, TypeOK, ChainTypeOK, Height, sigs, chainVars

LEMMA TypeLoadPrepared ==
    ASSUME TypeOK, NEW p \in Conns, LoadPrepared(p)
    PROVE  TypeOK'
<1> DEFINE c == conn[p].coin
           row == rows[c][conn[p].nonce]
           local == [ conn[p] EXCEPT !.row = row,
                        !.pc = IF row.status = "SIGNED" THEN "state"
                                                        ELSE "commit" ]
<1>1. c \in Coins /\ conn[p].nonce \in Nonces /\ conn[p] \in Locals
  BY DEF TypeOK, Locals
<1>2. row \in Rows
  BY <1>1 DEF TypeOK
<1>3. local \in Locals
  BY <1>1, <1>2 DEF Locals, PCs
<1>4. conn' \in [Conns -> Locals]
  <2>1. Become(p, local) \/ Become(p, Rest(p))
    BY DEF LoadPrepared
  <2> QED BY <2>1, <1>3, RestType, BecomeType DEF TypeOK
<1>5. resultSigs' \subseteq [coin : Coins, result : Results]
  <2>1. Result(row) \in Results
    BY <1>2, ResultType
  <2> QED BY <2>1, <1>1 DEF LoadPrepared, TypeOK, sigs
<1>6. UNCHANGED <<store, stateSigs, chainVars>>
  BY DEF LoadPrepared, sigs
<1> QED BY <1>4, <1>5, <1>6 DEF TypeOK, ChainTypeOK, Height, store, chainVars

LEMMA TypeSignState ==
    ASSUME TypeOK, NEW p \in Conns, SignState(p)
    PROVE  TypeOK'
<1> DEFINE c == conn[p].coin
           seq == conn[p].row.seq
           ckpt == [prev |-> intents[c][seq].prev, hash |-> intents[c][seq].hash]
           local == [conn[p] EXCEPT !.pc = "package", !.ckpt = ckpt]
<1>1. c \in Coins /\ conn[p].row \in Rows /\ conn[p] \in Locals
  BY DEF TypeOK, Locals
<1>2. seq \in Nat
  BY <1>1 DEF Rows
<1>3. intents[c][seq] \in Intents
  <2>1. intents[c] \in Seq(Intents)
    BY <1>1 DEF TypeOK
  <2>2. seq \in DOMAIN intents[c]
    BY DEF SignState, PreparedIntent
  <2> QED BY <2>1, <2>2, LenProperties, ElementOfSeq
<1>4. ckpt \in Checkpoints
  BY <1>3 DEF Intents, Checkpoints
<1>5. local \in Locals
  BY <1>1, <1>4, ZenonT(60) DEF Locals, PCs
<1>6. conn' \in [Conns -> Locals]
  BY <1>5, BecomeType, Zenon DEF SignState, TypeOK
<1>7. stateSigs' \subseteq [coin : Coins, seq : Nat, hash : Ledgers]
  <2>1. [coin |-> c, seq |-> seq, hash |-> intents[c][seq].hash]
          \in [coin : Coins, seq : Nat, hash : Ledgers]
    BY <1>1, <1>2, <1>3 DEF Intents
  <2>2. stateSigs' = stateSigs \cup
          {[coin |-> c, seq |-> seq, hash |-> intents[c][seq].hash]}
    BY DEF SignState
  <2> QED BY <2>1, <2>2 DEF TypeOK
<1> QED
  BY <1>6, <1>7, Zenon
     DEF SignState, TypeOK, ChainTypeOK, Height, store, chainVars

LEMMA TypeBuildPackage ==
    ASSUME TypeOK, NEW p \in Conns, BuildPackage(p)
    PROVE  TypeOK'
<1> DEFINE package == Append(entries[conn[p].coin], conn[p].row.request)
<1>1. /\ conn[p] \in Locals
      /\ conn[p].coin \in Coins
      /\ conn[p].row.request \in Requests
  BY DEF TypeOK, Locals, Rows
<1>2. package \in Ledgers
  BY <1>1 DEF TypeOK, Ledgers
<1>3. [conn[p] EXCEPT !.pc = "commit", !.package = package] \in Locals
  BY <1>1, <1>2 DEF Locals, PCs
<1> QED BY <1>3, BecomeType, LocalStepType DEF TypeOK, BuildPackage

\* A row that transaction 2 signs stays a row.
LEMMA SignRowType ==
    ASSUME TypeOK, NEW c \in Coins, NEW n \in Nonces, SignRow(c, n)
    PROVE  rows' \in [Coins -> [Nonces -> Rows]]
<1>1. rows[c][n] \in Rows
  BY DEF TypeOK
<1>2. [rows[c][n] EXCEPT !.stage = "SIGNED"] \in Rows
  BY <1>1 DEF Rows
<1> QED BY <1>2 DEF SignRow, TypeOK

LEMMA TypeCommitRefusal ==
    ASSUME TypeOK, NEW p \in Conns, CommitRefusal(p)
    PROVE  TypeOK'
<1>1. conn[p].coin \in Coins /\ conn[p].nonce \in Nonces
  BY DEF TypeOK, Locals
<1>2. rows' \in [Coins -> [Nonces -> Rows]]
  BY <1>1, SignRowType DEF CommitRefusal
<1>3. conn' \in [Conns -> Locals]
  BY RestType, BecomeType DEF CommitRefusal, TypeOK
<1> QED
  BY <1>2, <1>3
     DEF CommitRefusal, TypeOK, ChainTypeOK, Height, sigs, chainVars

LEMMA TypeCommitState ==
    ASSUME TypeOK, NEW p \in Conns, CommitState(p)
    PROVE  TypeOK'
<1> DEFINE c == conn[p].coin
           seq == conn[p].row.seq
           ckpt == conn[p].ckpt
<1>1. /\ c \in Coins
      /\ conn[p].nonce \in Nonces
      /\ conn[p].row \in Rows
      /\ ckpt \in Checkpoints
      /\ conn[p].package \in Ledgers
  BY DEF TypeOK, Locals
<1>2. seq \in Nat /\ conn[p].row.request \in Requests /\ ckpt.hash \in Ledgers
  BY <1>1 DEF Rows, Checkpoints
<1>3. rows' \in [Coins -> [Nonces -> Rows]]
  BY <1>1, SignRowType DEF CommitState
<1>4. conn' \in [Conns -> Locals]
  BY RestType, BecomeType DEF CommitState, TypeOK
<1>5. states' \in [Coins -> Seq(States)]
  <2>1. StateRow(p) \in States
    BY <1>1, <1>2 DEF StateRow, States
  <2>2. Append(states[c], StateRow(p)) \in Seq(States)
    BY <2>1, <1>1 DEF TypeOK
  <2> QED BY <2>2, <1>1 DEF CommitState, TypeOK
<1>6. entries' \in [Coins -> Ledgers]
  <2>1. Append(entries[c], conn[p].row.request) \in Ledgers
    BY <1>1, <1>2 DEF TypeOK, Ledgers
  <2> QED BY <2>1, <1>1 DEF CommitState, TypeOK
<1>7. latest' \in [Coins -> Pointers]
  <2>1. [seq |-> seq, hash |-> ckpt.hash] \in Pointers
    BY <1>2 DEF Pointers
  <2> QED BY <2>1, <1>1 DEF CommitState, TypeOK
<1>8. intents' \in [Coins -> Seq(Intents)]
  <2>1. seq \in DOMAIN intents[c]
    BY DEF CommitState, Succeeds, PreparedIntent
  <2>2. intents[c] \in Seq(Intents)
    BY <1>1 DEF TypeOK
  <2>3. [intents[c] EXCEPT ![seq].stage = "SIGNED"] \in Seq(Intents)
    BY <2>1, <2>2, SignedIntentsType
  <2>4. intents' = [intents EXCEPT ![c] =
                      [intents[c] EXCEPT ![seq].stage = "SIGNED"]]
    BY DEF CommitState
  <2> QED BY <2>3, <2>4, <1>1 DEF TypeOK
<1> QED
  BY <1>3, <1>4, <1>5, <1>6, <1>7, <1>8
     DEF CommitState, TypeOK, ChainTypeOK, Height, sigs, chainVars

LEMMA TypeStartRecovery ==
    ASSUME TypeOK, NEW p \in Conns, StartRecovery(p)
    PROVE  TypeOK'
<1> DEFINE pending == { job \in Coins \X Nonces :
                          rows[job[1]][job[2]].stage = "PREPARED" }
<1>1. [Idle EXCEPT !.pc = "recover", !.todo = pending] \in Locals
  BY IdleType, Zenon DEF Locals, PCs
<1> QED BY <1>1, BecomeType, LocalStepType DEF TypeOK, StartRecovery

LEMMA TypeRecoverNext ==
    ASSUME TypeOK, NEW p \in Conns, RecoverNext(p)
    PROVE  TypeOK'
<1>1. PICK job \in conn[p].todo :
        Become(p, [ Idle EXCEPT !.pc = "load", !.coin = job[1],
                                !.nonce = job[2],
                                !.todo = conn[p].todo \ {job} ])
  BY Zenon DEF RecoverNext
<1>2. conn[p].todo \in SUBSET (Coins \X Nonces)
  BY DEF TypeOK, Locals
<1>3. job[1] \in Coins /\ job[2] \in Nonces
  BY <1>2
<1>4. [ Idle EXCEPT !.pc = "load", !.coin = job[1], !.nonce = job[2],
                    !.todo = conn[p].todo \ {job} ] \in Locals
  BY <1>2, <1>3, IdleType DEF Locals, PCs
<1> QED BY <1>1, <1>4, BecomeType, LocalStepType DEF TypeOK, RecoverNext

\* The steps that end in Idle, Rest or "down" and change nothing else.
LEMMA TypeOtherSteps ==
    ASSUME TypeOK, NEW p \in Conns,
           \/ ReserveFails(p)
           \/ GiveUp(p)
           \/ CommitLate(p)
           \/ Crash(p)
    PROVE  TypeOK'
<1>1. [Idle EXCEPT !.pc = "down"] \in Locals
  BY IdleType DEF Locals, PCs
<1>2. conn' \in [Conns -> Locals]
  BY <1>1, IdleType, RestType, BecomeType
     DEF TypeOK, ReserveFails, GiveUp, CommitLate, Crash
<1> QED BY <1>2, LocalStepType DEF ReserveFails, GiveUp, CommitLate, Crash

LEMMA TypeChainStep ==
    ASSUME TypeOK, ChainStep
    PROVE  TypeOK'
<1>1. ASSUME NEW created, NEW closed, Grow(created, closed)
      PROVE  ChainTypeOK'
  <2>1. Height \in Nat /\ Height' = Height + 1 /\ Height + 1 \in 0..MaxHeight
    BY <1>1, ChainAssumption DEF TypeOK, ChainTypeOK, Height, Grow
  <2> QED BY <1>1, <2>1, ChainAssumption DEF TypeOK, ChainTypeOK, Grow
<1>2. ASSUME NEW height \in 0..MaxHeight, Reorganise(height)
      PROVE  ChainTypeOK'
  <2>1. /\ blocks \in Seq(0..MaxReorgs)
        /\ height \in 0..Len(blocks)
        /\ blocks' = SubSeq(blocks, 1, height)
    BY <1>2, LenProperties DEF TypeOK, ChainTypeOK, Height, Reorganise
  <2>2. /\ blocks' \in Seq(0..MaxReorgs)
        /\ Len(blocks') = height
    <3>1. Len(blocks) \in Nat /\ height \in Nat /\ height <= Len(blocks)
      BY <2>1, LenProperties
    <3>2. ASSUME NEW i \in 1..height
          PROVE  blocks[i] \in 0..MaxReorgs
      <4>1. i \in 1..Len(blocks)
        BY <3>1
      <4> QED BY <2>1, <4>1, ElementOfSeq
    <3> QED BY <2>1, <3>1, <3>2, SubSeqProperties
  <2> QED BY <1>2, <2>2, ChainAssumption
             DEF TypeOK, ChainTypeOK, Height, Reorganise
<1>3. ChainTypeOK'
  BY <1>1, <1>2 DEF ChainStep, ChainNext
<1> QED BY <1>3 DEF TypeOK, ChainStep, hubVars

LEMMA TypeNext ==
    ASSUME TypeOK, [Next]_vars
    PROVE  TypeOK'
<1>1. ASSUME NEW p \in Conns, Step(p)
      PROVE  TypeOK'
  BY <1>1, TypeRegister, TypeRetry, TypeEvaluate, TypePrepare,
     TypeLoadPrepared, TypeSignState, TypeBuildPackage, TypeCommitRefusal,
     TypeCommitState, TypeRecoverNext, TypeOtherSteps
     DEF Step, FinalizeFails, Busy
<1>2. ASSUME NEW p \in Conns, Begin(p)
      PROVE  TypeOK'
  BY <1>2, TypeStartRegister, TypeStartReserve, TypeStartRecovery DEF Begin
<1>3. ASSUME NEW p \in Conns, Crash(p) \/ Restart(p)
      PROVE  TypeOK'
  BY <1>3, TypeOtherSteps DEF Restart
<1>4. CASE UNCHANGED vars
  BY <1>4 DEF vars, hubVars, chainVars, TypeOK, ChainTypeOK, Height
<1> QED BY <1>1, <1>2, <1>3, <1>4, TypeChainStep DEF Next

\* Type correctness: every value the store, the processes and the signatures
\* hold is one the code's types and SQL CHECKs allow.
THEOREM TypeCorrect == Spec => []TypeOK
BY TypeInit, TypeNext, PTL DEF Spec

-----------------------------------------------------------------------------
(* What every step leaves as it was                                        *)

tables == <<latest, rows, intents, states, entries>>

\* The conjuncts of HubInv about the tables alone.
Tables ==
    /\ LedgerRecoverable
    /\ IntentsFollow
    /\ RowsBound
    /\ IntentsBound
    /\ LedgersValid

\* A reservation changes by being signed only, and an intent keeps its place,
\* its checkpoint and its nonce.
StoreGrows ==
    /\ \A c \in Coins, n \in Nonces :
         Taken(c, n) =>
            \/ rows'[c][n] = rows[c][n]
            \/ rows'[c][n] = [rows[c][n] EXCEPT !.stage = "SIGNED"]
    /\ \A c \in Coins : \A s \in DOMAIN intents[c] :
         /\ s \in DOMAIN intents'[c]
         /\ intents'[c][s].prev = intents[c][s].prev
         /\ intents'[c][s].hash = intents[c][s].hash
         /\ intents'[c][s].nonce = intents[c][s].nonce

LEMMA TablesKept ==
    ASSUME Tables, UNCHANGED tables
    PROVE  Tables'
<1>1. LedgerRecoverable'
  BY DEF Tables, tables, LedgerRecoverable
<1>2. IntentsFollow' /\ IntentsBound'
  BY DEF Tables, tables, IntentsFollow, IntentsBound, Taken
<1>3. RowsBound'
  BY DEF Tables, tables, RowsBound, Taken
<1>4. LedgersValid'
  BY DEF Tables, tables, LedgersValid
<1> QED BY <1>1, <1>2, <1>3, <1>4 DEF Tables

LEMMA UnchangedGrows ==
    ASSUME UNCHANGED tables
    PROVE  StoreGrows
BY DEF tables, StoreGrows

LEMMA TakenKept ==
    ASSUME TypeOK, StoreGrows, NEW c \in Coins, NEW n \in Nonces, Taken(c, n)
    PROVE  Taken(c, n)'
<1>1. rows[c][n] \in Rows
  BY DEF TypeOK
<1> QED BY <1>1 DEF StoreGrows, Taken, Rows

LEMMA LocalKept ==
    ASSUME TypeOK, RowsBound, StoreGrows, NEW q \in Conns, LocalBound(conn[q]),
           conn'[q] = conn[q]
    PROVE  LocalBound(conn[q])'
<1> DEFINE local == conn[q]
           c == local.coin
           n == local.nonce
           row == local.row
<1>1. local \in Locals /\ c \in Coins /\ n \in Nonces /\ row \in Rows
  BY DEF TypeOK, Locals
<1>2. rows[c][n] \in Rows
  BY <1>1 DEF TypeOK
<1>3. local.pc = "reserve" => n = local.request.nonce
  BY DEF LocalBound
<1>4. local.pc = "load" => Taken(c, n)'
  BY <1>1, TakenKept DEF LocalBound
<1>5. \A d \in Coins, m \in Nonces : <<d, m>> \in local.todo => Taken(d, m)'
  BY TakenKept DEF LocalBound
<1>6. ASSUME local.pc \in Signing
      PROVE  /\ row.stage = "PREPARED"
             /\ \/ rows'[c][n] = row
                \/ rows'[c][n] = [row EXCEPT !.stage = "SIGNED"]
             /\ Taken(c, n)
             /\ row.status = "SIGNED" => row.seq \in DOMAIN intents[c]
  <2>1. /\ row.stage = "PREPARED"
        /\ \/ rows[c][n] = row
           \/ rows[c][n] = [row EXCEPT !.stage = "SIGNED"]
    BY <1>6 DEF LocalBound
  <2>2. /\ rows[c][n].status = row.status
        /\ rows[c][n].seq = row.seq
        /\ rows[c][n].stage \in {"PREPARED", "SIGNED"}
    BY <2>1, <1>1 DEF Rows
  <2>3. Taken(c, n)
    BY <2>2 DEF Taken
  <2>4. \/ rows'[c][n] = rows[c][n]
        \/ rows'[c][n] = [rows[c][n] EXCEPT !.stage = "SIGNED"]
    BY <2>3, <1>1 DEF StoreGrows
  <2>5. \/ rows'[c][n] = row
        \/ rows'[c][n] = [row EXCEPT !.stage = "SIGNED"]
    BY <2>1, <2>4, <1>1, <1>2 DEF Rows
  <2>6. row.status = "SIGNED" => row.seq \in DOMAIN intents[c]
    <3>1. rows[c][n].status = "SIGNED" => rows[c][n].seq \in DOMAIN intents[c]
      BY <2>3, <1>1, Zenon DEF RowsBound
    <3> QED BY <3>1, <2>2
  <2> QED BY <2>1, <2>3, <2>5, <2>6
<1>7. ASSUME local.pc \in {"package", "commit"}, row.status = "SIGNED"
      PROVE  /\ local.ckpt.prev = intents'[c][row.seq].prev
             /\ local.ckpt.hash = intents'[c][row.seq].hash
  <2>1. row.seq \in DOMAIN intents[c]
    BY <1>6, <1>7 DEF Signing
  <2>2. /\ local.ckpt.prev = intents[c][row.seq].prev
        /\ local.ckpt.hash = intents[c][row.seq].hash
    BY <1>7 DEF LocalBound
  <2> QED BY <2>1, <2>2, <1>1 DEF StoreGrows
<1>8. /\ local.pc \in {"state", "package"} => row.status = "SIGNED"
      /\ local.pc = "commit" /\ row.status = "SIGNED" =>
            local.package = local.ckpt.hash
  BY DEF LocalBound
<1> QED
  BY <1>3, <1>4, <1>5, <1>6, <1>7, <1>8 DEF LocalBound, Taken

\* The processes that do not move keep what they hold; the one that moves
\* must be shown to hold what the store does.
LEMMA LocalsKept ==
    ASSUME TypeOK, RowsBound, LocalsBound, StoreGrows, NEW p \in Conns,
           NEW local, Become(p, local), LocalBound(conn[p])'
    PROVE  LocalsBound'
<1> SUFFICES ASSUME NEW q \in Conns PROVE LocalBound(conn[q])'
  BY DEF LocalsBound
<1>1. CASE q = p
  BY <1>1
<1>2. CASE q # p
  <2>1. conn'[q] = conn[q]
    BY <1>2 DEF Become, TypeOK
  <2> QED BY <2>1, LocalKept DEF LocalsBound
<1> QED BY <1>1, <1>2

\* What was signed stays the intent's checkpoint and the reservation's result.
LEMMA StateSigsKept ==
    ASSUME TypeOK, StateSigsBound, StoreGrows, UNCHANGED stateSigs
    PROVE  StateSigsBound'
BY ZenonT(60) DEF StateSigsBound, StoreGrows, TypeOK

LEMMA ResultSigsKept ==
    ASSUME TypeOK, ResultSigsBound, StoreGrows, UNCHANGED resultSigs
    PROVE  ResultSigsBound'
<1> SUFFICES ASSUME NEW t \in resultSigs
             PROVE  /\ Taken(t.coin, t.result.nonce)'
                    /\ t.result = Result(rows'[t.coin][t.result.nonce])
  BY DEF ResultSigsBound
<1> DEFINE c == t.coin
           n == t.result.nonce
<1>1. c \in Coins /\ n \in Nonces
  BY DEF TypeOK, Results
<1>2. Taken(c, n) /\ t.result = Result(rows[c][n])
  BY DEF ResultSigsBound
<1>3. rows[c][n] \in Rows
  BY <1>1 DEF TypeOK
<1>4. \/ rows'[c][n] = rows[c][n]
      \/ rows'[c][n] = [rows[c][n] EXCEPT !.stage = "SIGNED"]
  BY <1>1, <1>2 DEF StoreGrows
<1>5. Result(rows'[c][n]) = Result(rows[c][n])
  BY <1>3, <1>4 DEF Result, Rows
<1> QED BY <1>1, <1>2, <1>5, TakenKept

-----------------------------------------------------------------------------
(* Steps that leave the tables alone                                       *)

LEMMA BecomeIs ==
    ASSUME TypeOK, NEW p \in Conns, NEW local, Become(p, local)
    PROVE  conn'[p] = local
BY DEF Become, TypeOK

\* A process that is not at work on a reservation holds nothing of one.
LEMMA QuietLocal ==
    ASSUME TypeOK, StoreGrows, NEW p \in Conns,
           conn'[p].pc \in {"idle", "down", "register", "recover"},
           \A d \in Coins, m \in Nonces :
                <<d, m>> \in conn'[p].todo => Taken(d, m)
    PROVE  LocalBound(conn[p])'
<1>1. \A d \in Coins, m \in Nonces :
        <<d, m>> \in conn'[p].todo => Taken(d, m)'
  BY TakenKept
<1> QED BY <1>1 DEF LocalBound, Taken, Signing

LEMMA IdleFields == Idle \in Locals /\ Idle.pc = "idle" /\ Idle.todo = {}
BY IdleType DEF Idle

LEMMA IdleLocal ==
    ASSUME TypeOK, StoreGrows, NEW p \in Conns, Become(p, Idle)
    PROVE  LocalBound(conn[p])'
<1>1. conn'[p].pc = "idle" /\ conn'[p].todo = {}
  BY BecomeIs DEF Idle
<1> QED BY <1>1, QuietLocal

LEMMA RestLocal ==
    ASSUME TypeOK, LocalsBound, StoreGrows, NEW p \in Conns,
           Become(p, Rest(p))
    PROVE  LocalBound(conn[p])'
<1>1. /\ conn'[p].pc \in {"idle", "recover"}
      /\ conn'[p].todo = conn[p].todo
  BY BecomeIs, ZenonT(60) DEF Rest, Idle
<1> QED BY <1>1, QuietLocal DEF LocalsBound, LocalBound

LEMMA InvLocalStep ==
    ASSUME HubInv, TypeOK', GatesHeld', UNCHANGED tables, UNCHANGED sigs,
           NEW p \in Conns, NEW local, Become(p, local), LocalBound(conn[p])'
    PROVE  HubInv'
<1>1. StoreGrows
  BY UnchangedGrows
<1>2. Tables'
  BY TablesKept DEF HubInv, Tables
<1>3. LocalsBound'
  BY <1>1, LocalsKept DEF HubInv
<1>4. StateSigsBound' /\ ResultSigsBound'
  BY <1>1, StateSigsKept, ResultSigsKept DEF HubInv, sigs
<1> QED BY <1>2, <1>3, <1>4 DEF HubInv, Tables

LEMMA InvStartRegister ==
    ASSUME HubInv, TypeOK', GatesHeld', NEW p \in Conns, NEW c \in Coins,
           StartRegister(p, c)
    PROVE  HubInv'
<1>1. PICK snap \in SnapshotsNow(c) :
        Become(p, [Idle EXCEPT !.pc = "register", !.coin = c, !.snap = snap])
  BY Zenon DEF StartRegister
<1>2. UNCHANGED tables /\ UNCHANGED sigs
  BY DEF StartRegister, store, tables
<1>3. conn'[p].pc = "register" /\ conn'[p].todo = {}
  BY <1>1, BecomeIs, IdleFields, ZenonT(60) DEF HubInv, Locals
<1>4. LocalBound(conn[p])'
  BY <1>2, <1>3, UnchangedGrows, QuietLocal DEF HubInv
<1> QED BY <1>1, <1>2, <1>4, InvLocalStep

LEMMA InvRegister ==
    ASSUME HubInv, TypeOK', GatesHeld', NEW p \in Conns, Register(p)
    PROVE  HubInv'
<1>1. UNCHANGED tables /\ UNCHANGED sigs /\ Become(p, Idle)
  BY DEF Register, tables
<1>2. LocalBound(conn[p])'
  BY <1>1, UnchangedGrows, IdleLocal DEF HubInv
<1> QED BY <1>1, <1>2, InvLocalStep

LEMMA InvStartReserve ==
    ASSUME HubInv, TypeOK', GatesHeld', NEW p \in Conns, NEW c \in Coins,
           NEW request \in Requests, NEW id \in RequestIds,
           StartReserve(p, c, request, id)
    PROVE  HubInv'
<1>1. PICK snap \in SnapshotsNow(c) :
        Become(p, [ Idle EXCEPT !.pc = "reserve", !.coin = c,
                                !.request = request, !.id = id,
                                !.snap = snap, !.nonce = request.nonce ])
  BY Zenon DEF StartReserve
<1>2. UNCHANGED tables /\ UNCHANGED sigs
  BY DEF StartReserve, store, tables
<1>3. /\ conn'[p].pc = "reserve"
      /\ conn'[p].todo = {}
      /\ conn'[p].nonce = conn'[p].request.nonce
  <2>1. conn'[p] = [ Idle EXCEPT !.pc = "reserve", !.coin = c,
                                 !.request = request, !.id = id,
                                 !.snap = snap, !.nonce = request.nonce ]
    BY <1>1, BecomeIs DEF HubInv
  <2> QED BY <2>1, IdleFields DEF Locals
<1>4. LocalBound(conn[p])'
  BY <1>3 DEF LocalBound, Signing
<1> QED BY <1>1, <1>2, <1>4, InvLocalStep

LEMMA InvRetry ==
    ASSUME HubInv, TypeOK', GatesHeld', NEW p \in Conns, Retry(p)
    PROVE  HubInv'
<1> DEFINE c == conn[p].coin
           n == conn[p].nonce
           local == [Idle EXCEPT !.pc = "load", !.coin = c, !.nonce = n]
<1>1. UNCHANGED tables /\ UNCHANGED sigs
  BY DEF Retry, store, tables
<1>2. CASE Become(p, Idle)
  BY <1>1, <1>2, UnchangedGrows, IdleLocal, InvLocalStep DEF HubInv
<1>3. CASE Become(p, local)
  <2>1. /\ conn'[p].pc = "load"
        /\ conn'[p].todo = {}
        /\ conn'[p].coin = c
        /\ conn'[p].nonce = n
    <3>1. conn'[p] = local
      BY <1>3, BecomeIs DEF HubInv
    <3> QED BY <3>1, IdleFields DEF Locals
  <2>2. rows'[c][n].stage # "NONE"
    BY <1>1 DEF Retry, Fresh, tables
  <2>3. LocalBound(conn[p])'
    BY <2>1, <2>2 DEF LocalBound, Signing, Taken
  <2> QED BY <1>1, <1>3, <2>3, InvLocalStep
<1> QED BY <1>2, <1>3 DEF Retry

LEMMA InvEvaluate ==
    ASSUME HubInv, TypeOK', GatesHeld', NEW p \in Conns, Evaluate(p)
    PROVE  HubInv'
<1>1. PICK again \in SnapshotsNow(conn[p].coin) :
        Become(p, [conn[p] EXCEPT !.pc = "gate", !.again = again])
  BY Zenon DEF Evaluate
<1>2. UNCHANGED tables /\ UNCHANGED sigs
  BY DEF Evaluate, store, tables
<1>3. /\ conn'[p].pc = "gate"
      /\ conn'[p].coin = conn[p].coin
      /\ conn'[p].nonce = conn[p].nonce
      /\ conn'[p].request = conn[p].request
      /\ conn'[p].todo = conn[p].todo
  <2>1. conn'[p] = [conn[p] EXCEPT !.pc = "gate", !.again = again]
    BY <1>1, BecomeIs DEF HubInv
  <2>2. conn[p] \in Locals
    BY DEF HubInv, TypeOK
  <2> QED BY <2>1, <2>2 DEF Locals
<1>4. conn[p].pc = "reserve" /\ LocalBound(conn[p])
  BY DEF Evaluate, HubInv, LocalsBound
<1>5. \A d \in Coins, m \in Nonces : Taken(d, m)' = Taken(d, m)
  BY <1>2 DEF tables, Taken
<1>6. LocalBound(conn[p])'
  BY <1>3, <1>4, <1>5 DEF LocalBound, Signing, Taken
<1> QED BY <1>1, <1>2, <1>6, InvLocalStep

LEMMA InvStartRecovery ==
    ASSUME HubInv, TypeOK', GatesHeld', NEW p \in Conns, StartRecovery(p)
    PROVE  HubInv'
<1> DEFINE pending == { job \in Coins \X Nonces :
                          rows[job[1]][job[2]].stage = "PREPARED" }
           local == [Idle EXCEPT !.pc = "recover", !.todo = pending]
<1>1. UNCHANGED tables /\ UNCHANGED sigs /\ Become(p, local)
  BY DEF StartRecovery, store, tables
<1>2. conn'[p].pc = "recover" /\ conn'[p].todo = pending
  <2>1. conn'[p] = local
    BY <1>1, BecomeIs DEF HubInv
  <2> QED BY <2>1, IdleFields DEF Locals
<1>3. \A d \in Coins, m \in Nonces : <<d, m>> \in pending => Taken(d, m)
  BY DEF Taken
<1>4. LocalBound(conn[p])'
  BY <1>1, <1>2, <1>3, UnchangedGrows, QuietLocal DEF HubInv
<1> QED BY <1>1, <1>4, InvLocalStep

LEMMA InvRecoverNext ==
    ASSUME HubInv, TypeOK', GatesHeld', NEW p \in Conns, RecoverNext(p)
    PROVE  HubInv'
<1>1. UNCHANGED tables /\ UNCHANGED sigs
  BY DEF RecoverNext, store, tables
<1>2. PICK job \in conn[p].todo :
        Become(p, [ Idle EXCEPT !.pc = "load", !.coin = job[1],
                                !.nonce = job[2],
                                !.todo = conn[p].todo \ {job} ])
  BY Zenon DEF RecoverNext
<1>3. /\ conn'[p].pc = "load"
      /\ conn'[p].todo = conn[p].todo \ {job}
      /\ conn'[p].coin = job[1]
      /\ conn'[p].nonce = job[2]
  <2>1. conn'[p] = [ Idle EXCEPT !.pc = "load", !.coin = job[1],
                                 !.nonce = job[2],
                                 !.todo = conn[p].todo \ {job} ]
    BY <1>2, BecomeIs DEF HubInv
  <2> QED BY <2>1, IdleFields DEF Locals
<1>4. /\ job[1] \in Coins
      /\ job[2] \in Nonces
      /\ job = <<job[1], job[2]>>
  <2>1. conn[p].todo \subseteq Coins \X Nonces
    BY DEF HubInv, TypeOK, Locals
  <2> QED BY <2>1
<1>5. \A d \in Coins, m \in Nonces : <<d, m>> \in conn[p].todo => Taken(d, m)'
  BY <1>1 DEF HubInv, LocalsBound, LocalBound, Taken, tables
<1>6. Taken(job[1], job[2])'
  BY <1>4, <1>5
<1>7. LocalBound(conn[p])'
  BY <1>3, <1>5, <1>6 DEF LocalBound, Signing, Taken
<1> QED BY <1>1, <1>2, <1>7, InvLocalStep

\* The steps that end in Idle, Rest or "down" and change nothing else.
LEMMA InvOtherSteps ==
    ASSUME HubInv, TypeOK', GatesHeld', NEW p \in Conns,
           \/ ReserveFails(p)
           \/ GiveUp(p)
           \/ CommitLate(p)
           \/ Crash(p)
    PROVE  HubInv'
<1> DEFINE down == [Idle EXCEPT !.pc = "down"]
<1>1. UNCHANGED tables /\ UNCHANGED sigs
  BY DEF ReserveFails, GiveUp, CommitLate, Crash, store, tables
<1>2. Become(p, Idle) \/ Become(p, Rest(p)) \/ Become(p, down)
  BY DEF ReserveFails, GiveUp, CommitLate, Crash
<1>3. CASE Become(p, Idle)
  BY <1>1, <1>3, UnchangedGrows, IdleLocal, InvLocalStep DEF HubInv
<1>4. CASE Become(p, Rest(p))
  BY <1>1, <1>4, UnchangedGrows, RestLocal, InvLocalStep DEF HubInv
<1>5. CASE Become(p, down)
  <2>1. conn'[p].pc = "down" /\ conn'[p].todo = {}
    BY <1>5, BecomeIs, IdleFields DEF HubInv, Locals
  <2> QED BY <1>1, <1>5, <2>1, UnchangedGrows, QuietLocal, InvLocalStep
          DEF HubInv
<1> QED BY <1>2, <1>3, <1>4, <1>5

-----------------------------------------------------------------------------
(* The signatures                                                          *)

LEMMA InvSigningStep ==
    ASSUME HubInv, TypeOK', GatesHeld', UNCHANGED tables, StateSigsBound',
           ResultSigsBound', NEW p \in Conns, NEW local, Become(p, local),
           LocalBound(conn[p])'
    PROVE  HubInv'
<1>1. StoreGrows
  BY UnchangedGrows
<1>2. Tables'
  BY TablesKept DEF HubInv, Tables
<1>3. LocalsBound'
  BY <1>1, LocalsKept DEF HubInv
<1> QED BY <1>2, <1>3 DEF HubInv, Tables

LEMMA InvLoadPrepared ==
    ASSUME HubInv, TypeOK', GatesHeld', NEW p \in Conns, LoadPrepared(p)
    PROVE  HubInv'
<1> DEFINE c == conn[p].coin
           n == conn[p].nonce
           row == rows[c][n]
           local == [ conn[p] EXCEPT !.row = row,
                        !.pc = IF row.status = "SIGNED" THEN "state"
                                                        ELSE "commit" ]
<1>1. conn[p] \in Locals /\ c \in Coins /\ n \in Nonces
  BY DEF HubInv, TypeOK, Locals
<1>2. row \in Rows /\ Taken(c, n) /\ row.request.nonce = n
  <2>1. row \in Rows
    BY <1>1 DEF HubInv, TypeOK
  <2>2. conn[p].pc = "load"
    BY DEF LoadPrepared
  <2>3. LocalBound(conn[p])
    BY DEF HubInv, LocalsBound
  <2>4. Taken(c, n)
    BY <2>2, <2>3 DEF LocalBound
  <2> QED BY <2>1, <2>4, <1>1 DEF HubInv, RowsBound
<1>3. UNCHANGED tables /\ UNCHANGED stateSigs /\ StoreGrows
  BY UnchangedGrows DEF LoadPrepared, store, tables, sigs
<1>4. StateSigsBound'
  BY <1>3, StateSigsKept DEF HubInv
<1>5. CASE Become(p, Rest(p)) /\ UNCHANGED sigs
  BY <1>3, <1>5, RestLocal, InvLocalStep DEF HubInv
<1>6. CASE /\ row.stage # "SIGNED"
           /\ resultSigs' = resultSigs \cup {[coin |-> c, result |-> Result(row)]}
           /\ Become(p, local)
  <2>1. row.stage = "PREPARED"
    BY <1>2, <1>6 DEF Rows, Taken
  <2>2. conn'[p] = local
    BY <1>6, BecomeIs DEF HubInv
  <2>3. /\ conn'[p].pc \in {"state", "commit"}
        /\ conn'[p].pc = "state" <=> row.status = "SIGNED"
        /\ conn'[p].row = row
        /\ conn'[p].coin = c
        /\ conn'[p].nonce = n
        /\ conn'[p].todo = conn[p].todo
    BY <2>2, <1>1 DEF Locals
  <2>4. \A d \in Coins, m \in Nonces : <<d, m>> \in conn[p].todo => Taken(d, m)
    BY DEF HubInv, LocalsBound, LocalBound
  <2>5. rows' = rows
    BY <1>3 DEF tables
  <2>6. LocalBound(conn[p])'
    BY <2>1, <2>3, <2>4, <2>5 DEF LocalBound, Signing, Taken
  <2>7. ResultSigsBound'
    <3> SUFFICES ASSUME NEW t \in resultSigs'
                 PROVE  /\ rows[t.coin][t.result.nonce].stage # "NONE"
                        /\ t.result = Result(rows[t.coin][t.result.nonce])
      BY <2>5 DEF ResultSigsBound, Taken
    <3>1. CASE t \in resultSigs
      BY <3>1 DEF HubInv, ResultSigsBound, Taken
    <3>2. CASE t = [coin |-> c, result |-> Result(row)]
      <4>1. t.result.nonce = n
        BY <3>2, <1>2 DEF Result
      <4> QED BY <3>2, <4>1, <1>2 DEF Taken
    <3> QED BY <3>1, <3>2, <1>6
  <2> QED BY <1>3, <1>4, <1>6, <2>6, <2>7, InvSigningStep
<1> QED BY <1>5, <1>6 DEF LoadPrepared, sigs

LEMMA InvSignState ==
    ASSUME HubInv, TypeOK', GatesHeld', NEW p \in Conns, SignState(p)
    PROVE  HubInv'
<1> DEFINE c == conn[p].coin
           seq == conn[p].row.seq
           ckpt == [prev |-> intents[c][seq].prev, hash |-> intents[c][seq].hash]
           local == [conn[p] EXCEPT !.pc = "package", !.ckpt = ckpt]
           sig == [coin |-> c, seq |-> seq, hash |-> intents[c][seq].hash]
<1>1. conn[p] \in Locals
  BY DEF HubInv, TypeOK
<1>2. /\ UNCHANGED tables /\ UNCHANGED resultSigs /\ StoreGrows
      /\ Become(p, local)
      /\ stateSigs' = stateSigs \cup {sig}
      /\ seq \in DOMAIN intents[c]
      /\ conn[p].pc = "state"
  BY UnchangedGrows, ZenonT(60) DEF SignState, PreparedIntent, store, tables
<1>3. ResultSigsBound'
  BY <1>2, ResultSigsKept DEF HubInv
<1>4. StateSigsBound'
  <2>1. intents' = intents
    BY <1>2 DEF tables
  <2>2. ASSUME NEW s \in stateSigs'
        PROVE  /\ s.seq \in DOMAIN intents[s.coin]
               /\ s.hash = intents[s.coin][s.seq].hash
    <3>1. CASE s \in stateSigs
      BY <3>1 DEF HubInv, StateSigsBound
    <3>2. CASE s = sig
      BY <3>2, <1>2, ZenonT(60)
    <3> QED BY <3>1, <3>2, <1>2, Zenon
  <2> QED BY <2>1, <2>2 DEF StateSigsBound
<1>5. LocalBound(conn[p])'
  <2>1. conn'[p] = local
    BY <1>2, BecomeIs, Zenon DEF HubInv
  <2>2. /\ conn'[p].pc = "package"
        /\ conn'[p].row = conn[p].row
        /\ conn'[p].coin = c
        /\ conn'[p].nonce = conn[p].nonce
        /\ conn'[p].todo = conn[p].todo
        /\ conn'[p].ckpt.prev = intents[c][seq].prev
        /\ conn'[p].ckpt.hash = intents[c][seq].hash
    BY <2>1, <1>1 DEF Locals
  <2>3. rows' = rows /\ intents' = intents
    BY <1>2 DEF tables
  <2>4. LocalBound(conn[p])
    BY DEF HubInv, LocalsBound
  <2> QED BY <1>2, <2>2, <2>3, <2>4, ZenonT(60) DEF LocalBound, Signing, Taken
<1> QED BY <1>2, <1>3, <1>4, <1>5, InvSigningStep

LEMMA InvBuildPackage ==
    ASSUME HubInv, TypeOK', GatesHeld', NEW p \in Conns, BuildPackage(p)
    PROVE  HubInv'
<1> DEFINE package == Append(entries[conn[p].coin], conn[p].row.request)
           local == [conn[p] EXCEPT !.pc = "commit", !.package = package]
<1>1. conn[p] \in Locals
  BY DEF HubInv, TypeOK
<1>2. /\ UNCHANGED tables /\ UNCHANGED sigs
      /\ Become(p, local)
      /\ package = conn[p].ckpt.hash
      /\ conn[p].pc = "package"
  BY DEF BuildPackage, PackageValid, store, tables
<1> HIDE DEF package
<1>3. LocalBound(conn[p])'
  <2>1. conn'[p] = local
    BY <1>2, BecomeIs DEF HubInv
  <2>2. /\ conn'[p].pc = "commit"
        /\ conn'[p].row = conn[p].row
        /\ conn'[p].coin = conn[p].coin
        /\ conn'[p].nonce = conn[p].nonce
        /\ conn'[p].todo = conn[p].todo
        /\ conn'[p].ckpt = conn[p].ckpt
        /\ conn'[p].package = package
    BY <2>1, <1>1 DEF Locals
  <2>3. rows' = rows /\ intents' = intents
    BY <1>2 DEF tables
  <2>4. LocalBound(conn[p])
    BY DEF HubInv, LocalsBound
  <2> QED BY <1>2, <2>2, <2>3, <2>4 DEF LocalBound, Signing, Taken
<1> QED BY <1>2, <1>3, InvLocalStep

-----------------------------------------------------------------------------
(* Transaction 1                                                           *)

\* What is known of a reservation that is prepared to be accepted.
LEMMA TargetSigned ==
    ASSUME NEW c, NEW request, NEW verdict,
           Admitted(request, verdict) => CanExtend(c, request),
           TargetStatus(c, request, verdict) = "SIGNED"
    PROVE  /\ request.auth
           /\ CanExtend(c, request)
           /\ LedgerValid(Append(entries[c], request))
<1>1. request.auth
  BY DEF TargetStatus
<1>2. Admitted(request, verdict)
  BY <1>1 DEF TargetStatus, Admitted
<1>3. /\ ~LedgerFull(Append(entries[c], request))
      /\ ~Overdrawn(Append(entries[c], request))
  BY <1>1, <1>2 DEF TargetStatus
<1> QED BY <1>1, <1>2, <1>3 DEF CanExtend, LedgerValid

\* The effect of transaction 1, with the row it inserts for its nonce and, if
\* the reservation is to be accepted, the intent it appends.
Inserted(p, row, intent) ==
    LET c == conn[p].coin
        n == conn[p].nonce
        request == conn[p].request
    IN /\ c \in Coins /\ n \in Nonces /\ request \in Requests
       /\ n = request.nonce
       /\ ~Taken(c, n)
       /\ rows' = [rows EXCEPT ![c][n] = row]
       /\ row \in Rows
       /\ row.stage = "PREPARED"
       /\ row.request = request
       /\ row.status = "SIGNED" =>
            /\ request.auth
            /\ row.seq = latest[c].seq + 1
            /\ row.hash = Append(entries[c], request)
            /\ LedgerValid(row.hash)
            /\ ~HasPreparedIntent(c)
            /\ Len(intents[c]) = latest[c].seq
            /\ intents' = [intents EXCEPT ![c] = Append(@, intent)]
            /\ intent = [ prev |-> latest[c].hash, hash |-> row.hash,
                          nonce |-> n, stage |-> "PREPARED" ]
       /\ row.status # "SIGNED" => UNCHANGED intents

LEMMA PrepareInserts ==
    ASSUME HubInv, NEW p \in Conns, Prepare(p)
    PROVE  \E row, intent : Inserted(p, row, intent)
<1> DEFINE c == conn[p].coin
           request == conn[p].request
           n == conn[p].nonce
           verdict == VerdictFor(p)
           status == TargetStatus(c, request, verdict)
           row == NewRow(p, verdict, status)
           intent == [ prev |-> latest[c].hash, hash |-> row.hash,
                       nonce |-> n, stage |-> "PREPARED" ]
<1>1. /\ c \in Coins /\ n \in Nonces /\ request \in Requests
      /\ conn[p].snap \in Snapshots /\ conn[p].again \in Snapshots
  BY DEF HubInv, TypeOK, Locals
<1>2. n = request.nonce /\ ~Taken(c, n)
  <2>1. conn[p].pc = "gate"
    BY DEF Prepare
  <2> QED BY <2>1 DEF HubInv, LocalsBound, LocalBound, GatesHeld
<1>3. verdict \in Verdicts
  <2>1. view[c] \in Views
    BY <1>1 DEF HubInv, TypeOK
  <2> QED BY <1>1, <2>1, GateType DEF VerdictFor
<1>4. Admitted(request, verdict) => CanExtend(c, request)
  BY DEF Prepare
<1>5. /\ rows' = [rows EXCEPT ![c][n] = row]
      /\ ~Taken(c, n)
      /\ status = "SIGNED" =>
           intents' = [intents EXCEPT ![c] = Append(@, intent)]
      /\ status # "SIGNED" => UNCHANGED intents
  BY <1>2 DEF Prepare
<1> HIDE DEF verdict
<1>6. row \in Rows
  BY <1>3, TargetStatusType, NewRowType DEF HubInv
<1>7. /\ row.stage = "PREPARED"
      /\ row.request = request
      /\ row.status = status
      /\ status = "SIGNED" =>
           /\ row.seq = latest[c].seq + 1
           /\ row.hash = Append(entries[c], request)
  BY DEF NewRow
<1>8. status = "SIGNED" =>
        /\ request.auth
        /\ ~HasPreparedIntent(c)
        /\ Len(intents[c]) = latest[c].seq
        /\ LedgerValid(row.hash)
  BY <1>4, <1>7, TargetSigned, ZenonT(60) DEF CanExtend
<1> HIDE DEF row, status
<1>9. Inserted(p, row, intent)
  BY <1>1, <1>2, <1>5, <1>6, <1>7, <1>8 DEF Inserted
<1> QED BY <1>9

LEMMA InsertGrows ==
    ASSUME HubInv, NEW p \in Conns, NEW row, NEW intent,
           Inserted(p, row, intent)
    PROVE  StoreGrows
<1> DEFINE c == conn[p].coin
           n == conn[p].nonce
<1>1. /\ c \in Coins /\ n \in Nonces /\ ~Taken(c, n)
      /\ rows' = [rows EXCEPT ![c][n] = row]
      /\ UNCHANGED intents \/ intents' = [intents EXCEPT ![c] = Append(@, intent)]
  BY DEF Inserted
<1>2. ASSUME NEW d \in Coins, NEW m \in Nonces, Taken(d, m)
      PROVE  rows'[d][m] = rows[d][m]
  BY <1>1, <1>2 DEF HubInv, TypeOK
<1>3. ASSUME NEW d \in Coins, NEW s \in DOMAIN intents[d]
      PROVE  s \in DOMAIN intents'[d] /\ intents'[d][s] = intents[d][s]
  <2>1. intents[d] \in Seq(Intents) /\ intents[c] \in Seq(Intents)
    BY <1>1 DEF HubInv, TypeOK
  <2>2. /\ s \in DOMAIN Append(intents[d], intent)
        /\ Append(intents[d], intent)[s] = intents[d][s]
    BY <2>1
  <2> QED BY <1>1, <2>2 DEF HubInv, TypeOK
<1> QED BY <1>2, <1>3 DEF StoreGrows

\* The intents of a channel after transaction 1: those it had, and the new one
\* at the sequence of the row.
LEMMA InsertedIntents ==
    ASSUME HubInv, NEW p \in Conns, NEW row, NEW intent,
           Inserted(p, row, intent), NEW d \in Coins
    PROVE  LET c == conn[p].coin
               new == d = c /\ row.status = "SIGNED"
           IN /\ ~new => intents'[d] = intents[d]
              /\ new =>
                   /\ Len(intents'[d]) = Len(intents[d]) + 1
                   /\ DOMAIN intents'[d] = 1..(Len(intents[d]) + 1)
                   /\ \A s \in DOMAIN intents[d] :
                        intents'[d][s] = intents[d][s]
                   /\ Len(intents[d]) + 1 = row.seq
                   /\ intents'[d][row.seq] = intent
              /\ DOMAIN intents[d] = 1..Len(intents[d])
              /\ Len(intents[d]) \in Nat
<1> DEFINE c == conn[p].coin
           new == d = c /\ row.status = "SIGNED"
<1>1. /\ intents[d] \in Seq(Intents)
      /\ DOMAIN intents[d] = 1..Len(intents[d])
      /\ Len(intents[d]) \in Nat
  BY LenProperties DEF HubInv, TypeOK
<1>2. ~new => intents'[d] = intents[d]
  BY DEF Inserted, HubInv, TypeOK
<1>3. ASSUME new
      PROVE  /\ Len(intents'[d]) = Len(intents[d]) + 1
             /\ DOMAIN intents'[d] = 1..(Len(intents[d]) + 1)
             /\ \A s \in DOMAIN intents[d] : intents'[d][s] = intents[d][s]
             /\ Len(intents[d]) + 1 = row.seq
             /\ intents'[d][row.seq] = intent
  <2>1. /\ intents'[d] = Append(intents[d], intent)
        /\ Len(intents[d]) + 1 = row.seq
    BY <1>3 DEF Inserted, HubInv, TypeOK
  <2> QED BY <2>1, <1>1
<1> QED BY <1>1, <1>2, <1>3

LEMMA InsertTables ==
    ASSUME HubInv, NEW p \in Conns, NEW row, NEW intent,
           Inserted(p, row, intent), UNCHANGED <<latest, states, entries>>
    PROVE  Tables'
<1> DEFINE c == conn[p].coin
           n == conn[p].nonce
<1>1. /\ c \in Coins /\ n \in Nonces /\ ~Taken(c, n)
      /\ rows' = [rows EXCEPT ![c][n] = row]
      /\ row \in Rows
      /\ row.stage = "PREPARED"
      /\ row.request.nonce = n
  BY DEF Inserted
<1>2. /\ rows'[c][n] = row
      /\ \A d \in Coins, m \in Nonces :
           <<d, m>> # <<c, n>> => rows'[d][m] = rows[d][m]
  BY <1>1 DEF HubInv, TypeOK
<1>3. row.status = "SIGNED" =>
        /\ row.seq = latest[c].seq + 1
        /\ row.hash = Append(entries[c], row.request)
        /\ row.request.auth
        /\ LedgerValid(row.hash)
        /\ ~HasPreparedIntent(c)
        /\ Len(intents[c]) = latest[c].seq
        /\ intent = [ prev |-> latest[c].hash, hash |-> row.hash,
                      nonce |-> n, stage |-> "PREPARED" ]
        /\ latest[c].hash = entries[c]
  BY <1>1 DEF Inserted, HubInv, LedgerRecoverable
<1>4. \A d \in Coins : latest[d].seq \in Nat
  BY DEF HubInv, TypeOK, Pointers
<1>5. LedgerRecoverable' /\ LedgersValid'
  BY DEF HubInv, LedgerRecoverable, LedgersValid
<1>6. ASSUME NEW d \in Coins, d = c, row.status = "SIGNED"
      PROVE  /\ Len(intents'[d]) = latest[d].seq + 1
             /\ DOMAIN intents'[d] = 1..(latest[d].seq + 1)
             /\ \A s \in 1..latest[d].seq :
                  /\ s \in DOMAIN intents[d]
                  /\ intents'[d][s] = intents[d][s]
                  /\ intents[d][s].stage # "PREPARED"
             /\ intents'[d][latest[d].seq + 1] = intent
  <2>1. Len(intents[d]) = latest[d].seq
    BY <1>3, <1>6
  <2>2. ~HasPreparedIntent(d)
    BY <1>3, <1>6
  <2>3. DOMAIN intents[d] = 1..latest[d].seq
    BY <2>1, <1>6, InsertedIntents
  <2> QED BY <2>1, <2>2, <2>3, <1>3, <1>6, InsertedIntents
          DEF HasPreparedIntent
<1>7. ASSUME NEW d \in Coins, ~(d = c /\ row.status = "SIGNED")
      PROVE  intents'[d] = intents[d]
  BY <1>7, InsertedIntents
<1>8. IntentsFollow'
  <2> SUFFICES ASSUME NEW d \in Coins
               PROVE  /\ Len(intents'[d]) \in {latest[d].seq, latest[d].seq + 1}
                      /\ \A s \in DOMAIN intents'[d] :
                           intents'[d][s].stage = "PREPARED" <=>
                             s = latest[d].seq + 1
                      /\ \A s \in DOMAIN intents'[d] :
                           intents'[d][s].stage = "PREPARED" =>
                             /\ intents'[d][s].prev = entries[d]
                             /\ LedgerValid(intents'[d][s].hash)
    BY DEF IntentsFollow
  <2>1. CASE d = c /\ row.status = "SIGNED"
    <3>1. ASSUME NEW s \in DOMAIN intents'[d]
          PROVE  s \in 1..latest[d].seq \/ s = latest[d].seq + 1
      BY <2>1, <1>4, <1>6
    <3>2. latest[d].seq + 1 \notin 1..latest[d].seq
      BY <1>4
    <3>3. ASSUME NEW s \in 1..latest[d].seq
          PROVE  intents'[d][s].stage # "PREPARED"
      BY <2>1, <3>3, <1>6
    <3>4. /\ intents'[d][latest[d].seq + 1].stage = "PREPARED"
          /\ intents'[d][latest[d].seq + 1].prev = entries[d]
          /\ LedgerValid(intents'[d][latest[d].seq + 1].hash)
      BY <2>1, <1>3, <1>6
    <3> QED BY <2>1, <3>1, <3>2, <3>3, <3>4, <1>6, Zenon
  <2>2. CASE ~(d = c /\ row.status = "SIGNED")
    BY <2>2, <1>7 DEF HubInv, IntentsFollow
  <2> QED BY <2>1, <2>2
<1>9. RowsBound'
  <2> SUFFICES ASSUME NEW d \in Coins, NEW m \in Nonces, Taken(d, m)'
               PROVE  /\ rows'[d][m].request.nonce = m
                      /\ rows'[d][m].status = "SIGNED" =>
                           LET seq == rows'[d][m].seq
                           IN /\ rows'[d][m].request.auth
                              /\ seq \in DOMAIN intents'[d]
                              /\ intents'[d][seq].nonce = m
                              /\ intents'[d][seq].stage = rows'[d][m].stage
                              /\ intents'[d][seq].hash = rows'[d][m].hash
                              /\ intents'[d][seq].hash =
                                   Append(intents'[d][seq].prev,
                                          rows'[d][m].request)
    BY DEF RowsBound
  <2>1. CASE <<d, m>> = <<c, n>>
    <3>1. rows'[d][m] = row
      BY <2>1, <1>2
    <3>2. ASSUME row.status = "SIGNED"
          PROVE  /\ row.request.auth
                 /\ row.seq \in DOMAIN intents'[d]
                 /\ intents'[d][row.seq].nonce = m
                 /\ intents'[d][row.seq].stage = row.stage
                 /\ intents'[d][row.seq].hash = row.hash
                 /\ intents'[d][row.seq].hash =
                      Append(intents'[d][row.seq].prev, row.request)
      <4>1. d = c /\ m = n
        BY <2>1
      <4>2. intents'[d][row.seq] = intent /\ row.seq \in DOMAIN intents'[d]
        BY <4>1, <3>2, <1>3, <1>4, <1>6
      <4> QED BY <4>1, <4>2, <3>2, <1>1, <1>3
    <3> QED BY <2>1, <3>1, <3>2, <1>1
  <2>2. CASE <<d, m>> # <<c, n>>
    <3>1. rows'[d][m] = rows[d][m] /\ Taken(d, m)
      BY <2>2, <1>2 DEF Taken
    <3>2. rows[d][m].status = "SIGNED" =>
            /\ rows[d][m].seq \in DOMAIN intents[d]
            /\ rows[d][m].seq \in DOMAIN intents'[d]
            /\ intents'[d][rows[d][m].seq] = intents[d][rows[d][m].seq]
      <4>1. rows[d][m].status = "SIGNED" =>
              rows[d][m].seq \in DOMAIN intents[d]
        BY <3>1 DEF HubInv, RowsBound
      <4> QED BY <4>1, InsertedIntents
    <3>3. /\ rows[d][m].request.nonce = m
          /\ rows[d][m].status = "SIGNED" =>
               LET seq == rows[d][m].seq
               IN /\ rows[d][m].request.auth
                  /\ intents[d][seq].nonce = m
                  /\ intents[d][seq].stage = rows[d][m].stage
                  /\ intents[d][seq].hash = rows[d][m].hash
                  /\ intents[d][seq].hash =
                       Append(intents[d][seq].prev, rows[d][m].request)
      BY <3>1 DEF HubInv, RowsBound
    <3> QED BY <3>1, <3>2, <3>3
  <2> QED BY <2>1, <2>2, ZenonT(60)
<1>10. IntentsBound'
  <2> SUFFICES ASSUME NEW d \in Coins, NEW s \in DOMAIN intents'[d]
               PROVE  /\ rows'[d][intents'[d][s].nonce].stage # "NONE"
                      /\ rows'[d][intents'[d][s].nonce].status = "SIGNED"
                      /\ rows'[d][intents'[d][s].nonce].seq = s
    BY DEF IntentsBound, Taken
  <2>1. CASE d = c /\ row.status = "SIGNED" /\ s = latest[d].seq + 1
    <3>1. intents'[d][s] = intent /\ intent.nonce = n /\ row.seq = s
      BY <2>1, <1>3, <1>6
    <3>2. rows'[d][intents'[d][s].nonce] = row
      BY <3>1, <2>1, <1>2
    <3> QED BY <3>1, <3>2, <2>1, <1>1
  <2>2. CASE ~(d = c /\ row.status = "SIGNED" /\ s = latest[d].seq + 1)
    <3>1. s \in DOMAIN intents[d] /\ intents'[d][s] = intents[d][s]
      <4>1. CASE d = c /\ row.status = "SIGNED"
        <5>1. s \in 1..latest[d].seq
          BY <2>2, <4>1, <1>4, <1>6
        <5> QED BY <4>1, <5>1, <1>6
      <4>2. CASE ~(d = c /\ row.status = "SIGNED")
        BY <4>2, <1>7
      <4> QED BY <4>1, <4>2
    <3>2. /\ Taken(d, intents[d][s].nonce)
          /\ rows[d][intents[d][s].nonce].status = "SIGNED"
          /\ rows[d][intents[d][s].nonce].seq = s
      BY <3>1 DEF HubInv, IntentsBound
    <3>3. intents[d][s].nonce \in Nonces
      <4>1. intents[d] \in Seq(Intents)
        BY DEF HubInv, TypeOK
      <4>2. intents[d][s] \in Intents
        BY <3>1, <4>1
      <4> QED BY <4>2 DEF Intents
    <3>4. rows'[d][intents[d][s].nonce] = rows[d][intents[d][s].nonce]
      BY <1>1, <1>2, <3>2, <3>3
    <3> QED BY <3>1, <3>2, <3>4 DEF Taken
  <2> QED BY <2>1, <2>2
<1> QED BY <1>5, <1>8, <1>9, <1>10 DEF Tables

LEMMA InvPrepare ==
    ASSUME HubInv, TypeOK', GatesHeld', NEW p \in Conns, Prepare(p)
    PROVE  HubInv'
<1> DEFINE c == conn[p].coin
           n == conn[p].nonce
           local == [Idle EXCEPT !.pc = "load", !.coin = c, !.nonce = n]
<1>1. PICK row, intent : Inserted(p, row, intent)
  BY PrepareInserts
<1>2. /\ UNCHANGED <<latest, states, entries>>
      /\ UNCHANGED sigs
      /\ n = conn[p].request.nonce
      /\ Become(p, local)
  BY <1>1 DEF Prepare, Inserted
<1>3. StoreGrows
  BY <1>1, InsertGrows
<1>4. Tables'
  BY <1>1, <1>2, InsertTables
<1>5. LocalBound(conn[p])'
  <2>1. conn'[p] = local
    BY <1>2, BecomeIs DEF HubInv
  <2>2. /\ conn'[p].pc = "load"
        /\ conn'[p].coin = c
        /\ conn'[p].nonce = n
        /\ conn'[p].todo = {}
    BY <2>1, IdleFields DEF Locals
  <2>3. rows'[c][n].stage # "NONE"
    BY <1>1 DEF Inserted, HubInv, TypeOK
  <2> QED BY <2>2, <2>3 DEF LocalBound, Signing, Taken
<1>6. LocalsBound'
  BY <1>2, <1>3, <1>5, LocalsKept DEF HubInv
<1>7. StateSigsBound' /\ ResultSigsBound'
  BY <1>2, <1>3, StateSigsKept, ResultSigsKept DEF HubInv, sigs
<1> QED BY <1>4, <1>6, <1>7 DEF HubInv, Tables

-----------------------------------------------------------------------------
(* Transaction 2                                                           *)

\* The row of a reservation that transaction 2 signs.
LEMMA RowBoundAt ==
    ASSUME RowsBound, NEW c \in Coins, NEW n \in Nonces, Taken(c, n),
           rows[c][n].status = "SIGNED"
    PROVE  /\ rows[c][n].request.auth
           /\ rows[c][n].seq \in DOMAIN intents[c]
           /\ intents[c][rows[c][n].seq].nonce = n
           /\ intents[c][rows[c][n].seq].stage = rows[c][n].stage
           /\ intents[c][rows[c][n].seq].hash = rows[c][n].hash
           /\ intents[c][rows[c][n].seq].hash =
                Append(intents[c][rows[c][n].seq].prev, rows[c][n].request)
BY DEF RowsBound

LEMMA SignedRow ==
    ASSUME HubInv, NEW p \in Conns, conn[p].pc = "commit", StillPrepared(p),
           SignRow(conn[p].coin, conn[p].nonce)
    PROVE  LET c == conn[p].coin
               n == conn[p].nonce
           IN /\ c \in Coins /\ n \in Nonces
              /\ conn[p].row \in Rows
              /\ rows[c][n] = conn[p].row
              /\ rows[c][n].stage = "PREPARED"
              /\ rows'[c][n] = [rows[c][n] EXCEPT !.stage = "SIGNED"]
              /\ \A d \in Coins, m \in Nonces :
                   <<d, m>> # <<c, n>> => rows'[d][m] = rows[d][m]
<1> DEFINE c == conn[p].coin
           n == conn[p].nonce
<1>1. c \in Coins /\ n \in Nonces /\ conn[p].row \in Rows
  BY DEF HubInv, TypeOK, Locals
<1>2. rows[c][n] = conn[p].row
  <2>1. LocalBound(conn[p])
    BY DEF HubInv, LocalsBound
  <2>2. rows[c][n].stage = "PREPARED"
    BY DEF StillPrepared
  <2> QED BY <2>1, <2>2, <1>1 DEF LocalBound, Signing, Rows
<1>3. /\ rows'[c][n] = [rows[c][n] EXCEPT !.stage = "SIGNED"]
      /\ \A d \in Coins, m \in Nonces :
           <<d, m>> # <<c, n>> => rows'[d][m] = rows[d][m]
  BY <1>1 DEF SignRow, HubInv, TypeOK
<1> QED BY <1>1, <1>2, <1>3 DEF StillPrepared

LEMMA InvCommitRefusal ==
    ASSUME HubInv, TypeOK', GatesHeld', NEW p \in Conns, CommitRefusal(p)
    PROVE  HubInv'
<1> DEFINE c == conn[p].coin
           n == conn[p].nonce
<1>1. /\ UNCHANGED <<latest, intents, states, entries>>
      /\ UNCHANGED sigs
      /\ Become(p, Rest(p))
      /\ conn[p].row.status # "SIGNED"
  BY DEF CommitRefusal
<1>2. /\ c \in Coins /\ n \in Nonces
      /\ conn[p].row \in Rows
      /\ rows[c][n] = conn[p].row
      /\ rows[c][n].stage = "PREPARED"
      /\ rows'[c][n] = [rows[c][n] EXCEPT !.stage = "SIGNED"]
      /\ \A d \in Coins, m \in Nonces :
           <<d, m>> # <<c, n>> => rows'[d][m] = rows[d][m]
  BY SignedRow DEF CommitRefusal
<1>3. ASSUME NEW d \in Coins, NEW m \in Nonces
      PROVE  /\ Taken(d, m)' <=> Taken(d, m)
             /\ rows'[d][m].request = rows[d][m].request
             /\ rows'[d][m].status = rows[d][m].status
             /\ rows'[d][m].seq = rows[d][m].seq
             /\ rows'[d][m].hash = rows[d][m].hash
             /\ rows[d][m].status = "SIGNED" => rows'[d][m] = rows[d][m]
  <2>1. CASE <<d, m>> = <<c, n>>
    <3>1. d = c /\ m = n
      BY <2>1
    <3>2. rows'[c][n].stage = "SIGNED"
      BY <1>2 DEF Rows
    <3> QED BY <3>1, <3>2, <1>1, <1>2 DEF Taken, Rows
  <2>2. CASE <<d, m>> # <<c, n>>
    BY <2>2, <1>2 DEF Taken
  <2> QED BY <2>1, <2>2
<1>4. StoreGrows
  <2>1. ASSUME NEW d \in Coins, NEW m \in Nonces
        PROVE  \/ rows'[d][m] = rows[d][m]
               \/ rows'[d][m] = [rows[d][m] EXCEPT !.stage = "SIGNED"]
    BY <1>2
  <2> QED BY <2>1, <1>1 DEF StoreGrows
<1>5. LedgerRecoverable' /\ LedgersValid' /\ IntentsFollow'
  BY <1>1 DEF HubInv, LedgerRecoverable, LedgersValid, IntentsFollow
<1>6. RowsBound'
  <2> SUFFICES ASSUME NEW d \in Coins, NEW m \in Nonces, Taken(d, m)'
               PROVE  /\ rows'[d][m].request.nonce = m
                      /\ rows'[d][m].status = "SIGNED" =>
                           LET seq == rows'[d][m].seq
                           IN /\ rows'[d][m].request.auth
                              /\ seq \in DOMAIN intents'[d]
                              /\ intents'[d][seq].nonce = m
                              /\ intents'[d][seq].stage = rows'[d][m].stage
                              /\ intents'[d][seq].hash = rows'[d][m].hash
                              /\ intents'[d][seq].hash =
                                   Append(intents'[d][seq].prev,
                                          rows'[d][m].request)
    BY DEF RowsBound
  <2>1. Taken(d, m)
    BY <1>3
  <2>2. rows'[d][m].request.nonce = m
    BY <2>1, <1>3 DEF HubInv, RowsBound
  <2>3. ASSUME rows'[d][m].status = "SIGNED"
        PROVE  rows'[d][m] = rows[d][m] /\ intents'[d] = intents[d]
    BY <2>3, <1>1, <1>3
  <2>4. ASSUME rows[d][m].status = "SIGNED"
        PROVE  LET seq == rows[d][m].seq
               IN /\ rows[d][m].request.auth
                  /\ seq \in DOMAIN intents[d]
                  /\ intents[d][seq].nonce = m
                  /\ intents[d][seq].stage = rows[d][m].stage
                  /\ intents[d][seq].hash = rows[d][m].hash
                  /\ intents[d][seq].hash =
                       Append(intents[d][seq].prev, rows[d][m].request)
    BY <2>1, <2>4, RowBoundAt DEF HubInv
  <2> QED BY <2>2, <2>3, <2>4
<1>7. IntentsBound'
  <2>1. ASSUME NEW d \in Coins, NEW s \in DOMAIN intents[d]
        PROVE  intents[d][s].nonce \in Nonces
    <3>1. intents[d] \in Seq(Intents)
      BY DEF HubInv, TypeOK
    <3>2. intents[d][s] \in Intents
      BY <3>1
    <3> QED BY <3>2 DEF Intents
  <2> QED BY <2>1, <1>1, <1>3 DEF HubInv, IntentsBound
<1>8. LocalsBound'
  BY <1>1, <1>4, RestLocal, LocalsKept DEF HubInv
<1>9. StateSigsBound' /\ ResultSigsBound'
  BY <1>1, <1>4, StateSigsKept, ResultSigsKept DEF HubInv, sigs
<1> QED BY <1>5, <1>6, <1>7, <1>8, <1>9 DEF HubInv

\* What transaction 2 finds: the intent it completes succeeds the ledger by
\* exactly the request of the reservation, and the package holds that ledger.
LEMMA CommitFinds ==
    ASSUME HubInv, NEW p \in Conns, CommitState(p)
    PROVE  LET c == conn[p].coin
               n == conn[p].nonce
               seq == conn[p].row.seq
               ledger == Append(entries[c], conn[p].row.request)
           IN /\ c \in Coins /\ n \in Nonces
              /\ seq = latest[c].seq + 1
              /\ seq \in DOMAIN intents[c]
              /\ intents[c][seq].stage = "PREPARED"
              /\ intents[c][seq].nonce = n
              /\ conn[p].row.request \in Requests
              /\ conn[p].row.request.nonce = n
              /\ conn[p].row.request.auth
              /\ LedgerValid(ledger)
              /\ conn[p].ckpt.hash = ledger
              /\ conn[p].package = ledger
<1> DEFINE c == conn[p].coin
           n == conn[p].nonce
           seq == conn[p].row.seq
<1>1. /\ c \in Coins /\ n \in Nonces
      /\ conn[p].row \in Rows
      /\ rows[c][n] = conn[p].row
      /\ rows[c][n].stage = "PREPARED"
  BY SignedRow, ZenonT(60) DEF CommitState
<1>2. /\ conn[p].pc = "commit"
      /\ conn[p].row.status = "SIGNED"
      /\ seq = latest[c].seq + 1
      /\ seq \in DOMAIN intents[c]
      /\ intents[c][seq].stage = "PREPARED"
  BY Zenon DEF CommitState, Succeeds, PreparedIntent
<1>3. /\ conn[p].row.request.nonce = n
      /\ conn[p].row.request.auth
      /\ intents[c][seq].nonce = n
      /\ intents[c][seq].hash = Append(intents[c][seq].prev, conn[p].row.request)
  <2>1. Taken(c, n)
    BY <1>1 DEF Taken
  <2>2. rows[c][n].request.nonce = n
    BY <2>1, <1>1 DEF HubInv, RowsBound
  <2>3. rows[c][n].status = "SIGNED" /\ rows[c][n].seq = seq
    BY <1>1, <1>2
  <2>4. /\ rows[c][n].request.auth
        /\ intents[c][rows[c][n].seq].nonce = n
        /\ intents[c][rows[c][n].seq].hash =
             Append(intents[c][rows[c][n].seq].prev, rows[c][n].request)
    BY <2>1, <2>3, <1>1, RowBoundAt, Zenon DEF HubInv
  <2> QED BY <2>2, <2>4, <1>1, Zenon
<1>4. intents[c][seq].prev = entries[c] /\ LedgerValid(intents[c][seq].hash)
  BY <1>1, <1>2 DEF HubInv, IntentsFollow
<1>5. /\ conn[p].ckpt.hash = intents[c][seq].hash
      /\ conn[p].package = conn[p].ckpt.hash
  <2>1. LocalBound(conn[p])
    BY DEF HubInv, LocalsBound
  <2> QED BY <2>1, <1>2 DEF LocalBound
<1>6. conn[p].row.request \in Requests
  BY <1>1 DEF Rows
<1> QED BY <1>1, <1>2, <1>3, <1>4, <1>5, <1>6, ZenonT(60)

\* The tables after transaction 2 accepted a reservation.
LEMMA CommitWrites ==
    ASSUME HubInv, NEW p \in Conns, CommitState(p)
    PROVE  LET c == conn[p].coin
               n == conn[p].nonce
               seq == conn[p].row.seq
               ledger == Append(entries[c], conn[p].row.request)
           IN /\ rows'[c][n] = [rows[c][n] EXCEPT !.stage = "SIGNED"]
              /\ rows[c][n] = conn[p].row
              /\ rows[c][n].stage = "PREPARED"
              /\ \A d \in Coins, m \in Nonces :
                   <<d, m>> # <<c, n>> => rows'[d][m] = rows[d][m]
              /\ \A d \in Coins \ {c} : /\ latest'[d] = latest[d]
                                        /\ states'[d] = states[d]
                                        /\ entries'[d] = entries[d]
                                        /\ intents'[d] = intents[d]
              /\ latest'[c] = [seq |-> seq, hash |-> ledger]
              /\ states'[c] = Append(states[c],
                                     [hash |-> ledger, package |-> ledger])
              /\ entries'[c] = ledger
              /\ DOMAIN intents'[c] = DOMAIN intents[c]
              /\ Len(intents'[c]) = Len(intents[c])
              /\ \A s \in DOMAIN intents[c] :
                   /\ intents'[c][s].prev = intents[c][s].prev
                   /\ intents'[c][s].hash = intents[c][s].hash
                   /\ intents'[c][s].nonce = intents[c][s].nonce
                   /\ intents'[c][s].stage =
                        IF s = seq THEN "SIGNED" ELSE intents[c][s].stage
<1> DEFINE c == conn[p].coin
           n == conn[p].nonce
           seq == conn[p].row.seq
           ledger == Append(entries[c], conn[p].row.request)
<1>1. /\ c \in Coins
      /\ seq \in DOMAIN intents[c]
      /\ conn[p].ckpt.hash = ledger
      /\ conn[p].package = ledger
  BY CommitFinds
<1>2. /\ rows'[c][n] = [rows[c][n] EXCEPT !.stage = "SIGNED"]
      /\ rows[c][n] = conn[p].row
      /\ rows[c][n].stage = "PREPARED"
      /\ \A d \in Coins, m \in Nonces :
           <<d, m>> # <<c, n>> => rows'[d][m] = rows[d][m]
  BY SignedRow DEF CommitState
<1>3. /\ states' = [states EXCEPT ![c] = Append(@, StateRow(p))]
      /\ entries' = [entries EXCEPT ![c] = Append(@, conn[p].row.request)]
      /\ latest' = [latest EXCEPT ![c] = [seq |-> seq, hash |-> conn[p].ckpt.hash]]
      /\ intents' = [intents EXCEPT ![c] =
                       [intents[c] EXCEPT ![seq].stage = "SIGNED"]]
  BY DEF CommitState
<1>4. StateRow(p) = [hash |-> ledger, package |-> ledger]
  BY <1>1 DEF StateRow
<1>5. \A d \in Coins \ {c} : /\ latest'[d] = latest[d]
                             /\ states'[d] = states[d]
                             /\ entries'[d] = entries[d]
                             /\ intents'[d] = intents[d]
  BY <1>3 DEF HubInv, TypeOK
<1>6. /\ latest'[c] = [seq |-> seq, hash |-> ledger]
      /\ states'[c] = Append(states[c], [hash |-> ledger, package |-> ledger])
      /\ entries'[c] = ledger
      /\ intents'[c] = [intents[c] EXCEPT ![seq].stage = "SIGNED"]
  BY <1>1, <1>3, <1>4, ZenonT(60) DEF HubInv, TypeOK
<1>7. /\ intents[c] \in Seq(Intents)
      /\ intents'[c] \in Seq(Intents)
  <2>1. intents[c] \in Seq(Intents)
    BY <1>1 DEF HubInv, TypeOK
  <2> QED BY <2>1, <1>1, <1>6, SignedIntentsType, ZenonT(60)
<1>8. DOMAIN intents'[c] = DOMAIN intents[c]
  BY <1>6
<1>9. Len(intents'[c]) = Len(intents[c])
  <2>1. /\ DOMAIN intents[c] = 1..Len(intents[c])
        /\ DOMAIN intents'[c] = 1..Len(intents'[c])
        /\ Len(intents[c]) \in Nat /\ Len(intents'[c]) \in Nat
    BY <1>7, LenProperties
  <2> QED BY <2>1, <1>8
<1>10. ASSUME NEW s \in DOMAIN intents[c]
       PROVE  /\ intents'[c][s].prev = intents[c][s].prev
              /\ intents'[c][s].hash = intents[c][s].hash
              /\ intents'[c][s].nonce = intents[c][s].nonce
              /\ intents'[c][s].stage =
                   IF s = seq THEN "SIGNED" ELSE intents[c][s].stage
  <2>1. intents[c][s] \in Intents
    BY <1>7
  <2>2. CASE s = seq
    <3>1. intents'[c][s] = [intents[c][s] EXCEPT !.stage = "SIGNED"]
      BY <2>2, <1>6, <1>1, ZenonT(60)
    <3> QED BY <3>1, <2>1, <2>2 DEF Intents
  <2>3. CASE s # seq
    BY <2>3, <1>6
  <2> QED BY <2>2, <2>3
<1> QED BY <1>2, <1>5, <1>6, <1>8, <1>9, <1>10, Zenon

LEMMA CommitGrows ==
    ASSUME HubInv, NEW p \in Conns, CommitState(p)
    PROVE  StoreGrows
<1> DEFINE c == conn[p].coin
           n == conn[p].nonce
<1>1. /\ rows'[c][n] = [rows[c][n] EXCEPT !.stage = "SIGNED"]
      /\ \A d \in Coins, m \in Nonces :
           <<d, m>> # <<c, n>> => rows'[d][m] = rows[d][m]
      /\ \A d \in Coins \ {c} : intents'[d] = intents[d]
      /\ DOMAIN intents'[c] = DOMAIN intents[c]
      /\ \A s \in DOMAIN intents[c] :
           /\ intents'[c][s].prev = intents[c][s].prev
           /\ intents'[c][s].hash = intents[c][s].hash
           /\ intents'[c][s].nonce = intents[c][s].nonce
  BY CommitWrites, ZenonT(60)
<1>2. ASSUME NEW d \in Coins, NEW m \in Nonces
      PROVE  \/ rows'[d][m] = rows[d][m]
             \/ rows'[d][m] = [rows[d][m] EXCEPT !.stage = "SIGNED"]
  BY <1>1
<1>3. ASSUME NEW d \in Coins, NEW s \in DOMAIN intents[d]
      PROVE  /\ s \in DOMAIN intents'[d]
             /\ intents'[d][s].prev = intents[d][s].prev
             /\ intents'[d][s].hash = intents[d][s].hash
             /\ intents'[d][s].nonce = intents[d][s].nonce
  BY <1>1
<1> QED BY <1>2, <1>3 DEF StoreGrows

LEMMA CommitLedger ==
    ASSUME HubInv, NEW p \in Conns, CommitState(p)
    PROVE  LedgerRecoverable' /\ LedgersValid'
<1> DEFINE c == conn[p].coin
           seq == conn[p].row.seq
           request == conn[p].row.request
           ledger == Append(entries[c], request)
<1>1. /\ c \in Coins
      /\ seq = latest[c].seq + 1
      /\ request \in Requests
      /\ request.auth
      /\ LedgerValid(ledger)
  BY CommitFinds
<1>2. /\ latest'[c] = [seq |-> seq, hash |-> ledger]
      /\ states'[c] = Append(states[c], [hash |-> ledger, package |-> ledger])
      /\ entries'[c] = ledger
      /\ \A d \in Coins \ {c} : /\ latest'[d] = latest[d]
                                /\ states'[d] = states[d]
                                /\ entries'[d] = entries[d]
  BY CommitWrites, ZenonT(60)
<1>3. /\ ledger \in Seq(Requests)
      /\ Len(ledger) = Len(entries[c]) + 1
      /\ \A i \in 1..Len(entries[c]) : ledger[i] = entries[c][i]
      /\ ledger[Len(entries[c]) + 1] = request
      /\ Len(entries[c]) \in Nat
      /\ entries[c] \in Seq(Requests)
      /\ DOMAIN entries[c] = 1..Len(entries[c])
      /\ DOMAIN ledger = 1..(Len(entries[c]) + 1)
  <2>1. entries[c] \in Seq(Requests)
    BY <1>1 DEF HubInv, TypeOK, Ledgers
  <2> QED BY <2>1, <1>1, AppendProperties, LenProperties
<1>4. /\ latest[c].seq = Len(states[c])
      /\ Len(entries[c]) = Len(states[c])
      /\ \A s \in DOMAIN states[c] :
           /\ states[c][s].hash = SubSeq(entries[c], 1, s)
           /\ states[c][s].package = states[c][s].hash
  BY <1>1 DEF HubInv, LedgerRecoverable
<1> DEFINE state == [hash |-> ledger, package |-> ledger]
<1>5. /\ Len(states'[c]) = Len(entries[c]) + 1
      /\ DOMAIN states'[c] = 1..(Len(entries[c]) + 1)
      /\ DOMAIN states[c] = 1..Len(entries[c])
      /\ \A i \in 1..Len(entries[c]) : states'[c][i] = states[c][i]
      /\ states'[c][Len(entries[c]) + 1] = state
  <2>1. states[c] \in Seq(States)
    BY <1>1 DEF HubInv, TypeOK
  <2>2. state \in States
    BY <1>3 DEF States, Ledgers
  <2>3. states'[c] = Append(states[c], state)
    BY <1>2
  <2> HIDE DEF state
  <2> QED BY <2>1, <2>2, <2>3, <1>4, AppendProperties, LenProperties
<1> HIDE DEF ledger
<1>9. ASSUME NEW s \in DOMAIN states'[c]
      PROVE  /\ states'[c][s].hash = SubSeq(ledger, 1, s)
             /\ states'[c][s].package = states'[c][s].hash
  <2>1. s \in 1..Len(entries[c]) \/ s = Len(entries[c]) + 1
    BY <1>3, <1>5
  <2>2. CASE s \in 1..Len(entries[c])
    <3>1. states'[c][s] = states[c][s] /\ s \in DOMAIN states[c]
      BY <2>2, <1>5
    <3>2. SubSeq(ledger, 1, s) = SubSeq(entries[c], 1, s)
      BY <2>2, <1>3
    <3> QED BY <3>1, <3>2, <1>4
  <2>3. CASE s = Len(entries[c]) + 1
    <3>1. states'[c][s] = state
      BY <2>3, <1>5
    <3>2. SubSeq(ledger, 1, s) = ledger
      BY <2>3, <1>3, SubSeqFull
    <3> QED BY <3>1, <3>2
  <2> QED BY <2>1, <2>2, <2>3
<1>6. LedgerRecoverable'
  <2> SUFFICES ASSUME NEW d \in Coins
               PROVE  /\ latest'[d].seq = Len(states'[d])
                      /\ latest'[d].hash = entries'[d]
                      /\ Len(entries'[d]) = Len(states'[d])
                      /\ \A s \in DOMAIN states'[d] :
                           /\ states'[d][s].hash = SubSeq(entries'[d], 1, s)
                           /\ states'[d][s].package = states'[d][s].hash
    BY DEF LedgerRecoverable
  <2>1. CASE d = c
    <3>1. latest'[c].seq = Len(states'[c]) /\ latest'[c].hash = ledger
      BY <1>1, <1>2, <1>4, <1>5
    <3>2. Len(ledger) = Len(states'[c])
      BY <1>3, <1>5
    <3> QED BY <2>1, <3>1, <3>2, <1>2, <1>9
  <2>2. CASE d # c
    <3>1. /\ latest'[d] = latest[d]
          /\ states'[d] = states[d]
          /\ entries'[d] = entries[d]
      BY <2>2, <1>2
    <3> QED BY <3>1 DEF HubInv, LedgerRecoverable
  <2> QED BY <2>1, <2>2
<1>7. LedgersValid'
  <2> SUFFICES ASSUME NEW d \in Coins
               PROVE  /\ entries'[d] # <<>> => LedgerValid(entries'[d])
                      /\ \A i \in DOMAIN entries'[d] : entries'[d][i].auth
    BY DEF LedgersValid
  <2>1. CASE d = c
    <3>1. \A i \in DOMAIN entries[c] : entries[c][i].auth
      BY <1>1 DEF HubInv, LedgersValid
    <3>2. ASSUME NEW i \in DOMAIN ledger
          PROVE  ledger[i].auth
      <4>1. i \in 1..Len(entries[c]) \/ i = Len(entries[c]) + 1
        BY <1>3
      <4> QED BY <4>1, <3>1, <1>1, <1>3
    <3> QED BY <2>1, <3>2, <1>1, <1>2
  <2>2. CASE d # c
    BY <2>2, <1>2 DEF HubInv, LedgersValid
  <2> QED BY <2>1, <2>2
<1> QED BY <1>6, <1>7

LEMMA CommitIntents ==
    ASSUME HubInv, NEW p \in Conns, CommitState(p)
    PROVE  IntentsFollow' /\ IntentsBound' /\ RowsBound'
<1> DEFINE c == conn[p].coin
           n == conn[p].nonce
           seq == conn[p].row.seq
           ledger == Append(entries[c], conn[p].row.request)
<1>1. /\ c \in Coins /\ n \in Nonces
      /\ seq = latest[c].seq + 1
      /\ seq \in DOMAIN intents[c]
      /\ intents[c][seq].nonce = n
  BY CommitFinds
<1>2. /\ rows'[c][n] = [rows[c][n] EXCEPT !.stage = "SIGNED"]
      /\ rows[c][n] = conn[p].row
      /\ rows[c][n].stage = "PREPARED"
      /\ \A d \in Coins, m \in Nonces :
           <<d, m>> # <<c, n>> => rows'[d][m] = rows[d][m]
  BY CommitWrites, ZenonT(60)
<1>3. /\ \A d \in Coins \ {c} : /\ latest'[d] = latest[d]
                                /\ entries'[d] = entries[d]
                                /\ intents'[d] = intents[d]
      /\ latest'[c].seq = seq
      /\ DOMAIN intents'[c] = DOMAIN intents[c]
      /\ Len(intents'[c]) = Len(intents[c])
      /\ \A s \in DOMAIN intents[c] :
           /\ intents'[c][s].prev = intents[c][s].prev
           /\ intents'[c][s].hash = intents[c][s].hash
           /\ intents'[c][s].nonce = intents[c][s].nonce
           /\ intents'[c][s].stage =
                IF s = seq THEN "SIGNED" ELSE intents[c][s].stage
  <2>1. latest'[c] = [seq |-> seq, hash |-> ledger]
    BY CommitWrites
  <2>2. latest'[c].seq = seq
    BY <2>1
  <2> QED BY <2>2, CommitWrites, ZenonT(60)
<1>4. /\ rows[c][n] \in Rows
      /\ \A d \in Coins : /\ intents[d] \in Seq(Intents)
                          /\ DOMAIN intents[d] = 1..Len(intents[d])
                          /\ Len(intents[d]) \in Nat
                          /\ latest[d].seq \in Nat
  BY <1>1, LenProperties DEF HubInv, TypeOK, Pointers
<1> HIDE DEF c, n, seq
<1>5. ASSUME NEW d \in Coins, NEW m \in Nonces
      PROVE  /\ Taken(d, m)' <=> Taken(d, m)
             /\ rows'[d][m].request = rows[d][m].request
             /\ rows'[d][m].status = rows[d][m].status
             /\ rows'[d][m].seq = rows[d][m].seq
             /\ rows'[d][m].hash = rows[d][m].hash
             /\ d = c /\ m = n => rows'[d][m].stage = "SIGNED"
             /\ ~(d = c /\ m = n) => rows'[d][m].stage = rows[d][m].stage
  <2>1. CASE d = c /\ m = n
    BY <2>1, <1>2, <1>4 DEF Taken, Rows
  <2>2. CASE ~(d = c /\ m = n)
    BY <2>2, <1>2 DEF Taken
  <2> QED BY <2>1, <2>2
<1>6. IntentsFollow'
  <2> SUFFICES ASSUME NEW d \in Coins
               PROVE  /\ Len(intents'[d]) \in {latest'[d].seq, latest'[d].seq + 1}
                      /\ \A s \in DOMAIN intents'[d] :
                           intents'[d][s].stage = "PREPARED" <=>
                             s = latest'[d].seq + 1
                      /\ \A s \in DOMAIN intents'[d] :
                           intents'[d][s].stage = "PREPARED" =>
                             /\ intents'[d][s].prev = entries'[d]
                             /\ LedgerValid(intents'[d][s].hash)
    BY DEF IntentsFollow
  <2>1. CASE d = c
    <3>1. Len(intents[c]) \in {latest[c].seq, latest[c].seq + 1}
      BY <1>1 DEF HubInv, IntentsFollow
    <3>2. Len(intents'[c]) = seq
      BY <3>1, <1>1, <1>3, <1>4
    <3>3. ASSUME NEW s \in DOMAIN intents'[c]
          PROVE  intents'[c][s].stage # "PREPARED" /\ s # seq + 1
      <4>1. s \in DOMAIN intents[c] /\ s \in 1..seq
        BY <3>2, <1>1, <1>3, <1>4
      <4>2. s # seq => intents[c][s].stage # "PREPARED"
        BY <4>1, <1>1 DEF HubInv, IntentsFollow
      <4>3. seq \in Nat /\ s # seq + 1
        BY <4>1, <1>1, <1>4
      <4> QED BY <4>1, <4>2, <4>3, <1>3
    <3> QED BY <2>1, <3>2, <3>3, <1>3
  <2>2. CASE d # c
    <3>1. /\ latest'[d] = latest[d]
          /\ entries'[d] = entries[d]
          /\ intents'[d] = intents[d]
      BY <2>2, <1>3
    <3> QED BY <3>1 DEF HubInv, IntentsFollow
  <2> QED BY <2>1, <2>2
<1>7. ASSUME NEW d \in Coins, NEW s \in DOMAIN intents'[d]
      PROVE  /\ s \in DOMAIN intents[d]
             /\ intents'[d][s].prev = intents[d][s].prev
             /\ intents'[d][s].hash = intents[d][s].hash
             /\ intents'[d][s].nonce = intents[d][s].nonce
             /\ intents[d][s].nonce \in Nonces
             /\ ~(d = c /\ s = seq) => intents'[d][s].stage = intents[d][s].stage
  <2>1. /\ s \in DOMAIN intents[d]
        /\ intents'[d][s].prev = intents[d][s].prev
        /\ intents'[d][s].hash = intents[d][s].hash
        /\ intents'[d][s].nonce = intents[d][s].nonce
        /\ ~(d = c /\ s = seq) => intents'[d][s].stage = intents[d][s].stage
    BY <1>3
  <2>2. intents[d][s] \in Intents
    BY <2>1, <1>4
  <2> QED BY <2>1, <2>2 DEF Intents
<1>8. IntentsBound'
  <2> SUFFICES ASSUME NEW d \in Coins, NEW s \in DOMAIN intents'[d]
               PROVE  /\ rows'[d][intents'[d][s].nonce].stage # "NONE"
                      /\ rows'[d][intents'[d][s].nonce].status = "SIGNED"
                      /\ rows'[d][intents'[d][s].nonce].seq = s
    BY DEF IntentsBound, Taken
  <2> DEFINE m == intents[d][s].nonce
  <2>1. /\ s \in DOMAIN intents[d]
        /\ intents'[d][s].nonce = m
        /\ m \in Nonces
    BY <1>7
  <2>2. Taken(d, m) /\ rows[d][m].status = "SIGNED" /\ rows[d][m].seq = s
    BY <2>1 DEF HubInv, IntentsBound
  <2> HIDE DEF m
  <2>3. /\ rows'[d][m].stage # "NONE"
        /\ rows'[d][m].status = "SIGNED"
        /\ rows'[d][m].seq = s
    BY <2>1, <2>2, <1>5 DEF Taken
  <2> QED BY <2>1, <2>3
<1>9. RowsBound'
  <2> SUFFICES ASSUME NEW d \in Coins, NEW m \in Nonces,
                      rows'[d][m].stage # "NONE"
               PROVE  /\ rows'[d][m].request.nonce = m
                      /\ rows'[d][m].status = "SIGNED" =>
                           LET i == rows'[d][m].seq
                           IN /\ rows'[d][m].request.auth
                              /\ i \in DOMAIN intents'[d]
                              /\ intents'[d][i].nonce = m
                              /\ intents'[d][i].stage = rows'[d][m].stage
                              /\ intents'[d][i].hash = rows'[d][m].hash
                              /\ intents'[d][i].hash =
                                   Append(intents'[d][i].prev,
                                          rows'[d][m].request)
    BY DEF RowsBound, Taken
  <2> DEFINE i == rows[d][m].seq
  <2>1. Taken(d, m)
    BY <1>5 DEF Taken
  <2>2. rows'[d][m].request.nonce = m
    BY <2>1, <1>5 DEF HubInv, RowsBound
  <2>3. ASSUME rows[d][m].status = "SIGNED"
        PROVE  /\ rows[d][m].request.auth
               /\ i \in DOMAIN intents[d]
               /\ intents[d][i].nonce = m
               /\ intents[d][i].stage = rows[d][m].stage
               /\ intents[d][i].hash = rows[d][m].hash
               /\ intents[d][i].hash = Append(intents[d][i].prev,
                                              rows[d][m].request)
    BY <2>1, <2>3, RowBoundAt DEF HubInv
  <2>4. ASSUME rows[d][m].status = "SIGNED"
        PROVE  /\ i \in DOMAIN intents'[d]
               /\ intents'[d][i].prev = intents[d][i].prev
               /\ intents'[d][i].hash = intents[d][i].hash
               /\ intents'[d][i].nonce = intents[d][i].nonce
               /\ intents'[d][i].stage = rows'[d][m].stage
    <3>1. i \in DOMAIN intents'[d]
      BY <2>3, <2>4, <1>3, Zenon
    <3>2. CASE d = c /\ m = n
      <4>1. i = seq
        BY <3>2, <1>2 DEF seq
      <4> QED BY <3>1, <3>2, <4>1, <1>3, <1>5, <1>7
    <3>3. CASE ~(d = c /\ m = n)
      <4>1. ~(d = c /\ i = seq)
        BY <3>3, <2>3, <2>4, <1>1, Zenon
      <4> QED BY <3>1, <3>3, <4>1, <2>3, <2>4, <1>5, <1>7, ZenonT(60)
    <3> QED BY <3>2, <3>3
  <2> HIDE DEF i
  <2>5. rows'[d][m].seq = i
    BY <1>5 DEF i
  <2> QED BY <2>2, <2>3, <2>4, <2>5, <1>5, Zenon
<1> QED BY <1>6, <1>8, <1>9

LEMMA InvCommitState ==
    ASSUME HubInv, TypeOK', GatesHeld', NEW p \in Conns, CommitState(p)
    PROVE  HubInv'
<1>1. StoreGrows
  BY CommitGrows
<1>2. UNCHANGED sigs /\ Become(p, Rest(p))
  BY DEF CommitState
<1>3. LocalsBound'
  BY <1>1, <1>2, RestLocal, LocalsKept DEF HubInv
<1>4. StateSigsBound' /\ ResultSigsBound'
  BY <1>1, <1>2, StateSigsKept, ResultSigsKept DEF HubInv, sigs
<1>5. /\ LedgerRecoverable' /\ LedgersValid'
      /\ IntentsFollow' /\ IntentsBound' /\ RowsBound'
  BY CommitLedger, CommitIntents
<1> QED BY <1>3, <1>4, <1>5 DEF HubInv

-----------------------------------------------------------------------------
(* The write lock                                                          *)

\* The steps that change neither the tables nor what is signed, after which
\* the process that moved is not signing.
Quiet(p) ==
    /\ UNCHANGED tables /\ UNCHANGED sigs
    /\ \E local :
         /\ Become(p, local)
         /\ local.pc \notin Signing
         /\ local.pc = "register" => \E c \in Coins : StartRegister(p, c)
         /\ local.pc = "gate" => Evaluate(p)

LEMMA QuietSteps ==
    ASSUME TypeOK, NEW p \in Conns,
           \/ Register(p) \/ Retry(p) \/ Evaluate(p) \/ CommitLate(p)
           \/ FinalizeFails(p) \/ Busy(p)
           \/ RecoverNext(p) \/ Begin(p) \/ Crash(p) \/ Restart(p)
           \/ ReserveFails(p)
    PROVE  Quiet(p)
<1> USE DEF store, tables, sigs, Quiet
<1> DEFINE Working == Signing \cup {"register", "gate"}
<1>1. Idle.pc \notin Working
  BY DEF Idle, Signing
<1>2. CASE Register(p)
  BY <1>1, <1>2 DEF Register
<1>3. CASE Retry(p)
  <2> DEFINE load == [Idle EXCEPT !.pc = "load", !.coin = conn[p].coin,
                                  !.nonce = conn[p].nonce]
  <2>1. load.pc \notin Working
    BY IdleFields DEF Locals, Signing
  <2> HIDE DEF load
  <2>2. Become(p, Idle) \/ Become(p, load)
    BY <1>3 DEF Retry, load
  <2> QED BY <1>1, <1>3, <2>1, <2>2 DEF Retry
<1>4. CASE CommitLate(p)
  <2>1. Rest(p).pc \notin Working
    BY DEF Rest, Idle, Signing
  <2> QED BY <1>4, <2>1 DEF CommitLate
<1>5. CASE FinalizeFails(p) \/ Busy(p) \/ Restart(p) \/ ReserveFails(p)
  BY <1>1, <1>5 DEF FinalizeFails, Busy, Restart, GiveUp, ReserveFails
<1>6. CASE Crash(p)
  <2>1. [Idle EXCEPT !.pc = "down"].pc \notin Working
    BY IdleFields DEF Locals, Signing
  <2> QED BY <1>6, <2>1 DEF Crash
<1>7. CASE RecoverNext(p)
  <2>1. PICK job \in conn[p].todo :
          Become(p, [ Idle EXCEPT !.pc = "load", !.coin = job[1],
                                  !.nonce = job[2],
                                  !.todo = conn[p].todo \ {job} ])
    BY <1>7 DEF RecoverNext
  <2>2. [ Idle EXCEPT !.pc = "load", !.coin = job[1], !.nonce = job[2],
                      !.todo = conn[p].todo \ {job} ].pc \notin Working
    BY IdleFields DEF Locals, Signing
  <2> QED BY <1>7, <2>1, <2>2 DEF RecoverNext
<1>8. CASE StartRecovery(p)
  <2>1. PICK todo :
          Become(p, [Idle EXCEPT !.pc = "recover", !.todo = todo])
    BY <1>8 DEF StartRecovery
  <2>2. [Idle EXCEPT !.pc = "recover", !.todo = todo].pc \notin Working
    BY IdleFields DEF Locals, Signing
  <2> QED BY <1>8, <2>1, <2>2 DEF StartRecovery
<1>9. CASE \E c \in Coins : StartRegister(p, c)
  <2>1. PICK c \in Coins : StartRegister(p, c)
    BY <1>9
  <2>2. PICK snap \in SnapshotsNow(c) :
          Become(p, [Idle EXCEPT !.pc = "register", !.coin = c, !.snap = snap])
    BY <2>1 DEF StartRegister
  <2>3. [Idle EXCEPT !.pc = "register", !.coin = c, !.snap = snap].pc
          \notin Signing \cup {"gate"}
    BY IdleFields DEF Locals, Signing
  <2> QED BY <2>1, <2>2, <2>3 DEF StartRegister
<1>10. CASE \E c \in Coins, request \in Requests, id \in RequestIds :
              StartReserve(p, c, request, id)
  <2>1. PICK c \in Coins, request \in Requests, id \in RequestIds :
              StartReserve(p, c, request, id)
    BY <1>10
  <2>2. PICK snap \in SnapshotsNow(c) :
          Become(p, [ Idle EXCEPT !.pc = "reserve", !.coin = c,
                                  !.request = request, !.id = id,
                                  !.snap = snap, !.nonce = request.nonce ])
    BY <2>1 DEF StartReserve
  <2>3. [ Idle EXCEPT !.pc = "reserve", !.coin = c, !.request = request,
                      !.id = id, !.snap = snap, !.nonce = request.nonce ].pc
          \notin Working
    BY IdleFields DEF Locals, Signing
  <2> QED BY <2>1, <2>2, <2>3 DEF StartReserve
<1>11. CASE Evaluate(p)
  <2>1. PICK again \in SnapshotsNow(conn[p].coin) :
          Become(p, [conn[p] EXCEPT !.pc = "gate", !.again = again])
    BY <1>11 DEF Evaluate
  <2>2. conn[p] \in Locals
    BY DEF TypeOK
  <2>3. [conn[p] EXCEPT !.pc = "gate", !.again = again].pc = "gate"
    BY <2>2 DEF Locals
  <2> QED BY <1>11, <2>1, <2>3 DEF Evaluate, Signing
<1> QED
  BY <1>2, <1>3, <1>4, <1>5, <1>6, <1>7, <1>8, <1>9, <1>10, <1>11 DEF Begin

\* Only StartRegister makes a process begin a registration, and only Evaluate
\* makes it hold the write lock.
LEMMA WorkBegins ==
    ASSUME TypeOK, [Next]_vars, NEW q \in Conns,
           conn'[q].pc \in {"register", "gate"}, conn'[q] # conn[q]
    PROVE  IF conn'[q].pc = "gate"
           THEN Evaluate(q) ELSE \E c \in Coins : StartRegister(q, c)
<1> DEFINE Work == {"register", "gate"}
           Begins == IF conn'[q].pc = "gate"
                     THEN Evaluate(q) ELSE \E c \in Coins : StartRegister(q, c)
<1>1. ASSUME NEW p \in Conns, NEW local, Become(p, local), local.pc \notin Work
      PROVE  FALSE
  <2>1. conn'[p] = local /\ \A r \in Conns \ {p} : conn'[r] = conn[r]
    BY <1>1, BecomeIs DEF Become, TypeOK
  <2> QED BY <1>1, <2>1
<1>2. ASSUME NEW p \in Conns, Quiet(p)
      PROVE  Begins
  <2>1. PICK local :
          /\ Become(p, local)
          /\ local.pc = "register" => \E c \in Coins : StartRegister(p, c)
          /\ local.pc = "gate" => Evaluate(p)
    BY <1>2 DEF Quiet
  <2>2. q = p
    BY <2>1 DEF Become, TypeOK
  <2>3. conn'[q] = local
    BY <2>1, <2>2, BecomeIs
  <2> QED BY <2>1, <2>2, <2>3
<1>3. ASSUME NEW p \in Conns,
             \/ Prepare(p) \/ LoadPrepared(p) \/ SignState(p)
             \/ BuildPackage(p) \/ CommitRefusal(p) \/ CommitState(p)
      PROVE  FALSE
  <2>1. Rest(p).pc \notin Work
    BY DEF Rest, Idle
  <2>2. conn[p] \in Locals
    BY DEF TypeOK
  <2>3. CASE Prepare(p)
    <3>1. [Idle EXCEPT !.pc = "load", !.coin = conn[p].coin,
                       !.nonce = conn[p].request.nonce].pc \notin Work
      BY IdleFields DEF Locals
    <3> QED BY <1>1, <2>3, <3>1 DEF Prepare
  <2>4. CASE LoadPrepared(p)
    <3> DEFINE row == rows[conn[p].coin][conn[p].nonce]
               local == [ conn[p] EXCEPT !.row = row,
                            !.pc = IF row.status = "SIGNED" THEN "state"
                                                            ELSE "commit" ]
    <3>1. local.pc \notin Work
      BY <2>2 DEF Locals
    <3> HIDE DEF local
    <3>2. Become(p, Rest(p)) \/ Become(p, local)
      BY <2>4 DEF LoadPrepared, local
    <3> QED BY <1>1, <2>1, <3>1, <3>2
  <2>5. CASE SignState(p)
    <3>1. \A ckpt : [conn[p] EXCEPT !.pc = "package", !.ckpt = ckpt].pc
                      \notin Work
      BY <2>2 DEF Locals
    <3> QED BY <1>1, <2>5, <3>1 DEF SignState
  <2>6. CASE BuildPackage(p)
    <3>1. \A package : [conn[p] EXCEPT !.pc = "commit", !.package = package].pc
                         \notin Work
      BY <2>2 DEF Locals
    <3> QED BY <1>1, <2>6, <3>1 DEF BuildPackage
  <2>7. CASE CommitRefusal(p) \/ CommitState(p)
    BY <1>1, <2>1, <2>7 DEF CommitRefusal, CommitState
  <2> QED BY <1>3, <2>3, <2>4, <2>5, <2>6, <2>7
<1> HIDE DEF Begins
<1>4. ASSUME \E p \in Conns : Step(p) \/ Begin(p) \/ Crash(p) \/ Restart(p)
      PROVE  Begins
  <2>1. PICK p \in Conns : Step(p) \/ Begin(p) \/ Crash(p) \/ Restart(p)
    BY <1>4
  <2>2. CASE \/ Register(p) \/ Retry(p) \/ Evaluate(p) \/ CommitLate(p)
             \/ FinalizeFails(p) \/ Busy(p)
             \/ RecoverNext(p) \/ Begin(p) \/ Crash(p) \/ Restart(p)
             \/ ReserveFails(p)
    BY <1>2, <2>2, QuietSteps
  <2> QED BY <1>3, <2>1, <2>2 DEF Step
<1>5. ASSUME ChainStep \/ UNCHANGED vars
      PROVE  Begins
  BY <1>5 DEF ChainStep, vars, hubVars
<1>6. Begins
  BY <1>4, <1>5 DEF Next
<1> QED BY <1>6 DEF Begins

\* While the lock is held only its holder writes.
LEMMA WritersWait ==
    ASSUME [Next]_vars, Locked
    PROVE  UNCHANGED store \/ \E p \in Conns : Prepare(p)
<1>1. ASSUME NEW p \in Conns, Step(p) \/ Begin(p) \/ Crash(p) \/ Restart(p)
      PROVE  UNCHANGED store \/ Prepare(p)
  BY <1>1, Zenon
     DEF Step, Register, Retry, Evaluate, ReserveFails, LoadPrepared, SignState,
         BuildPackage, CommitRefusal, CommitState, CommitLate, FinalizeFails,
         Busy, RecoverNext, Begin, StartRegister, StartReserve, StartRecovery,
         Crash, Restart, GiveUp
<1>2. CASE ChainStep \/ UNCHANGED vars
  BY <1>2 DEF ChainStep, vars, hubVars, store
<1> QED BY <1>1, <1>2 DEF Next

\* So what its holder keeps holding it for, it finds as it was.
LEMMA HolderAlone ==
    ASSUME TypeOK, GatesHeld, [Next]_vars, NEW p \in Conns,
           conn[p].pc = "gate", conn'[p] = conn[p]
    PROVE  UNCHANGED store
<1>1. Locked
  BY DEF Locked
<1>2. ASSUME NEW q \in Conns, Prepare(q)
      PROVE  FALSE
  <2>1. q = p
    BY <1>2 DEF Prepare, GatesHeld
  <2>2. conn'[p] = [Idle EXCEPT !.pc = "load", !.coin = conn[p].coin,
                                !.nonce = conn[p].request.nonce]
    BY <1>2, <2>1, BecomeIs DEF Prepare
  <2>3. conn'[p].pc = "load"
    BY <2>2, IdleFields DEF Locals
  <2> QED BY <2>3
<1> QED BY <1>1, <1>2, WritersWait

LEMMA EvaluateIs ==
    ASSUME TypeOK, NEW p \in Conns, Evaluate(p)
    PROVE  /\ conn'[p].pc = "gate"
           /\ conn'[p].coin = conn[p].coin
           /\ conn'[p].nonce = conn[p].nonce
           /\ conn'[p].again \in SnapshotsNow(conn[p].coin)
           /\ UNCHANGED <<store, chainVars>>
<1>1. PICK again \in SnapshotsNow(conn[p].coin) :
        Become(p, [conn[p] EXCEPT !.pc = "gate", !.again = again])
  BY Zenon DEF Evaluate
<1>2. conn'[p] = [conn[p] EXCEPT !.pc = "gate", !.again = again]
  BY <1>1, BecomeIs
<1>3. conn[p] \in Locals
  BY DEF TypeOK
<1>4. /\ conn'[p].pc = "gate" /\ conn'[p].again = again
      /\ conn'[p].coin = conn[p].coin /\ conn'[p].nonce = conn[p].nonce
  BY <1>2, <1>3 DEF Locals
<1> QED BY <1>4 DEF Evaluate

LEMMA GatesNext ==
    ASSUME TypeOK, GatesHeld, [Next]_vars
    PROVE  GatesHeld'
<1>1. ASSUME NEW p \in Conns, conn'[p].pc = "gate"
      PROVE  \/ Evaluate(p)
             \/ conn[p].pc = "gate" /\ conn'[p] = conn[p] /\ UNCHANGED store
  BY <1>1, WorkBegins, HolderAlone
<1>2. ASSUME NEW p \in Conns, NEW q \in Conns, conn'[p].pc = "gate",
             conn'[q].pc = "gate", p # q
      PROVE  FALSE
  <2>1. ASSUME NEW r \in Conns, NEW s \in Conns, r # s, Evaluate(r)
        PROVE  conn'[s] = conn[s] /\ conn[s].pc # "gate"
    BY <2>1 DEF Evaluate, Locked, Become, TypeOK
  <2> QED BY <1>1, <1>2, <2>1 DEF GatesHeld
<1>3. ASSUME NEW p \in Conns, conn'[p].pc = "gate"
      PROVE  Readable(conn[p].coin)' /\ ~Taken(conn[p].coin, conn[p].nonce)'
  <2>1. UNCHANGED store /\ conn'[p].coin = conn[p].coin
        /\ conn'[p].nonce = conn[p].nonce
    BY <1>1, <1>3, EvaluateIs
  <2>2. Readable(conn[p].coin) /\ ~Taken(conn[p].coin, conn[p].nonce)
    BY <1>1, <1>3 DEF Evaluate, Fresh, Taken, GatesHeld
  <2> QED BY <2>1, <2>2
          DEF store, Readable, TermsBound, PointerBound, Taken
<1> QED BY <1>2, <1>3 DEF GatesHeld

-----------------------------------------------------------------------------
(* The invariant                                                           *)

LEMMA InvUnchanged ==
    ASSUME HubInv, TypeOK', GatesHeld', UNCHANGED <<tables, conn, sigs>>
    PROVE  HubInv'
<1>1. StoreGrows
  BY UnchangedGrows
<1>2. Tables'
  BY TablesKept DEF HubInv, Tables
<1>3. LocalsBound'
  <2> SUFFICES ASSUME NEW q \in Conns PROVE LocalBound(conn[q])'
    BY DEF LocalsBound
  <2> QED BY <1>1, LocalKept DEF HubInv, LocalsBound
<1>4. StateSigsBound' /\ ResultSigsBound'
  BY <1>1, StateSigsKept, ResultSigsKept DEF HubInv, sigs
<1> QED BY <1>2, <1>3, <1>4 DEF HubInv, Tables

LEMMA InvInit == Init => HubInv
<1> SUFFICES ASSUME Init PROVE HubInv
  OBVIOUS
<1>1. TypeOK
  BY TypeInit
<1>2. \A c \in Coins :
        /\ latest[c].seq = 0 /\ latest[c].hash = <<>>
        /\ states[c] = <<>> /\ entries[c] = <<>> /\ intents[c] = <<>>
        /\ \A n \in Nonces : rows[c][n].stage = "NONE"
  BY DEF Init, NoRow
<1>3. LedgerRecoverable /\ LedgersValid
  BY <1>2 DEF LedgerRecoverable, LedgersValid
<1>4. IntentsFollow /\ IntentsBound
  BY <1>2 DEF IntentsFollow, IntentsBound
<1>5. RowsBound
  BY <1>2 DEF RowsBound, Taken
<1>6. LocalsBound
  BY DEF Init, LocalsBound, LocalBound, Idle, Signing
<1>7. GatesHeld
  BY DEF Init, GatesHeld, Idle
<1>8. StateSigsBound /\ ResultSigsBound
  BY DEF Init, StateSigsBound, ResultSigsBound
<1> QED BY <1>1, <1>3, <1>4, <1>5, <1>6, <1>7, <1>8 DEF HubInv

LEMMA InvNext ==
    ASSUME HubInv, [Next]_vars
    PROVE  HubInv'
<1>1. TypeOK' /\ GatesHeld'
  BY TypeNext, GatesNext DEF HubInv
<1>2. ASSUME NEW p \in Conns, Step(p)
      PROVE  HubInv'
  BY <1>1, <1>2, InvRegister, InvRetry, InvEvaluate, InvPrepare,
     InvLoadPrepared, InvSignState, InvBuildPackage, InvCommitRefusal,
     InvCommitState, InvRecoverNext, InvOtherSteps
     DEF Step, FinalizeFails, Busy
<1>3. ASSUME NEW p \in Conns, Begin(p)
      PROVE  HubInv'
  BY <1>1, <1>3, InvStartRegister, InvStartReserve, InvStartRecovery DEF Begin
<1>4. ASSUME NEW p \in Conns, Crash(p) \/ Restart(p)
      PROVE  HubInv'
  BY <1>1, <1>4, InvOtherSteps DEF Restart
<1>5. CASE ChainStep \/ UNCHANGED vars
  <2>1. UNCHANGED <<tables, conn, sigs>>
    BY <1>5 DEF ChainStep, vars, hubVars, tables, sigs
  <2> QED BY <1>1, <2>1, InvUnchanged
<1> QED BY <1>2, <1>3, <1>4, <1>5 DEF Next

\* The tables of the store, what the processes hold of them and what was
\* signed agree in every reachable state.
THEOREM HubInvariant == Spec => []HubInv
BY InvInit, InvNext, PTL DEF Spec

-----------------------------------------------------------------------------
(* What follows from the invariant                                         *)

\* However requests, retries, recoveries, crashes and reorganisations
\* interleave, and however many processes share the store: the HUB never
\* signs two states of one sequence (DoubleSignEvidence).
THEOREM NeverDoubleSigns == Spec => []NoDoubleSign
<1>1. HubInv => NoDoubleSign
  BY DEF HubInv, StateSigsBound, NoDoubleSign, DoubleSignEvidence
<1> QED BY <1>1, HubInvariant, PTL

\* ... nor two results of one nonce (ConflictingResultEvidence).
THEOREM NeverConflictingResults == Spec => []NoConflictingResults
<1>1. HubInv => NoConflictingResults
  BY DEF HubInv, ResultSigsBound, NoConflictingResults,
         ConflictingResultEvidence
<1> QED BY <1>1, HubInvariant, PTL

\* The ledger can be rebuilt from any state's RecoveryPackage at every
\* instant, whatever crashed before it.
THEOREM AlwaysRecoverable == Spec => []LedgerRecoverable
<1>1. HubInv => LedgerRecoverable
  BY DEF HubInv
<1> QED BY <1>1, HubInvariant, PTL

-----------------------------------------------------------------------------
(* The ledgers                                                             *)

\* A fold over nothing is its base: the function that the fold is defined by
\* exists on the only subset of the empty domain.
LEMMA EmptyTotal == ReservedTotal(<<>>) = 0
<1> DEFINE first(s) == CHOOSE x \in s : TRUE
           body(iter) ==
               [ s \in SUBSET (DOMAIN <<>>) |->
                   IF s = {} THEN 0
                   ELSE <<>>[first(s)].amount + iter[s \ {first(s)}] ]
           zero == [s \in SUBSET (DOMAIN <<>>) |-> 0]
           fold == CHOOSE iter : iter = body(iter)
<1>1. ReservedTotal(<<>>) = fold[DOMAIN <<>>]
  BY Zenon DEF ReservedTotal, FoldFunction, FoldFunctionOnSet, MapThenFoldSet
<1>2. DOMAIN <<>> = {}
  OBVIOUS
<1>3. zero = body(zero)
  BY <1>2
<1>4. fold = body(fold)
  <2> HIDE DEF body, zero
  <2> QED BY <1>3
<1>5. body(fold)[DOMAIN <<>>] = 0
  <2> HIDE DEF fold
  <2> QED BY <1>2
<1> HIDE DEF body, fold
<1> QED BY <1>1, <1>4, <1>5

\* No ledger promises more than its channel holds, nor holds an entry that
\* its user did not sign.
THEOREM LedgersSolvent == Spec => []Solvent
<1>1. HubInv => Solvent
  <2> SUFFICES ASSUME HubInv, NEW c \in Coins
               PROVE  /\ ~(ReservedTotal(entries[c]) > FundingAmount)
                      /\ \A i \in DOMAIN entries[c] : entries[c][i].auth
    BY DEF Solvent
  <2>1. \A i \in DOMAIN entries[c] : entries[c][i].auth
    BY DEF HubInv, LedgersValid
  <2>2. CASE entries[c] = <<>>
    <3>1. ReservedTotal(entries[c]) = 0
      BY <2>2, EmptyTotal
    <3> QED BY <2>1, <3>1, TermsAssumption
  <2>3. CASE entries[c] # <<>>
    <3>1. ~(ReservedTotal(entries[c]) > FundingAmount)
      BY <2>3 DEF HubInv, LedgersValid, LedgerValid, Overdrawn
    <3> QED BY <2>1, <3>1
  <2> QED BY <2>2, <2>3
<1> QED BY <1>1, HubInvariant, PTL

\* What a crash between the two transactions leaves behind can be completed.
THEOREM PreparedCompletes == Spec => []PreparedCanBeCompleted
<1>1. HubInv => PreparedCanBeCompleted
  <2> SUFFICES ASSUME HubInv, NEW c \in Coins
               PROVE  LET waiting == { n \in Nonces :
                                         /\ rows[c][n].stage = "PREPARED"
                                         /\ rows[c][n].status = "SIGNED" }
                      IN /\ \A s \in DOMAIN intents[c] :
                              intents[c][s].stage = "PREPARED" =>
                                /\ s = latest[c].seq + 1
                                /\ intents[c][s].prev = latest[c].hash
                                /\ LedgerValid(intents[c][s].hash)
                                /\ waiting = {intents[c][s].nonce}
                         /\ \A n \in waiting :
                              /\ rows[c][n].seq \in DOMAIN intents[c]
                              /\ intents[c][rows[c][n].seq].stage = "PREPARED"
                              /\ intents[c][rows[c][n].seq].hash = rows[c][n].hash
    BY DEF PreparedCanBeCompleted
  <2> DEFINE waiting == { n \in Nonces : /\ rows[c][n].stage = "PREPARED"
                                         /\ rows[c][n].status = "SIGNED" }
  <2>1. ASSUME NEW n \in waiting
        PROVE  /\ rows[c][n].seq \in DOMAIN intents[c]
               /\ intents[c][rows[c][n].seq].stage = "PREPARED"
               /\ intents[c][rows[c][n].seq].hash = rows[c][n].hash
               /\ intents[c][rows[c][n].seq].nonce = n
    <3>1. Taken(c, n)
      BY DEF Taken
    <3> QED BY <3>1, RowBoundAt DEF HubInv
  <2>2. ASSUME NEW s \in DOMAIN intents[c], intents[c][s].stage = "PREPARED"
        PROVE  /\ s = latest[c].seq + 1
               /\ intents[c][s].prev = latest[c].hash
               /\ LedgerValid(intents[c][s].hash)
    BY <2>2 DEF HubInv, IntentsFollow, LedgerRecoverable
  <2>3. ASSUME NEW s \in DOMAIN intents[c], intents[c][s].stage = "PREPARED"
        PROVE  waiting = {intents[c][s].nonce}
    <3> DEFINE n == intents[c][s].nonce
    <3>1. intents[c] \in Seq(Intents)
      BY DEF HubInv, TypeOK
    <3>2. intents[c][s] \in Intents
      BY <3>1
    <3>3. n \in Nonces
      BY <3>2 DEF Intents
    <3>4. /\ Taken(c, n)
          /\ rows[c][n].status = "SIGNED"
          /\ rows[c][n].seq = s
      BY DEF HubInv, IntentsBound
    <3>5. intents[c][rows[c][n].seq].stage = rows[c][n].stage
      BY <3>3, <3>4, RowBoundAt DEF HubInv
    <3>6. n \in waiting
      BY <2>3, <3>3, <3>4, <3>5
    <3>7. ASSUME NEW m \in waiting
          PROVE  m = n
      <4>1. rows[c][m].seq = latest[c].seq + 1
        BY <2>1, <2>2
      <4>2. s = latest[c].seq + 1
        BY <2>2, <2>3
      <4> QED BY <4>1, <4>2, <2>1
    <3> QED BY <3>6, <3>7
  <2> QED BY <2>1, <2>2, <2>3
<1> QED BY <1>1, HubInvariant, PTL

-----------------------------------------------------------------------------
(* The refinement of HubLedger                                             *)

Answer == [c \in Coins |-> [n \in Nonces |-> AnswerOf(rows[c][n])]]

LEMMA SameValidity ==
    \A ledger : HubLedger!LedgerValid(ledger) <=> LedgerValid(ledger)
<1> SUFFICES ASSUME NEW ledger
             PROVE  HubLedger!LedgerValid(ledger) <=> LedgerValid(ledger)
  OBVIOUS
<1>1. HubLedger!ReservedTotal(ledger) = ReservedTotal(ledger)
  BY Zenon DEF HubLedger!ReservedTotal, ReservedTotal,
               HubLedger!FoldFunction, FoldFunction,
               HubLedger!FoldFunctionOnSet, FoldFunctionOnSet,
               HubLedger!MapThenFoldSet, MapThenFoldSet
<1> QED
  BY <1>1 DEF HubLedger!LedgerValid, LedgerValid, HubLedger!LedgerFull,
              LedgerFull, HubLedger!NoncesDiffer, NoncesDiffer,
              HubLedger!Overdrawn, Overdrawn

\* The steps that give no answer and write no entry.
LEMMA StoreStutters ==
    ASSUME HubInv, UNCHANGED entries,
           \A c \in Coins, n \in Nonces :
                AnswerOf(rows'[c][n]) = AnswerOf(rows[c][n])
    PROVE  UNCHANGED HubLedger!ledgerVars
BY DEF HubLedger!ledgerVars

LEMMA RefusalRefines ==
    ASSUME HubInv, NEW p \in Conns, CommitRefusal(p)
    PROVE  HubLedger!LedgerNext
<1> DEFINE c == conn[p].coin
           n == conn[p].nonce
<1>1. /\ c \in Coins /\ n \in Nonces
      /\ conn[p].row \in Rows
      /\ rows[c][n] = conn[p].row
      /\ rows[c][n].stage = "PREPARED"
      /\ rows'[c][n] = [rows[c][n] EXCEPT !.stage = "SIGNED"]
      /\ \A d \in Coins, m \in Nonces :
           <<d, m>> # <<c, n>> => rows'[d][m] = rows[d][m]
  BY SignedRow DEF CommitRefusal
<1>2. conn[p].row.status # "SIGNED" /\ UNCHANGED entries
  BY DEF CommitRefusal
<1>3. rows'[c][n].stage = "SIGNED" /\ rows'[c][n].status # "SIGNED"
  BY <1>1, <1>2 DEF Rows
<1>4. AnswerOf(rows[c][n]) = "none" /\ AnswerOf(rows'[c][n]) = "refused"
  BY <1>1, <1>3 DEF AnswerOf
<1> HIDE DEF c, n
<1>5. Answer' = [Answer EXCEPT ![c][n] = "refused"]
  <2>1. ASSUME NEW d \in Coins, NEW m \in Nonces, ~(d = c /\ m = n)
        PROVE  rows'[d][m] = rows[d][m]
    BY <2>1, <1>1
  <2>2. Answer'[c] = [Answer[c] EXCEPT ![n] = "refused"]
    <3>1. Answer'[c] = [m \in Nonces |-> AnswerOf(rows'[c][m])]
      BY <1>1 DEF Answer
    <3>2. Answer[c] = [m \in Nonces |-> AnswerOf(rows[c][m])]
      BY <1>1 DEF Answer
    <3>3. \A m \in Nonces : AnswerOf(rows'[c][m]) =
              IF m = n THEN "refused" ELSE AnswerOf(rows[c][m])
      BY <2>1, <1>1, <1>4
    <3> QED BY <3>1, <3>2, <3>3, <1>1
  <2>3. \A d \in Coins : d # c => Answer'[d] = Answer[d]
    <3> SUFFICES ASSUME NEW d \in Coins, d # c
                 PROVE  [m \in Nonces |-> AnswerOf(rows'[d][m])] =
                          [m \in Nonces |-> AnswerOf(rows[d][m])]
      BY DEF Answer
    <3> QED BY <2>1
  <2>4. DOMAIN Answer = Coins /\ Answer' = [d \in Coins |-> Answer'[d]]
    BY DEF Answer
  <2>5. Answer = [d \in Coins |-> Answer[d]]
    BY DEF Answer
  <2> HIDE DEF Answer
  <2> QED BY <2>2, <2>3, <2>4, <2>5, <1>1
<1>6. HubLedger!Refuse(c, n)
  BY <1>1, <1>2, <1>4, <1>5 DEF HubLedger!Refuse, Answer
<1> QED BY <1>1, <1>6 DEF HubLedger!LedgerNext

LEMMA CommitRefines ==
    ASSUME HubInv, NEW p \in Conns, CommitState(p)
    PROVE  HubLedger!LedgerNext
<1> DEFINE c == conn[p].coin
           n == conn[p].nonce
           request == conn[p].row.request
           ledger == Append(entries[c], request)
<1>1. /\ c \in Coins /\ n \in Nonces
      /\ request \in Requests
      /\ request.nonce = n
      /\ request.auth
      /\ LedgerValid(ledger)
  BY CommitFinds
<1>2. /\ rows'[c][n] = [rows[c][n] EXCEPT !.stage = "SIGNED"]
      /\ rows[c][n].stage = "PREPARED"
      /\ \A d \in Coins, m \in Nonces :
           <<d, m>> # <<c, n>> => rows'[d][m] = rows[d][m]
  BY CommitWrites, Zenon
<1>3. rows[c][n] \in Rows /\ rows[c][n].status = "SIGNED"
  <2>1. rows[c][n] = conn[p].row
    BY CommitWrites
  <2> QED BY <2>1, <1>1 DEF HubInv, TypeOK, CommitState
<1>4. AnswerOf(rows[c][n]) = "none" /\ AnswerOf(rows'[c][n]) = "signed"
  BY <1>2, <1>3 DEF AnswerOf, Rows
<1>5. entries' = [entries EXCEPT ![c] = Append(@, request)]
  BY DEF CommitState
<1> HIDE DEF c, n, request
<1>6. Answer' = [Answer EXCEPT ![c][n] = "signed"]
  <2>1. ASSUME NEW d \in Coins, NEW m \in Nonces, ~(d = c /\ m = n)
        PROVE  rows'[d][m] = rows[d][m]
    BY <2>1, <1>2
  <2>2. Answer'[c] = [Answer[c] EXCEPT ![n] = "signed"]
    <3>1. Answer'[c] = [m \in Nonces |-> AnswerOf(rows'[c][m])]
      BY <1>1 DEF Answer
    <3>2. Answer[c] = [m \in Nonces |-> AnswerOf(rows[c][m])]
      BY <1>1 DEF Answer
    <3>3. \A m \in Nonces : AnswerOf(rows'[c][m]) =
              IF m = n THEN "signed" ELSE AnswerOf(rows[c][m])
      BY <2>1, <1>1, <1>4
    <3> QED BY <3>1, <3>2, <3>3, <1>1
  <2>3. \A d \in Coins : d # c => Answer'[d] = Answer[d]
    <3> SUFFICES ASSUME NEW d \in Coins, d # c
                 PROVE  [m \in Nonces |-> AnswerOf(rows'[d][m])] =
                          [m \in Nonces |-> AnswerOf(rows[d][m])]
      BY DEF Answer
    <3> QED BY <2>1
  <2>4. DOMAIN Answer = Coins /\ Answer' = [d \in Coins |-> Answer'[d]]
    BY DEF Answer
  <2>5. Answer = [d \in Coins |-> Answer[d]]
    BY DEF Answer
  <2> HIDE DEF Answer
  <2> QED BY <2>2, <2>3, <2>4, <2>5, <1>1
<1>7. HubLedger!Accept(c, request)
  BY <1>1, <1>4, <1>5, <1>6, SameValidity DEF HubLedger!Accept, Answer
<1>8. request \in HubLedger!Requests
  BY <1>1 DEF Requests, HubLedger!Requests
<1> QED BY <1>1, <1>7, <1>8 DEF HubLedger!LedgerNext

LEMMA PrepareStutters ==
    ASSUME HubInv, NEW p \in Conns, Prepare(p)
    PROVE  UNCHANGED HubLedger!ledgerVars
<1> DEFINE c == conn[p].coin
           n == conn[p].nonce
<1>1. PICK row, intent : Inserted(p, row, intent)
  BY PrepareInserts
<1>2. /\ c \in Coins /\ n \in Nonces /\ ~Taken(c, n)
      /\ rows' = [rows EXCEPT ![c][n] = row]
      /\ row.stage = "PREPARED"
  BY <1>1 DEF Inserted
<1>3. ASSUME NEW d \in Coins, NEW m \in Nonces
      PROVE  AnswerOf(rows'[d][m]) = AnswerOf(rows[d][m])
  <2>1. CASE d = c /\ m = n
    <3>1. rows'[d][m] = row
      BY <2>1, <1>2 DEF HubInv, TypeOK
    <3> QED BY <2>1, <3>1, <1>2 DEF AnswerOf, Taken
  <2>2. CASE ~(d = c /\ m = n)
    <3>1. rows'[d][m] = rows[d][m]
      BY <2>2, <1>2 DEF HubInv, TypeOK
    <3> QED BY <3>1
  <2> QED BY <2>1, <2>2
<1>4. UNCHANGED entries
  BY DEF Prepare
<1> QED BY <1>3, <1>4, StoreStutters

LEMMA StepRefines ==
    ASSUME HubInv, [Next]_vars
    PROVE  HubLedger!LedgerNext \/ UNCHANGED HubLedger!ledgerVars
<1>1. ASSUME UNCHANGED <<rows, entries>>
      PROVE  UNCHANGED HubLedger!ledgerVars
  BY <1>1 DEF HubLedger!ledgerVars
<1>2. ASSUME NEW p \in Conns, Step(p)
      PROVE  HubLedger!LedgerNext \/ UNCHANGED HubLedger!ledgerVars
  <2>1. CASE CommitState(p)
    BY <2>1, CommitRefines
  <2>2. CASE CommitRefusal(p)
    BY <2>2, RefusalRefines
  <2>3. CASE Prepare(p)
    BY <2>3, PrepareStutters
  <2>4. CASE \/ Register(p) \/ Retry(p) \/ Evaluate(p) \/ LoadPrepared(p)
             \/ SignState(p) \/ BuildPackage(p) \/ CommitLate(p)
             \/ FinalizeFails(p) \/ Busy(p) \/ RecoverNext(p)
             \/ ReserveFails(p)
    <3>1. UNCHANGED <<rows, entries>>
      BY <2>4, Zenon DEF Register, Retry, Evaluate, LoadPrepared, SignState,
           BuildPackage, CommitLate, FinalizeFails, Busy, RecoverNext,
           ReserveFails, GiveUp, store
    <3> QED BY <3>1, <1>1
  <2> QED BY <1>2, <2>1, <2>2, <2>3, <2>4 DEF Step
<1>3. ASSUME NEW p \in Conns, Begin(p) \/ Crash(p) \/ Restart(p)
      PROVE  UNCHANGED HubLedger!ledgerVars
  <2>1. UNCHANGED <<rows, entries>>
    BY <1>3, Zenon DEF Begin, StartRegister, StartReserve, StartRecovery, Crash,
         Restart, GiveUp, store
  <2> QED BY <2>1, <1>1
<1>4. CASE ChainStep \/ UNCHANGED vars
  <2>1. UNCHANGED <<rows, entries>>
    BY <1>4 DEF ChainStep, vars, hubVars
  <2> QED BY <2>1, <1>1
<1> QED BY <1>2, <1>3, <1>4 DEF Next

\* The store implements the abstract ledger: every nonce gets one answer, and
\* an accepted request enters the ledger at the instant of its answer.
THEOREM ImplementsLedger == Spec => KeepsLedgerPromise
<1>1. Init => HubLedger!LedgerInit
  BY DEF Init, HubLedger!LedgerInit, NoRow, AnswerOf
<1>2. HubInv /\ [Next]_vars => [HubLedger!LedgerNext]_(HubLedger!ledgerVars)
  BY StepRefines
<1> QED
  BY <1>1, <1>2, HubInvariant, PTL
     DEF Spec, KeepsLedgerPromise, HubLedger!LedgerSpec

-----------------------------------------------------------------------------
(* The verdicts                                                            *)

LEMMA VerdictFields ==
    ASSUME NEW new, NEW status
    PROVE  Verdict(new, status).view = new /\ Verdict(new, status).status = status
BY DEF Verdict

LEMMA ObservedFields ==
    ASSUME NEW old \in Views, NEW state, NEW peak
    PROVE  /\ old.activated => Observed(old, state, peak).activated
           /\ Observed(old, state, peak).cutoff = old.cutoff
           /\ DOMAIN Observed(old, state, peak) = DOMAIN old
BY DEF Observed, Views

\* No verdict takes the activation back or moves the cutoff away.
LEMMA GateNarrows ==
    ASSUME NEW old \in Views, NEW initial \in Snapshots,
           NEW committed \in Snapshots, old.activated
    PROVE  /\ Gate(old, initial, committed).view.activated
           /\ Gate(old, initial, committed).view.cutoff <= old.cutoff
<1> DEFINE Narrows(verdict) == /\ verdict.view.activated
                               /\ verdict.view.cutoff <= old.cutoff
<1>1. old.cutoff \in Nat
  BY TermsAssumption, ChainAssumption DEF Views, BlockHeights, CloseDelay
<1>2. ASSUME NEW state, NEW peak, NEW status
      PROVE  Narrows(Verdict(Observed(old, state, peak), status))
  BY <1>1, VerdictFields, ObservedFields
<1>3. Narrows(FailedVerdict(old, initial, committed))
  <2> HIDE DEF Narrows
  <2> QED BY <1>2 DEF FailedVerdict
<1>4. Narrows(MissingVerdict(old, committed.peak))
  <2> HIDE DEF Narrows
  <2> QED BY <1>2 DEF MissingVerdict
<1>5. Narrows(SpentVerdict(old, committed))
  <2> DEFINE birth == committed.coin.birth
             seen == Observed(old, "CLOSING", committed.peak)
             new == [seen EXCEPT !.birth = birth, !.close = birth + CloseDelay]
  <2>1. /\ DOMAIN seen = {"birth", "cutoff", "close", "state", "activated",
                          "peak"}
        /\ seen.activated
        /\ seen.cutoff = old.cutoff
    BY ObservedFields DEF Views
  <2> HIDE DEF seen
  <2>2. new.activated /\ new.cutoff = old.cutoff
    BY <2>1
  <2>3. SpentVerdict(old, committed) = Verdict(new, "CHANNEL_CLOSING")
    BY DEF SpentVerdict, seen
  <2> HIDE DEF new
  <2>4. SpentVerdict(old, committed).view = new
    BY <2>3, VerdictFields
  <2> QED BY <2>2, <2>4, <1>1
<1>6. Narrows(ConfirmedVerdict(old, initial, committed))
  <2>1. committed.coin.birth \in 0..MaxHeight
    BY DEF Snapshots, FundingCoinStates
  <2>2. EffectiveCutoff(old, committed.coin.birth) <= old.cutoff
    BY <2>1, <1>1, TermsAssumption, ChainAssumption DEF EffectiveCutoff
  <2> QED BY <2>2 DEF ConfirmedVerdict, Verdict
<1>7. committed.coin.kind \in {"Missing", "Confirmed", "Spent"}
  BY DEF Snapshots, FundingCoinStates
<1> HIDE DEF Narrows
<1>8. Narrows(Gate(old, initial, committed))
  BY <1>2, <1>3, <1>4, <1>5, <1>6, <1>7 DEF Gate, Blocked
<1> QED BY <1>8 DEF Narrows

\* A faulty answer blocks, and is remembered as a state and a peak only.
LEMMA GateBlocksFaults ==
    ASSUME NEW old \in Views, NEW initial \in Snapshots,
           NEW committed \in Snapshots,
           initial.fault # "none" \/ committed.fault # "none"
    PROVE  LET verdict == Gate(old, initial, committed)
           IN /\ verdict.status \in {"RPC_UNAVAILABLE", "NODE_NOT_SYNCED",
                                     "CHAIN_STATE_UNCERTAIN"}
              /\ \E state, peak : verdict.view = Observed(old, state, peak)
<1> DEFINE Blocks(verdict) ==
             /\ verdict.status \in {"RPC_UNAVAILABLE", "NODE_NOT_SYNCED",
                                    "CHAIN_STATE_UNCERTAIN"}
             /\ \E state, peak : verdict.view = Observed(old, state, peak)
<1>1. ASSUME NEW state, NEW peak,
             NEW status \in {"RPC_UNAVAILABLE", "NODE_NOT_SYNCED",
                             "CHAIN_STATE_UNCERTAIN"}
      PROVE  Blocks(Verdict(Observed(old, state, peak), status))
  BY DEF Verdict
<1>2. FaultsOf(initial, committed) = {initial.fault, committed.fault}
  BY DEF FaultsOf
<1>3. {initial.fault, committed.fault} \subseteq AllFaults \cup {"none"}
  BY HubAssumption DEF Snapshots
<1> HIDE DEF Blocks
<1>4. Blocks(FailedVerdict(old, initial, committed))
  BY <1>1 DEF FailedVerdict
<1>5. Blocks(Gate(old, initial, committed))
  BY <1>1, <1>2, <1>3, <1>4 DEF Gate, Blocked, AllFaults
<1> QED BY <1>5 DEF Blocks

\* What the gate lets through is confirmed by both answers and below the
\* cutoff.
LEMMA GateAdmits ==
    ASSUME NEW old \in Views, NEW initial \in Snapshots,
           NEW committed \in Snapshots,
           Gate(old, initial, committed).status = "SIGNED"
    PROVE  /\ committed.fault \notin {"rpc", "invalid", "no_peak"}
           /\ committed.coin.kind = "Confirmed"
           /\ ~(committed.peak.height >=
                  EffectiveCutoff(old, committed.coin.birth))
           /\ committed.peak # NoPeak =>
                Gate(old, initial, committed).height = committed.peak.height
<1>1. /\ FailedVerdict(old, initial, committed).status # "SIGNED"
      /\ MissingVerdict(old, committed.peak).status # "SIGNED"
      /\ SpentVerdict(old, committed).status # "SIGNED"
  BY DEF FailedVerdict, MissingVerdict, SpentVerdict, Verdict
<1>2. \A new : /\ Verdict(new, "CHAIN_STATE_UNCERTAIN").status # "SIGNED"
               /\ Verdict(new, "NODE_NOT_SYNCED").status # "SIGNED"
  BY DEF Verdict
<1>3. committed.fault \in FaultsOf(initial, committed)
  BY DEF FaultsOf
<1>4. /\ committed.fault \notin {"rpc", "invalid", "no_peak"}
      /\ Gate(old, initial, committed) =
           CASE committed.coin.kind = "Missing" ->
                  MissingVerdict(old, committed.peak)
             [] committed.coin.kind = "Spent" -> SpentVerdict(old, committed)
             [] committed.coin.kind = "Confirmed" ->
                  ConfirmedVerdict(old, initial, committed)
  BY <1>1, <1>2, <1>3 DEF Gate, Blocked
<1>5. committed.coin.kind \in {"Missing", "Confirmed", "Spent"}
  BY DEF Snapshots, FundingCoinStates
<1>6. /\ committed.coin.kind = "Confirmed"
      /\ ConfirmedVerdict(old, initial, committed).status = "SIGNED"
  BY <1>1, <1>4, <1>5
<1>7. /\ ~(committed.peak.height >= EffectiveCutoff(old, committed.coin.birth))
      /\ committed.peak # NoPeak =>
           ConfirmedVerdict(old, initial, committed).height
             = committed.peak.height
  BY <1>6 DEF ConfirmedVerdict, Verdict
<1> QED BY <1>4, <1>6, <1>7

-----------------------------------------------------------------------------
(* The steps that prepare a reservation                                    *)

\* A reservation appears only in the transaction of the process that asks for
\* it.
LEMMA OnlyPrepareInserts ==
    ASSUME TypeOK, [Next]_vars, NEW c \in Coins, NEW n \in Nonces,
           rows[c][n].stage = "NONE", rows'[c][n].stage = "PREPARED"
    PROVE  \E p \in Conns :
                /\ Prepare(p)
                /\ c = conn[p].coin
                /\ n = conn[p].request.nonce
<1>1. rows' # rows
  OBVIOUS
<1>2. ~UNCHANGED store
  BY <1>1 DEF store
<1>3. PICK p \in Conns : Step(p)
  BY <1>1, <1>2, Zenon
     DEF Next, Begin, StartRegister, StartReserve, StartRecovery, Crash,
         Restart, GiveUp, ChainStep, vars, hubVars
<1>4. ASSUME NEW d, NEW m, SignRow(d, m)
      PROVE  rows'[c][n].stage # "PREPARED"
  <2>1. rows' = [rows EXCEPT ![d][m].stage = "SIGNED"]
    BY <1>4 DEF SignRow
  <2>2. rows[c][n] \in Rows
    BY DEF TypeOK
  <2>3. CASE d = c /\ m = n
    BY <2>1, <2>2, <2>3 DEF TypeOK, Rows
  <2>4. CASE ~(d = c /\ m = n)
    <3>1. rows'[c][n] = rows[c][n]
      BY <2>1, <2>4 DEF TypeOK
    <3> QED BY <3>1
  <2> QED BY <2>3, <2>4
<1>5. ~CommitState(p) /\ ~CommitRefusal(p)
  BY <1>4 DEF CommitState, CommitRefusal
<1>6. Prepare(p)
  BY <1>1, <1>2, <1>3, <1>5, Zenon
     DEF Step, Register, Retry, Evaluate, LoadPrepared, SignState,
         BuildPackage, CommitLate, FinalizeFails, Busy, RecoverNext,
         ReserveFails, GiveUp
<1> DEFINE d == conn[p].coin
           m == conn[p].request.nonce
<1>7. PICK row : rows' = [rows EXCEPT ![d][m] = row]
  BY <1>6 DEF Prepare
<1>8. d = c /\ m = n
  <2>1. ASSUME ~(d = c /\ m = n)
        PROVE  rows'[c][n] = rows[c][n]
    BY <2>1, <1>7 DEF TypeOK
  <2> QED BY <2>1
<1> QED BY <1>6, <1>8

\* A process that is waiting is moved by its own steps only.
LEMMA OwnStep ==
    ASSUME TypeOK, [Next]_vars, NEW p \in Conns, conn'[p] # conn[p],
           NEW q \in Conns, Prepare(q)
    PROVE  q = p
BY DEF Prepare, Become, TypeOK

Facts(p) ==
    LET c == conn[p].coin
        verdict == VerdictFor(p)
        status == TargetStatus(c, conn[p].request, verdict)
    IN /\ c \in Coins
       /\ conn[p].request.nonce \in Nonces
       /\ view[c] \in Views
       /\ conn[p].snap \in Snapshots
       /\ conn[p].again \in Snapshots
       /\ verdict \in Verdicts
       /\ rows'[c][conn[p].request.nonce].status = status
       /\ rows'[c][conn[p].request.nonce].peak = verdict.height
       /\ view' = [view EXCEPT ![c] = verdict.view]

LEMMA PrepareFacts ==
    ASSUME TypeOK, NEW p \in Conns, Prepare(p)
    PROVE  Facts(p)
<1> DEFINE c == conn[p].coin
           n == conn[p].request.nonce
           verdict == VerdictFor(p)
           status == TargetStatus(c, conn[p].request, verdict)
           row == NewRow(p, verdict, status)
<1>1. /\ c \in Coins
      /\ n \in Nonces
      /\ conn[p].snap \in Snapshots
      /\ conn[p].again \in Snapshots
  BY DEF TypeOK, Locals, Requests
<1>2. view[c] \in Views
  BY <1>1 DEF TypeOK
<1>4. verdict \in Verdicts
  BY <1>1, <1>2, GateType DEF VerdictFor
<1>5. /\ view' = [view EXCEPT ![c] = verdict.view]
      /\ rows' = [rows EXCEPT ![c][n] = row]
  BY DEF Prepare
<1> HIDE DEF verdict
<1>6. row.status = status /\ row.peak = verdict.height
  BY DEF NewRow
<1>7. rows'[c][n] = row
  BY <1>1, <1>5 DEF TypeOK
<1> QED BY <1>1, <1>2, <1>4, <1>5, <1>6, <1>7 DEF Facts, verdict

-----------------------------------------------------------------------------
(* Theorems                                                                *)

\* The steps that write the rows of the channels.
LEMMA ViewSteps ==
    ASSUME [Next]_vars
    PROVE  \/ UNCHANGED <<registered, view>>
           \/ \E p \in Conns : Register(p)
           \/ \E p \in Conns : Prepare(p)
<1>1. ASSUME NEW p \in Conns, Step(p)
      PROVE  \/ Register(p)
             \/ Prepare(p)
             \/ UNCHANGED <<registered, view>>
  BY <1>1, Zenon
     DEF Step, Retry, Evaluate, LoadPrepared, SignState, BuildPackage,
         CommitLate, FinalizeFails, Busy,
         CommitState, CommitRefusal, RecoverNext, ReserveFails, GiveUp, store
<1>2. ASSUME NEW p \in Conns, Begin(p) \/ Crash(p) \/ Restart(p)
      PROVE  UNCHANGED <<registered, view>>
  BY <1>2, Zenon DEF Begin, StartRegister, StartReserve, StartRecovery, Crash,
              Restart, GiveUp, store
<1>3. CASE ChainStep \/ UNCHANGED vars
  BY <1>3 DEF ChainStep, vars, hubVars
<1> QED BY <1>1, <1>2, <1>3 DEF Next

\* A channel that has no row was never activated.
Unregistered == \A c \in Coins \ registered : ~view[c].activated

LEMMA UnregisteredNext ==
    ASSUME HubInv, Unregistered, [Next]_vars
    PROVE  /\ Unregistered'
           /\ \A c \in Coins : view[c].activated =>
                /\ view'[c].activated
                /\ view'[c].cutoff <= view[c].cutoff
<1> DEFINE Goal == /\ Unregistered'
                   /\ \A c \in Coins : view[c].activated =>
                        /\ view'[c].activated
                        /\ view'[c].cutoff <= view[c].cutoff
<1>0. TypeOK
  BY DEF HubInv
<1>1. \A c \in Coins : view[c].cutoff \in Nat
  BY <1>0, TermsAssumption, ChainAssumption
     DEF TypeOK, Views, BlockHeights, CloseDelay
<1>2. ASSUME UNCHANGED <<registered, view>>
      PROVE  Goal
  BY <1>1, <1>2 DEF Unregistered
<1>3. ASSUME NEW p \in Conns, Prepare(p)
      PROVE  Goal
  <2> DEFINE d == conn[p].coin
             verdict == VerdictFor(p)
  <2>1. /\ d \in Coins
        /\ view[d] \in Views
        /\ conn[p].snap \in Snapshots
        /\ conn[p].again \in Snapshots
        /\ view' = [view EXCEPT ![d] = verdict.view]
    BY <1>0, <1>3, PrepareFacts DEF Facts
  <2>2. view[d].activated => /\ verdict.view.activated
                             /\ verdict.view.cutoff <= view[d].cutoff
    BY <2>1, GateNarrows DEF VerdictFor
  <2>3. UNCHANGED registered /\ d \in registered
    BY <1>3 DEF Prepare, Readable, HubInv, GatesHeld
  <2> HIDE DEF verdict, d
  <2>4. \A c \in Coins : view'[c] = IF c = d THEN verdict.view ELSE view[c]
    BY <1>0, <2>1 DEF TypeOK
  <2> QED BY <2>2, <2>3, <2>4, <1>1 DEF Unregistered
<1>4. ASSUME NEW p \in Conns, Register(p)
      PROVE  Goal
  <2> DEFINE d == conn[p].coin
  <2>1. CASE d \in registered
    BY <2>1, <1>2, <1>4 DEF Register
  <2>2. CASE d \notin registered
    <3>1. PICK new : view' = [view EXCEPT ![d] = new]
      BY <2>2, <1>4 DEF Register
    <3>2. registered' = registered \cup {d}
      BY <2>2, <1>4 DEF Register
    <3>3. \A c \in Coins : c # d => view'[c] = view[c]
      BY <1>0, <3>1 DEF TypeOK
    <3>4. d \in Coins => ~view[d].activated
      BY <2>2 DEF Unregistered
    <3> HIDE DEF d
    <3> QED BY <3>2, <3>3, <3>4, <1>1 DEF Unregistered
  <2> QED BY <2>1, <2>2
<1> HIDE DEF Goal
<1>5. Goal
  <2>1. \/ UNCHANGED <<registered, view>>
        \/ \E p \in Conns : Register(p)
        \/ \E p \in Conns : Prepare(p)
    BY ViewSteps
  <2> QED BY <1>2, <1>3, <1>4, <2>1, Zenon
<1> QED BY <1>5 DEF Goal

\* However reorganisations are observed, an activated channel stays activated
\* and its acceptance cutoff never moves away.
THEOREM NeverExtendsAcceptance == Spec => AcceptanceNeverExtended
<1>1. Init => Unregistered
  BY DEF Init, NoView, Unregistered
<1>2. HubInv /\ Unregistered /\ [Next]_vars =>
        /\ Unregistered'
        /\ [\A c \in Coins : view[c].activated =>
              view'[c].activated /\ view'[c].cutoff <= view[c].cutoff]_vars
  BY UnregisteredNext
<1> QED
  BY <1>1, <1>2, HubInvariant, PTL DEF Spec, AcceptanceNeverExtended

\* The HUB never writes the chain.
LEMMA ChainSteps ==
    ASSUME [Next]_vars
    PROVE  ChainNext \/ UNCHANGED chainVars
<1>1. ASSUME NEW p \in Conns, Step(p) \/ Begin(p) \/ Crash(p) \/ Restart(p)
      PROVE  UNCHANGED chainVars
  BY <1>1, Zenon
     DEF Step, Register, Retry, Evaluate, Prepare, LoadPrepared, SignState,
         BuildPackage, CommitLate, FinalizeFails, Busy, CommitState,
         CommitRefusal, RecoverNext, ReserveFails, GiveUp, Begin,
         StartRegister, StartReserve, StartRecovery, Crash, Restart
<1> QED BY <1>1 DEF Next, ChainStep, vars

\* A block that is gone never comes back, and what a snapshot says of a coin
\* stays true while its block is there.
LEMMA SnapshotsStayTrue ==
    ASSUME ChainTypeOK, BlocksBound, ChainNext \/ UNCHANGED chainVars
    PROVE  /\ BlocksBound'
           /\ \A c \in Coins, snap \in Snapshots :
                StillTrue(c, snap) => StillTrue(c, snap)'
<1> DEFINE Goal == /\ BlocksBound'
                   /\ \A c \in Coins, snap \in Snapshots :
                        StillTrue(c, snap) => StillTrue(c, snap)'
<1>1. /\ branch \in Nat /\ blocks \in Seq(0..MaxReorgs)
      /\ Height \in Nat /\ Height = Len(blocks) /\ DOMAIN blocks = 1..Height
      /\ \A i \in 1..Height : blocks[i] \in Nat
      /\ CloseDelay \in Nat
  BY ChainAssumption, TermsAssumption DEF ChainTypeOK, Height, CloseDelay
<1>2. \A c \in Coins : born[c] \in Nat /\ spent[c] \in Nat
  BY ChainAssumption DEF ChainTypeOK
<1>3. \A snap \in Snapshots :
        /\ snap.peak.height \in Int /\ snap.peak.hash \in Nat
        /\ snap.coin.birth \in Nat
  BY ChainAssumption DEF Snapshots, Peaks, NoPeak, FundingCoinStates
<1>4. CASE UNCHANGED chainVars
  BY <1>4 DEF chainVars, BlocksBound, StillTrue, Canonical, Height
<1>5. ASSUME NEW created, NEW closed, Grow(created, closed)
      PROVE  Goal
  <2>1. /\ Height' = Height + 1
        /\ DOMAIN blocks' = 1..(Height + 1)
        /\ \A i \in 1..Height : blocks'[i] = blocks[i]
        /\ blocks'[Height + 1] = branch
        /\ branch' = branch
    BY <1>1, <1>5, ChainAssumption DEF Grow, ChainTypeOK, Height
  <2>2. \A c \in Coins :
          /\ born'[c] = IF c \in created THEN Height + 1 ELSE born[c]
          /\ spent'[c] = IF c \in closed THEN Height + 1 ELSE spent[c]
          /\ c \in created => born[c] = 0
          /\ c \in closed => /\ born[c] > 0
                             /\ Height >= born[c] + CloseDelay
    BY <1>5 DEF Grow, CanBeSpent
  <2>3. BlocksBound'
    <3>1. \A i \in DOMAIN blocks' : blocks'[i] <= branch'
      BY <1>1, <2>1 DEF BlocksBound
    <3>2. ASSUME NEW c \in Coins
          PROVE  /\ born'[c] <= Height'
                 /\ spent'[c] > 0 =>
                      born'[c] > 0 /\ spent'[c] > born'[c] + CloseDelay
      <4>1. /\ born[c] <= Height
            /\ spent[c] > 0 => born[c] > 0 /\ spent[c] > born[c] + CloseDelay
        BY DEF BlocksBound
      <4> QED BY <4>1, <1>1, <1>2, <2>1, <2>2
    <3> QED BY <3>1, <3>2 DEF BlocksBound, CloseDelay
  <2>4. ASSUME NEW c \in Coins, NEW snap \in Snapshots, StillTrue(c, snap)
        PROVE  StillTrue(c, snap)'
    <3> DEFINE peak == snap.peak
    <3>1. CASE ~(peak.height > 0)
      BY <2>4, <3>1 DEF StillTrue
    <3>2. CASE peak.height > 0 /\ Canonical(peak)
      <4>1. Canonical(peak)'
        BY <1>1, <1>3, <2>1, <3>2 DEF Canonical
      <4>2. snap.coin.kind = "Confirmed" =>
              /\ snap.coin.birth = born'[c]
              /\ born'[c] \in 1..peak.height
        BY <2>4, <3>2, <1>2, <2>2 DEF StillTrue
      <4> QED BY <4>1, <4>2, <2>4 DEF StillTrue
    <3>3. CASE peak.height > 0 /\ ~Canonical(peak)
      <4>1. peak.hash < branch
        BY <2>4, <3>3 DEF StillTrue
      <4>2. ~Canonical(peak)'
        BY <1>1, <1>3, <2>1, <3>3, <4>1 DEF Canonical
      <4> QED BY <4>1, <4>2, <2>1, <2>4 DEF StillTrue
    <3> QED BY <3>1, <3>2, <3>3
  <2> QED BY <2>3, <2>4
<1>6. ASSUME NEW height \in 0..MaxHeight, Reorganise(height)
      PROVE  Goal
  <2>1. /\ height \in Nat /\ height < Height
        /\ Height' = height
        /\ DOMAIN blocks' = 1..height
        /\ \A i \in 1..height : blocks'[i] = blocks[i]
        /\ branch' = branch + 1
    BY <1>1, <1>6, ChainAssumption DEF Reorganise, Height
  <2>2. \A c \in Coins :
          /\ born'[c] = IF born[c] > height THEN 0 ELSE born[c]
          /\ spent'[c] = IF spent[c] > height THEN 0 ELSE spent[c]
    BY <1>6 DEF Reorganise
  <2>3. BlocksBound'
    <3>1. \A i \in DOMAIN blocks' : blocks'[i] <= branch'
      BY <1>1, <2>1 DEF BlocksBound
    <3>2. ASSUME NEW c \in Coins
          PROVE  /\ born'[c] <= Height'
                 /\ spent'[c] > 0 =>
                      born'[c] > 0 /\ spent'[c] > born'[c] + CloseDelay
      <4>1. /\ born[c] <= Height
            /\ spent[c] > 0 => born[c] > 0 /\ spent[c] > born[c] + CloseDelay
        BY DEF BlocksBound
      <4> QED BY <4>1, <1>1, <1>2, <2>1, <2>2
    <3> QED BY <3>1, <3>2 DEF BlocksBound, CloseDelay
  <2>4. ASSUME NEW c \in Coins, NEW snap \in Snapshots, StillTrue(c, snap)
        PROVE  StillTrue(c, snap)'
    <3> DEFINE peak == snap.peak
    <3>1. CASE ~(peak.height > 0)
      BY <2>4, <3>1 DEF StillTrue
    <3>2. CASE peak.height > 0 /\ Canonical(peak)'
      <4>1. Canonical(peak)
        BY <1>1, <1>3, <2>1, <3>2 DEF Canonical
      <4>2. snap.coin.kind = "Confirmed" =>
              /\ snap.coin.birth = born'[c]
              /\ born'[c] \in 1..peak.height
        <5>1. peak.height <= height
          BY <2>1, <3>2 DEF Canonical
        <5> QED BY <2>4, <3>2, <4>1, <5>1, <1>2, <1>3, <2>1, <2>2 DEF StillTrue
      <4> QED BY <3>2, <4>2, <2>4 DEF StillTrue
    <3>3. CASE peak.height > 0 /\ ~Canonical(peak)'
      <4>1. peak.hash <= branch
        <5>1. CASE Canonical(peak)
          BY <1>1, <5>1 DEF Canonical, BlocksBound
        <5>2. CASE ~Canonical(peak)
          BY <1>1, <1>3, <2>4, <3>3, <5>2 DEF StillTrue
        <5> QED BY <5>1, <5>2
      <4>2. peak.hash < branch'
        BY <1>1, <1>3, <2>1, <4>1
      <4> QED BY <3>3, <4>2, <2>4 DEF StillTrue
    <3> QED BY <3>1, <3>2, <3>3
  <2> QED BY <2>3, <2>4
<1> HIDE DEF Goal
<1>7. Goal
  BY <1>4, <1>5, <1>6 DEF ChainNext, Goal
<1> QED BY <1>7 DEF Goal

\* A snapshot is true when it is made.
LEMMA SnapshotsBeginTrue ==
    ASSUME ChainTypeOK, BlocksBound, NEW c \in Coins,
           NEW snap \in SnapshotsNow(c)
    PROVE  StillTrue(c, snap)
<1>1. /\ snap.coin = FundingCoin(c)
      /\ \/ snap.peak = Tip
         \/ snap.peak = NoPeak /\ snap.fault \in {"rpc", "invalid", "no_peak"}
  BY DEF SnapshotsNow
<1>2. Height \in Nat /\ born[c] \in Nat /\ born[c] <= Height
  BY ChainAssumption DEF ChainTypeOK, Height, BlocksBound
<1>3. /\ NoPeak.height = -1
      /\ Tip.height = Height
      /\ Height > 0 => Canonical(Tip)
  BY <1>2 DEF NoPeak, Tip, Canonical
<1>4. snap.coin.kind = "Confirmed" => snap.coin.birth = born[c] /\ born[c] > 0
  BY <1>1, <1>2 DEF FundingCoin
<1>5. Tip # NoPeak
  BY <1>2, <1>3
<1> QED BY <1>1, <1>2, <1>3, <1>4, <1>5 DEF StillTrue

LEMMA ChainSeenNext ==
    ASSUME HubInv, ChainSeenInv, [Next]_vars
    PROVE  ChainSeenInv'
<1>1. TypeOK /\ ChainTypeOK /\ GatesHeld
  BY DEF HubInv, TypeOK
<1>2. /\ BlocksBound'
      /\ \A c \in Coins, snap \in Snapshots :
           StillTrue(c, snap) => StillTrue(c, snap)'
  BY <1>1, ChainSteps, SnapshotsStayTrue DEF ChainSeenInv
<1>3. ASSUME NEW p \in Conns, conn'[p].pc = "gate"
      PROVE  StillTrue(conn[p].coin, conn[p].again)'
  <2>1. conn[p].coin \in Coins /\ conn[p].again \in Snapshots
    BY <1>1 DEF TypeOK, Locals
  <2>2. CASE conn'[p] = conn[p]
    <3>1. StillTrue(conn[p].coin, conn[p].again)
      BY <1>3, <2>2 DEF ChainSeenInv, GatesTrue
    <3> DEFINE c == conn[p].coin
               snap == conn[p].again
    <3>2. PICK d \in Coins, seen \in Snapshots : d = c /\ seen = snap
      BY <2>1
    <3>3. StillTrue(d, seen)'
      BY <1>2, <3>1, <3>2
    <3>4. conn'[p].coin = d /\ conn'[p].again = seen
      BY <2>2, <3>2
    <3> HIDE DEF c, snap
    <3> QED BY <3>3, <3>4 DEF StillTrue, Canonical, Height
  <2>3. CASE Evaluate(p)
    <3>1. /\ conn'[p].coin = conn[p].coin
          /\ conn'[p].again \in SnapshotsNow(conn[p].coin)
          /\ UNCHANGED chainVars
      BY <1>1, <2>3, EvaluateIs
    <3>2. PICK seen \in SnapshotsNow(conn[p].coin) : conn'[p].again = seen
      BY <3>1
    <3>3. StillTrue(conn[p].coin, seen)
      BY <1>1, <2>1, SnapshotsBeginTrue DEF ChainSeenInv
    <3> QED BY <3>1, <3>2, <3>3 DEF StillTrue, Canonical, Height, chainVars
  <2> QED BY <1>1, <1>3, <2>2, <2>3, WorkBegins
<1>4. GatesTrue'
  BY <1>3 DEF GatesTrue
<1> QED BY <1>2, <1>4 DEF ChainSeenInv

LEMMA ChainSeen == Spec => [](HubInv /\ ChainSeenInv)
<1>1. Init => ChainSeenInv
  <2> SUFFICES ASSUME Init PROVE ChainSeenInv
    OBVIOUS
  <2>1. DOMAIN blocks = {}
    BY DEF Init, ChainInit
  <2>2. \A c \in Coins : born[c] = 0 /\ spent[c] = 0
    BY DEF Init, ChainInit
  <2>3. Height = 0
    BY DEF Init, ChainInit, Height
  <2>4. GatesTrue
    BY DEF Init, GatesTrue, Idle
  <2> QED BY <2>1, <2>2, <2>3, <2>4 DEF ChainSeenInv, BlocksBound
<1> QED BY <1>1, ChainSeenNext, HubInvariant, PTL DEF Spec

\* What the gate accepts of the second snapshot, and what the row says of it.
LEMMA AcceptedSnapshot ==
    ASSUME TypeOK, GatesTrue, NEW p \in Conns, Prepare(p),
           rows'[conn[p].coin][conn[p].request.nonce].status = "SIGNED"
    PROVE  LET c == conn[p].coin
               seen == conn[p].again
           IN /\ rows'[c][conn[p].request.nonce].peak = seen.peak.height
              /\ seen.peak.height \in Nat
              /\ seen.coin.kind = "Confirmed"
              /\ ~(seen.peak.height >= EffectiveCutoff(view[c], seen.coin.birth))
<1> DEFINE c == conn[p].coin
           seen == conn[p].again
           verdict == VerdictFor(p)
           row == rows'[c][conn[p].request.nonce]
<1>1. /\ view[c] \in Views
      /\ conn[p].snap \in Snapshots
      /\ seen \in Snapshots
      /\ TargetStatus(c, conn[p].request, verdict) = "SIGNED"
      /\ row.peak = verdict.height
  BY PrepareFacts DEF Facts
<1>2. verdict.status = "SIGNED"
  <2> HIDE DEF verdict
  <2> QED BY <1>1 DEF TargetStatus, Admitted
<1>3. /\ seen.fault \notin {"rpc", "invalid", "no_peak"}
      /\ seen.coin.kind = "Confirmed"
      /\ ~(seen.peak.height >= EffectiveCutoff(view[c], seen.coin.birth))
      /\ seen.peak # NoPeak => verdict.height = seen.peak.height
  BY <1>1, <1>2, GateAdmits DEF VerdictFor
<1>4. seen.peak # NoPeak
  BY <1>3 DEF Prepare, GatesTrue, StillTrue
<1>5. seen.peak.height \in Nat
  BY <1>1, <1>4, ChainAssumption DEF Snapshots, Peaks
<1> QED BY <1>1, <1>3, <1>4, <1>5

LEMMA InTimeNext ==
    ASSUME HubInv, ChainSeenInv, [Next]_vars, NEW p \in Conns,
           conn[p].pc = "gate",
           rows[conn[p].coin][conn[p].nonce].stage = "NONE",
           rows'[conn[p].coin][conn[p].nonce].stage = "PREPARED",
           rows'[conn[p].coin][conn[p].nonce].status = "SIGNED"
    PROVE  LET c == conn[p].coin
               n == conn[p].nonce
               tip == conn[p].again.peak
           IN /\ rows'[c][n].peak = tip.height
              /\ view[c].activated => tip.height < view[c].cutoff
              /\ Canonical(tip) =>
                   /\ born[c] \in 1..tip.height
                   /\ tip.height < born[c] + AcceptanceBlocks
                   /\ spent[c] > 0 => spent[c] > tip.height + FreezeBlocks
<1> DEFINE c == conn[p].coin
           n == conn[p].nonce
           seen == conn[p].again
           tip == seen.peak
<1>1. TypeOK /\ c \in Coins /\ n \in Nonces /\ seen \in Snapshots
  BY DEF HubInv, TypeOK, Locals
<1>2. Prepare(p) /\ n = conn[p].request.nonce
  <2>1. PICK q \in Conns : Prepare(q)
    BY <1>1, OnlyPrepareInserts
  <2>2. q = p
    BY <2>1 DEF Prepare, HubInv, GatesHeld
  <2> QED BY <2>1, <2>2 DEF HubInv, LocalsBound, LocalBound
<1>3. /\ rows'[c][n].peak = tip.height
      /\ tip.height \in Nat
      /\ seen.coin.kind = "Confirmed"
      /\ ~(tip.height >= EffectiveCutoff(view[c], seen.coin.birth))
  BY <1>1, <1>2, AcceptedSnapshot DEF ChainSeenInv
<1>4. /\ view[c].cutoff \in Nat /\ view[c].activated \in BOOLEAN
      /\ seen.coin.birth \in Nat
  <2>1. view[c] \in Views
    BY <1>1 DEF TypeOK
  <2>2. MaxHeight \in Nat /\ CloseDelay \in Nat
    BY TermsAssumption, ChainAssumption DEF CloseDelay
  <2> QED BY <1>1, <2>1, <2>2
          DEF Views, BlockHeights, Snapshots, FundingCoinStates
<1>5. /\ tip.height < seen.coin.birth + AcceptanceBlocks
      /\ view[c].activated => tip.height < view[c].cutoff
  BY <1>3, <1>4, TermsAssumption DEF EffectiveCutoff
<1>6. ASSUME Canonical(tip)
      PROVE  /\ born[c] \in 1..tip.height
             /\ seen.coin.birth = born[c]
    <2>1. StillTrue(c, seen)
      BY DEF ChainSeenInv, GatesTrue
    <2>2. tip.height > 0
      BY <1>3, <1>6 DEF Canonical
    <2> QED BY <1>3, <1>6, <2>1, <2>2 DEF StillTrue
<1>7. /\ spent[c] > 0 => spent[c] > born[c] + CloseDelay
      /\ spent[c] \in Nat /\ born[c] \in Nat
  BY <1>1, ChainAssumption DEF ChainSeenInv, BlocksBound, TypeOK, ChainTypeOK
<1> HIDE DEF c, n, seen
<1>8. Canonical(tip) => (spent[c] > 0 => spent[c] > tip.height + FreezeBlocks)
  BY <1>3, <1>5, <1>6, <1>7, TermsAssumption DEF CloseDelay
<1> QED BY <1>3, <1>5, <1>6, <1>8 DEF c, n, seen

\* Whatever a process saw before it got the write lock and whatever the chain
\* does before it commits: it accepts as of the snapshot it made under the
\* lock, and unless that snapshot's block is gone, the coin is there, below its
\* cutoff, and not spendable before FREEZE_BLOCKS more blocks.
THEOREM AcceptsInTime == Spec => AcceptedInTime
<1>1. HubInv /\ ChainSeenInv /\ [Next]_vars =>
        [\A p \in Conns :
            LET c == conn[p].coin
                n == conn[p].nonce
                tip == conn[p].again.peak
            IN /\ conn[p].pc = "gate"
               /\ rows[c][n].stage = "NONE"
               /\ rows'[c][n].stage = "PREPARED"
               /\ rows'[c][n].status = "SIGNED"
               => /\ rows'[c][n].peak = tip.height
                  /\ view[c].activated => tip.height < view[c].cutoff
                  /\ Canonical(tip) =>
                       /\ born[c] \in 1..tip.height
                       /\ tip.height < born[c] + AcceptanceBlocks
                       /\ spent[c] > 0 =>
                            spent[c] > tip.height + FreezeBlocks]_vars
  BY InTimeNext, Zenon
<1> QED BY <1>1, ChainSeen, PTL DEF Spec, AcceptedInTime

LEMMA FaultyNext ==
    ASSUME TypeOK, [Next]_vars, NEW p \in Conns,
           conn[p].pc = "gate",
           conn[p].snap.fault # "none" \/ conn[p].again.fault # "none",
           conn'[p].pc = "load",
           rows[conn[p].coin][conn[p].nonce].stage = "NONE",
           rows'[conn[p].coin][conn[p].nonce].stage = "PREPARED"
    PROVE  LET c == conn[p].coin
               n == conn[p].nonce
           IN /\ rows'[c][n].status \notin
                   {"SIGNED", "REJECTED_FREEZING", "CHANNEL_CLOSING"}
              /\ view'[c] = [view[c] EXCEPT !.state = view'[c].state,
                                            !.peak = view'[c].peak]
<1> DEFINE c == conn[p].coin
           n == conn[p].nonce
<1>1. c \in Coins /\ n \in Nonces
  BY DEF TypeOK, Locals
<1>2. PICK q \in Conns : /\ Prepare(q)
                        /\ c = conn[q].coin
                        /\ n = conn[q].request.nonce
  BY <1>1, OnlyPrepareInserts
<1>3. q = p
  <2>1. conn'[p] # conn[p]
    OBVIOUS
  <2> QED BY <2>1, <1>2, OwnStep
<1> DEFINE seen == VerdictFor(p)
           status == TargetStatus(c, conn[p].request, seen)
<1>4. /\ view[c] \in Views
      /\ conn[p].snap \in Snapshots
      /\ conn[p].again \in Snapshots
      /\ rows'[c][n].status = status
      /\ view' = [view EXCEPT ![c] = seen.view]
  BY <1>2, <1>3, PrepareFacts DEF Facts
<1>5. /\ seen.status \in {"RPC_UNAVAILABLE", "NODE_NOT_SYNCED",
                          "CHAIN_STATE_UNCERTAIN"}
      /\ \E state, peak : seen.view = Observed(view[c], state, peak)
  <2>1. seen = Gate(view[c], conn[p].snap, conn[p].again)
    BY DEF VerdictFor
  <2> HIDE DEF seen
  <2> QED BY <1>4, <2>1, GateBlocksFaults
<1> HIDE DEF seen
<1>6. rows'[c][n].status \notin
        {"SIGNED", "REJECTED_FREEZING", "CHANNEL_CLOSING"}
  BY <1>4, <1>5 DEF TargetStatus, Admitted
<1>7. PICK state, peak : seen.view = Observed(view[c], state, peak)
  BY <1>5
<1>8. view'[c] = Observed(view[c], state, peak)
  BY <1>1, <1>4, <1>7 DEF TypeOK
<1>9. view'[c] = [view[c] EXCEPT !.state = view'[c].state,
                                 !.peak = view'[c].peak]
  <2> DEFINE kept == IF peak = NoPeak THEN view[c].peak ELSE peak
  <2>1. view'[c] = [view[c] EXCEPT !.state = state, !.peak = kept]
    BY <1>8 DEF Observed
  <2> HIDE DEF kept
  <2>2. view'[c].state = state /\ view'[c].peak = kept
    BY <2>1, <1>4 DEF Views
  <2> QED BY <2>1, <2>2
<1> QED BY <1>6, <1>9

\* A failing node can only make the HUB wait.
THEOREM FaultsOnlyBlock == Spec => FaultyNodeOnlyBlocks
<1>1. TypeOK /\ [Next]_vars =>
        [\A p \in Conns :
            LET c == conn[p].coin
                n == conn[p].nonce
            IN /\ conn[p].pc = "gate"
               /\ \/ conn[p].snap.fault # "none"
                  \/ conn[p].again.fault # "none"
               /\ conn'[p].pc = "load"
               /\ rows[c][n].stage = "NONE"
               /\ rows'[c][n].stage = "PREPARED"
               => /\ rows'[c][n].status \notin
                       {"SIGNED", "REJECTED_FREEZING", "CHANNEL_CLOSING"}
                  /\ view'[c] = [view[c] EXCEPT !.state = view'[c].state,
                                                !.peak = view'[c].peak]]_vars
  BY FaultyNext, Zenon
<1> QED BY <1>1, TypeCorrect, PTL DEF Spec, FaultyNodeOnlyBlocks

-----------------------------------------------------------------------------
(* What is signed and what is committed                                    *)

\* Signatures are made and never taken back.
SigsGrow == stateSigs \subseteq stateSigs' /\ resultSigs \subseteq resultSigs'

LEMMA LocalsSignedKept ==
    ASSUME TypeOK, LocalsSigned, SigsGrow, NEW p \in Conns, NEW local,
           Become(p, local), LocalSigned(conn[p])'
    PROVE  LocalsSigned'
<1> SUFFICES ASSUME NEW q \in Conns PROVE LocalSigned(conn[q])'
  BY DEF LocalsSigned
<1>1. CASE q = p
  BY <1>1
<1>2. CASE q # p
  <2>1. conn'[q] = conn[q]
    BY <1>2 DEF Become, TypeOK
  <2> QED BY <2>1 DEF LocalsSigned, LocalSigned, SigsGrow
<1> QED BY <1>1, <1>2

\* A process that is not signing claims no signature.
LEMMA RestingSigned ==
    ASSUME TypeOK, NEW p \in Conns, NEW local, Become(p, local),
           local.pc \notin Signing
    PROVE  LocalSigned(conn[p])'
<1>1. conn'[p] = local
  BY BecomeIs
<1> QED BY <1>1 DEF LocalSigned, Signing

\* While the states stay, they stay bound to their intents.
LEMMA StatesBoundKept ==
    ASSUME HubInv, StatesBound, StoreGrows, UNCHANGED states
    PROVE  StatesBound'
<1> SUFFICES ASSUME NEW c \in Coins, NEW s \in DOMAIN states[c]
             PROVE  /\ states[c][s].hash = intents'[c][s].hash
                    /\ LedgerValid(states[c][s].hash)
  BY DEF StatesBound
<1>1. s \in DOMAIN intents[c]
  <2>1. /\ states[c] \in Seq(States) /\ intents[c] \in Seq(Intents)
        /\ latest[c].seq = Len(states[c])
        /\ Len(intents[c]) \in {latest[c].seq, latest[c].seq + 1}
    BY DEF HubInv, TypeOK, LedgerRecoverable, IntentsFollow
  <2> QED BY <2>1
<1> QED BY <1>1 DEF StatesBound, StoreGrows

\* Nothing is committed by a step that leaves the signed rows and the states
\* alone.
LEMMA CommittedKept ==
    ASSUME CommittedSigned, SigsGrow, UNCHANGED states,
           \A c \in Coins, n \in Nonces :
              rows'[c][n].stage = "SIGNED" => rows'[c][n] = rows[c][n]
    PROVE  CommittedSigned'
BY DEF CommittedSigned, SigsGrow

\* The steps that change neither the tables nor what is signed, after which
\* the process that moved is not signing.
LEMMA PromiseQuiet ==
    ASSUME PromiseInv, HubInv', UNCHANGED tables, UNCHANGED sigs,
           NEW p \in Conns, NEW local, Become(p, local), local.pc \notin Signing
    PROVE  PromiseInv'
<1>1. TypeOK /\ StoreGrows /\ SigsGrow
  BY UnchangedGrows DEF PromiseInv, HubInv, sigs, SigsGrow
<1>2. LocalsSigned'
  BY <1>1, RestingSigned, LocalsSignedKept DEF PromiseInv
<1>3. CommittedSigned'
  BY <1>1, CommittedKept DEF PromiseInv, tables
<1>4. StatesBound'
  BY <1>1, StatesBoundKept DEF PromiseInv, tables
<1> QED BY <1>2, <1>3, <1>4 DEF PromiseInv

LEMMA PromisePrepare ==
    ASSUME PromiseInv, HubInv', NEW p \in Conns, Prepare(p)
    PROVE  PromiseInv'
<1>1. TypeOK
  BY DEF PromiseInv, HubInv
<1>2. PICK row, intent : Inserted(p, row, intent)
  BY PrepareInserts DEF PromiseInv
<1>3. StoreGrows
  BY <1>2, InsertGrows DEF PromiseInv
<1>4. UNCHANGED sigs /\ UNCHANGED states /\ SigsGrow
  BY DEF Prepare, sigs, SigsGrow
<1>5. StatesBound'
  BY <1>3, <1>4, StatesBoundKept DEF PromiseInv
<1>6. LocalsSigned'
  <2> DEFINE local == [Idle EXCEPT !.pc = "load", !.coin = conn[p].coin,
                                   !.nonce = conn[p].request.nonce]
  <2>1. Become(p, local)
    BY DEF Prepare
  <2>2. local.pc \notin Signing
    BY IdleFields DEF Locals, Signing
  <2> HIDE DEF local
  <2> QED BY <1>1, <1>4, <2>1, <2>2, RestingSigned, LocalsSignedKept
          DEF PromiseInv
<1>7. \A c \in Coins, n \in Nonces :
        rows'[c][n].stage = "SIGNED" => rows'[c][n] = rows[c][n]
  BY <1>1, <1>2 DEF Inserted, TypeOK
<1>8. CommittedSigned'
  BY <1>4, <1>7, CommittedKept DEF PromiseInv
<1> QED BY <1>5, <1>6, <1>8 DEF PromiseInv

LEMMA PromiseLoadPrepared ==
    ASSUME PromiseInv, HubInv', NEW p \in Conns, LoadPrepared(p)
    PROVE  PromiseInv'
<1> DEFINE c == conn[p].coin
           row == rows[c][conn[p].nonce]
           local == [ conn[p] EXCEPT !.row = row,
                        !.pc = IF row.status = "SIGNED" THEN "state"
                                                        ELSE "commit" ]
<1>1. TypeOK /\ conn[p] \in Locals
  BY DEF PromiseInv, HubInv, TypeOK
<1>2. UNCHANGED tables /\ StoreGrows /\ SigsGrow
  BY UnchangedGrows DEF LoadPrepared, store, tables, sigs, SigsGrow
<1>3. StatesBound'
  BY <1>2, StatesBoundKept DEF PromiseInv, tables
<1>4. CommittedSigned'
  BY <1>2, CommittedKept DEF PromiseInv, tables
<1>5. CASE Become(p, Rest(p))
  <2>1. Rest(p).pc \notin Signing
    BY DEF Rest, Idle, Signing
  <2>2. LocalsSigned'
    BY <1>1, <1>2, <1>5, <2>1, RestingSigned, LocalsSignedKept DEF PromiseInv
  <2> QED BY <1>3, <1>4, <2>2 DEF PromiseInv
<1>6. CASE /\ resultSigs' = resultSigs \cup {[coin |-> c, result |-> Result(row)]}
           /\ Become(p, local)
  <2>1. conn'[p] = local
    BY <1>1, <1>6, BecomeIs
  <2>2. /\ conn'[p].pc \in {"state", "commit"}
        /\ conn'[p].pc = "state" <=> row.status = "SIGNED"
        /\ conn'[p].row = row
        /\ conn'[p].coin = c
    BY <2>1, <1>1 DEF Locals
  <2>3. LocalSigned(conn[p])'
    BY <2>2, <1>6 DEF LocalSigned
  <2>4. LocalsSigned'
    BY <1>1, <1>2, <1>6, <2>3, LocalsSignedKept DEF PromiseInv
  <2> QED BY <1>3, <1>4, <2>4 DEF PromiseInv
<1> QED BY <1>5, <1>6 DEF LoadPrepared

LEMMA PromiseSignState ==
    ASSUME PromiseInv, HubInv', NEW p \in Conns, SignState(p)
    PROVE  PromiseInv'
<1> DEFINE c == conn[p].coin
           seq == conn[p].row.seq
           ckpt == [prev |-> intents[c][seq].prev, hash |-> intents[c][seq].hash]
           local == [conn[p] EXCEPT !.pc = "package", !.ckpt = ckpt]
           sig == [coin |-> c, seq |-> seq, hash |-> intents[c][seq].hash]
<1>1. TypeOK /\ conn[p] \in Locals
  BY DEF PromiseInv, HubInv, TypeOK
<1>2. /\ UNCHANGED tables /\ UNCHANGED resultSigs /\ StoreGrows /\ SigsGrow
      /\ Become(p, local)
      /\ stateSigs' = stateSigs \cup {sig}
      /\ conn[p].pc = "state"
  BY UnchangedGrows DEF SignState, store, tables, SigsGrow
<1>3. StatesBound'
  BY <1>2, StatesBoundKept DEF PromiseInv, tables
<1>4. CommittedSigned'
  BY <1>2, CommittedKept DEF PromiseInv, tables
<1>5. LocalsSigned'
  <2>1. conn'[p] = local
    BY <1>1, <1>2, BecomeIs
  <2>2. /\ conn'[p].pc = "package"
        /\ conn'[p].row = conn[p].row
        /\ conn'[p].coin = c
        /\ conn'[p].ckpt.hash = intents[c][seq].hash
    BY <2>1, <1>1 DEF Locals
  <2>3. [coin |-> c, result |-> Result(conn[p].row)] \in resultSigs
    BY <1>2 DEF PromiseInv, LocalsSigned, LocalSigned, Signing
  <2>4. LocalSigned(conn[p])'
    BY <1>2, <2>2, <2>3 DEF LocalSigned
  <2> QED BY <1>1, <1>2, <2>4, LocalsSignedKept DEF PromiseInv
<1> QED BY <1>3, <1>4, <1>5 DEF PromiseInv

LEMMA PromiseBuildPackage ==
    ASSUME PromiseInv, HubInv', NEW p \in Conns, BuildPackage(p)
    PROVE  PromiseInv'
<1> DEFINE package == Append(entries[conn[p].coin], conn[p].row.request)
           local == [conn[p] EXCEPT !.pc = "commit", !.package = package]
<1>1. TypeOK /\ conn[p] \in Locals
  BY DEF PromiseInv, HubInv, TypeOK
<1>2. /\ UNCHANGED tables /\ UNCHANGED sigs /\ StoreGrows /\ SigsGrow
      /\ Become(p, local)
      /\ conn[p].pc = "package"
  BY UnchangedGrows DEF BuildPackage, store, tables, sigs, SigsGrow
<1> HIDE DEF package
<1>3. StatesBound'
  BY <1>2, StatesBoundKept DEF PromiseInv, tables
<1>4. CommittedSigned'
  BY <1>2, CommittedKept DEF PromiseInv, tables
<1>5. LocalsSigned'
  <2>1. conn'[p] = local
    BY <1>1, <1>2, BecomeIs
  <2>2. /\ conn'[p].pc = "commit"
        /\ conn'[p].row = conn[p].row
        /\ conn'[p].coin = conn[p].coin
        /\ conn'[p].ckpt = conn[p].ckpt
    BY <2>1, <1>1 DEF Locals
  <2>3. LocalSigned(conn[p])
    BY DEF PromiseInv, LocalsSigned
  <2>4. LocalSigned(conn[p])'
    BY <1>2, <2>2, <2>3 DEF LocalSigned, Signing, sigs
  <2> QED BY <1>1, <1>2, <2>4, LocalsSignedKept DEF PromiseInv
<1> QED BY <1>3, <1>4, <1>5 DEF PromiseInv

\* The row that transaction 2 signs is one whose result the process has
\* signed.
LEMMA SignedRowPromised ==
    ASSUME PromiseInv, NEW p \in Conns, conn[p].pc = "commit", StillPrepared(p),
           SignRow(conn[p].coin, conn[p].nonce), UNCHANGED sigs
    PROVE  \A c \in Coins, n \in Nonces :
              rows'[c][n].stage = "SIGNED" =>
                 [coin |-> c, result |-> Result(rows'[c][n])] \in resultSigs'
<1> SUFFICES ASSUME NEW c \in Coins, NEW n \in Nonces,
                    rows'[c][n].stage = "SIGNED"
             PROVE  [coin |-> c, result |-> Result(rows'[c][n])] \in resultSigs
  BY DEF sigs
<1> DEFINE d == conn[p].coin
           m == conn[p].nonce
<1>1. /\ conn[p].row \in Rows
      /\ rows[d][m] = conn[p].row
      /\ rows'[d][m] = [rows[d][m] EXCEPT !.stage = "SIGNED"]
      /\ <<c, n>> # <<d, m>> => rows'[c][n] = rows[c][n]
  BY SignedRow DEF PromiseInv
<1>2. CASE <<c, n>> = <<d, m>>
  <2>1. [coin |-> d, result |-> Result(conn[p].row)] \in resultSigs
    BY DEF PromiseInv, LocalsSigned, LocalSigned, Signing
  <2>2. Result(rows'[d][m]) = Result(conn[p].row)
    BY <1>1 DEF Result, Rows
  <2> QED BY <1>2, <2>1, <2>2
<1>3. CASE <<c, n>> # <<d, m>>
  BY <1>1, <1>3 DEF PromiseInv, CommittedSigned
<1> QED BY <1>2, <1>3

LEMMA PromiseCommitRefusal ==
    ASSUME PromiseInv, HubInv', NEW p \in Conns, CommitRefusal(p)
    PROVE  PromiseInv'
<1>1. /\ TypeOK
      /\ UNCHANGED <<states, intents>> /\ UNCHANGED sigs /\ SigsGrow
      /\ Become(p, Rest(p))
  BY DEF PromiseInv, HubInv, CommitRefusal, sigs, SigsGrow
<1>2. Rest(p).pc \notin Signing
  BY DEF Rest, Idle, Signing
<1>3. LocalsSigned'
  BY <1>1, <1>2, RestingSigned, LocalsSignedKept DEF PromiseInv
<1>4. StatesBound'
  BY <1>1 DEF PromiseInv, StatesBound
<1>5. CommittedSigned'
  <2>1. \A c \in Coins, n \in Nonces :
          rows'[c][n].stage = "SIGNED" =>
             [coin |-> c, result |-> Result(rows'[c][n])] \in resultSigs'
    BY SignedRowPromised DEF CommitRefusal
  <2> QED BY <1>1, <2>1 DEF PromiseInv, CommittedSigned, sigs
<1> QED BY <1>3, <1>4, <1>5 DEF PromiseInv

LEMMA PromiseCommitState ==
    ASSUME PromiseInv, HubInv', NEW p \in Conns, CommitState(p)
    PROVE  PromiseInv'
<1> DEFINE c == conn[p].coin
           seq == conn[p].row.seq
           ledger == Append(entries[c], conn[p].row.request)
<1>1. /\ HubInv /\ TypeOK
      /\ UNCHANGED sigs /\ SigsGrow
      /\ Become(p, Rest(p))
      /\ conn[p].pc = "commit" /\ conn[p].row.status = "SIGNED"
  BY DEF PromiseInv, HubInv, CommitState, sigs, SigsGrow
<1>2. Rest(p).pc \notin Signing
  BY DEF Rest, Idle, Signing
<1>3. LocalsSigned'
  BY <1>1, <1>2, RestingSigned, LocalsSignedKept DEF PromiseInv
<1>4. /\ c \in Coins
      /\ seq = latest[c].seq + 1
      /\ seq \in DOMAIN intents[c]
      /\ LedgerValid(ledger)
      /\ conn[p].ckpt.hash = ledger
  BY <1>1, CommitFinds
<1>5. /\ \A d \in Coins \ {c} : /\ states'[d] = states[d]
                                /\ intents'[d] = intents[d]
      /\ states'[c] = Append(states[c],
                             [hash |-> ledger, package |-> ledger])
      /\ \A s \in DOMAIN intents[c] : intents'[c][s].hash = intents[c][s].hash
  BY <1>1, CommitWrites
<1>6. /\ states[c] \in Seq(States) /\ intents[c] \in Seq(Intents)
      /\ Len(states[c]) = latest[c].seq
      /\ Len(intents[c]) \in {latest[c].seq, latest[c].seq + 1}
  BY <1>1, <1>4 DEF HubInv, TypeOK, LedgerRecoverable, IntentsFollow
<1>7. intents[c][seq].hash = ledger
  <2>1. LocalBound(conn[p])
    BY <1>1 DEF HubInv, LocalsBound
  <2> QED BY <1>1, <1>4, <2>1 DEF LocalBound
<1> HIDE DEF ledger
<1>8. /\ DOMAIN states'[c] = DOMAIN states[c] \cup {seq}
      /\ states'[c][seq].hash = ledger
      /\ \A s \in DOMAIN states[c] : /\ states'[c][s] = states[c][s]
                                     /\ s \in DOMAIN intents[c]
  <2> DEFINE new == [hash |-> ledger, package |-> ledger]
  <2>1. new \in States
    <3>1. ledger \in Ledgers
      BY <1>1, <1>4 DEF TypeOK, Locals, Checkpoints
    <3> QED BY <3>1 DEF States
  <2> HIDE DEF new
  <2>2. /\ Len(Append(states[c], new)) = Len(states[c]) + 1
        /\ \A i \in 1..Len(states[c]) : Append(states[c], new)[i] = states[c][i]
        /\ Append(states[c], new)[Len(states[c]) + 1] = new
        /\ Append(states[c], new) \in Seq(States)
    BY <1>6, <2>1, AppendProperties
  <2>3. states'[c] = Append(states[c], new) /\ new.hash = ledger
    BY <1>5 DEF new
  <2>4. /\ DOMAIN states[c] = 1..Len(states[c])
        /\ DOMAIN states'[c] = 1..Len(states'[c])
        /\ DOMAIN intents[c] = 1..Len(intents[c])
        /\ Len(states[c]) \in Nat /\ Len(intents[c]) \in Nat
    BY <1>6, <2>2, <2>3
  <2>5. Len(states'[c]) = seq /\ seq = Len(states[c]) + 1
    BY <1>4, <1>6, <2>2, <2>3
  <2>6. DOMAIN states'[c] = DOMAIN states[c] \cup {seq}
    BY <2>4, <2>5
  <2> QED BY <1>6, <2>2, <2>3, <2>4, <2>5, <2>6
<1>9. StatesBound'
  <2> SUFFICES ASSUME NEW d \in Coins, NEW s \in DOMAIN states'[d]
               PROVE  /\ states'[d][s].hash = intents'[d][s].hash
                      /\ LedgerValid(states'[d][s].hash)
    BY DEF StatesBound
  <2>1. CASE d # c
    BY <1>5, <2>1 DEF PromiseInv, StatesBound
  <2>2. CASE d = c /\ s = seq
    BY <1>4, <1>5, <1>7, <1>8, <2>2
  <2>3. CASE d = c /\ s \in DOMAIN states[c]
    BY <1>4, <1>5, <1>8, <2>3 DEF PromiseInv, StatesBound
  <2> QED BY <1>8, <2>1, <2>2, <2>3
<1>10. CommittedSigned'
  <2>1. \A d \in Coins, n \in Nonces :
          rows'[d][n].stage = "SIGNED" =>
             [coin |-> d, result |-> Result(rows'[d][n])] \in resultSigs'
    BY SignedRowPromised DEF CommitState
  <2>2. [coin |-> c, seq |-> seq, hash |-> ledger] \in stateSigs
    BY <1>1, <1>4 DEF PromiseInv, LocalsSigned, LocalSigned
  <2>3. ASSUME NEW d \in Coins, NEW s \in DOMAIN states'[d]
        PROVE  [coin |-> d, seq |-> s, hash |-> states'[d][s].hash] \in stateSigs
    <3>1. CASE d # c
      BY <1>5, <3>1 DEF PromiseInv, CommittedSigned
    <3>2. CASE d = c /\ s = seq
      BY <1>8, <2>2, <3>2
    <3>3. CASE d = c /\ s \in DOMAIN states[c]
      BY <1>4, <1>8, <3>3 DEF PromiseInv, CommittedSigned
    <3> QED BY <1>8, <3>1, <3>2, <3>3
  <2> QED BY <1>1, <2>1, <2>3 DEF CommittedSigned, sigs
<1> QED BY <1>3, <1>9, <1>10 DEF PromiseInv

LEMMA PromiseInit == Init => PromiseInv
<1> SUFFICES ASSUME Init PROVE PromiseInv
  OBVIOUS
<1>1. HubInv
  BY InvInit
<1>2. \A c \in Coins : /\ states[c] = <<>>
                       /\ \A n \in Nonces : rows[c][n].stage = "NONE"
  BY DEF Init, NoRow
<1>3. StatesBound /\ CommittedSigned
  BY <1>2 DEF StatesBound, CommittedSigned
<1>4. LocalsSigned
  BY DEF Init, LocalsSigned, LocalSigned, Idle, Signing
<1> QED BY <1>1, <1>3, <1>4 DEF PromiseInv

LEMMA PromiseNext ==
    ASSUME PromiseInv, [Next]_vars
    PROVE  PromiseInv'
<1>1. HubInv' /\ TypeOK
  BY InvNext DEF PromiseInv, HubInv
<1>2. ASSUME NEW p \in Conns, Step(p) \/ Begin(p) \/ Crash(p) \/ Restart(p)
      PROVE  PromiseInv'
  <2>1. CASE \/ Register(p) \/ Retry(p) \/ Evaluate(p) \/ CommitLate(p)
             \/ FinalizeFails(p) \/ Busy(p)
             \/ RecoverNext(p) \/ Begin(p) \/ Crash(p) \/ Restart(p)
             \/ ReserveFails(p)
    <3>1. Quiet(p)
      BY <1>1, <2>1, QuietSteps
    <3> QED BY <1>1, <3>1, PromiseQuiet DEF Quiet
  <2>2. CASE Prepare(p)
    BY <1>1, <2>2, PromisePrepare
  <2>3. CASE LoadPrepared(p) \/ SignState(p) \/ BuildPackage(p)
    BY <1>1, <2>3, PromiseLoadPrepared, PromiseSignState, PromiseBuildPackage
  <2>4. CASE CommitRefusal(p) \/ CommitState(p)
    BY <1>1, <2>4, PromiseCommitRefusal, PromiseCommitState
  <2> QED BY <1>2, <2>1, <2>2, <2>3, <2>4 DEF Step
<1>3. CASE ChainStep \/ UNCHANGED vars
  <2>1. UNCHANGED <<hubVars, tables>>
    BY <1>3 DEF ChainStep, vars, hubVars, tables
  <2>2. StatesBound'
    BY <2>1, UnchangedGrows, StatesBoundKept DEF PromiseInv, hubVars
  <2>3. LocalsSigned' /\ CommittedSigned'
    BY <2>1 DEF PromiseInv, LocalsSigned, LocalSigned, CommittedSigned, hubVars
  <2> QED BY <1>1, <2>2, <2>3 DEF PromiseInv
<1> QED BY <1>2, <1>3 DEF Next

\* Nothing is committed, and no process goes on with a reservation, before
\* what the HUB says of it is signed; and what it signed is what the tables
\* hold.
THEOREM PromiseInvariant == Spec => []PromiseInv
BY PromiseInit, PromiseNext, PTL DEF Spec

-----------------------------------------------------------------------------
(* What those who hold the HUB's signatures can rely on                    *)

\* A checkpoint commits to as many entries as its sequence says, and to those
\* of the channel's ledger as far as that goes.
LEMMA IntentEntries ==
    ASSUME PromiseInv, NEW c \in Coins, NEW q \in DOMAIN intents[c]
    PROVE  LET hash == intents[c][q].hash
           IN /\ hash \in Ledgers
              /\ q \in Nat \ {0}
              /\ Len(hash) = q
              /\ q <= Len(entries[c]) + 1
              /\ \A i \in 1..q : i <= Len(entries[c]) => hash[i] = entries[c][i]
<1> DEFINE ledger == entries[c]
           intent == intents[c][q]
<1>1. /\ intents[c] \in Seq(Intents) /\ ledger \in Ledgers
      /\ states[c] \in Seq(States)
      /\ latest[c].seq = Len(states[c]) /\ Len(ledger) = Len(states[c])
      /\ Len(intents[c]) \in {latest[c].seq, latest[c].seq + 1}
  BY DEF PromiseInv, HubInv, TypeOK, LedgerRecoverable, IntentsFollow
<1>2. /\ q \in Nat \ {0} /\ q <= Len(ledger) + 1
      /\ intent \in Intents
      /\ Len(ledger) \in Nat
      /\ q <= Len(ledger) => q \in DOMAIN states[c]
  BY <1>1 DEF Ledgers
<1>3. intent.hash \in Ledgers /\ intent.prev \in Ledgers /\ intent.nonce \in Nonces
  BY <1>2 DEF Intents
<1>4. CASE q <= Len(ledger)
  <2>1. intent.hash = SubSeq(ledger, 1, q)
    BY <1>2, <1>4 DEF PromiseInv, StatesBound, HubInv, LedgerRecoverable
  <2> HIDE DEF ledger, intent
  <2>2. /\ Len(SubSeq(ledger, 1, q)) = q
        /\ \A i \in 1..q : SubSeq(ledger, 1, q)[i] = ledger[i]
    BY <1>1, <1>2, <1>4 DEF Ledgers
  <2>3. Len(intent.hash) = q /\ \A i \in 1..q : intent.hash[i] = ledger[i]
    BY <2>1, <2>2
  <2> USE DEF ledger, intent
  <2> QED BY <1>2, <1>3, <2>3
<1>5. CASE q = Len(ledger) + 1
  <2> DEFINE n == intent.nonce
             request == rows[c][n].request
  <2>1. intent.prev = ledger
    BY <1>1, <1>5 DEF PromiseInv, HubInv, IntentsFollow
  <2>2. Taken(c, n) /\ rows[c][n].status = "SIGNED" /\ rows[c][n].seq = q
    BY <1>3 DEF PromiseInv, HubInv, IntentsBound
  <2>3. intent.hash = Append(ledger, request)
    <3>1. n \in Nonces /\ RowsBound
      BY <1>3 DEF PromiseInv, HubInv
    <3> HIDE DEF n
    <3>2. intents[c][rows[c][n].seq].hash =
            Append(intents[c][rows[c][n].seq].prev, rows[c][n].request)
      BY <2>2, <3>1, RowBoundAt
    <3> QED BY <2>1, <2>2, <3>2
  <2>4. request \in Requests
    <3>1. rows \in [Coins -> [Nonces -> Rows]] /\ n \in Nonces
      BY <1>3 DEF PromiseInv, HubInv, TypeOK
    <3> HIDE DEF n
    <3>2. rows[c][n] \in Rows
      BY <3>1
    <3> QED BY <3>2 DEF Rows
  <2> HIDE DEF ledger, intent, request
  <2>5. /\ Len(Append(ledger, request)) = q
        /\ \A i \in 1..Len(ledger) : Append(ledger, request)[i] = ledger[i]
    BY <1>1, <1>5, <2>4, AppendProperties DEF Ledgers
  <2>6. Len(intent.hash) = q
        /\ \A i \in 1..Len(ledger) : intent.hash[i] = ledger[i]
    BY <2>3, <2>5
  <2>7. \A i \in 1..q : i <= Len(ledger) => intent.hash[i] = ledger[i]
    BY <1>2, <2>6
  <2> USE DEF ledger, intent
  <2> QED BY <1>2, <1>3, <2>6, <2>7
<1> QED BY <1>2, <1>4, <1>5

\* Of two checkpoints of a channel the earlier is a prefix of the later.
LEMMA IntentPrefix ==
    ASSUME PromiseInv, NEW c \in Coins, NEW q \in DOMAIN intents[c],
           NEW r \in DOMAIN intents[c], q <= r
    PROVE  /\ \A i \in 1..q : intents[c][q].hash[i] = intents[c][r].hash[i]
           /\ IsPrefix(intents[c][q].hash, intents[c][r].hash)
<1> DEFINE s == intents[c][q].hash
           t == intents[c][r].hash
           ledger == entries[c]
<1>1. /\ s \in Seq(Requests) /\ Len(s) = q /\ q \in Nat \ {0}
      /\ t \in Seq(Requests) /\ Len(t) = r /\ r \in Nat \ {0}
      /\ q <= Len(ledger) + 1
      /\ r <= Len(ledger) + 1
      /\ \A i \in 1..q : i <= Len(ledger) => s[i] = ledger[i]
      /\ \A i \in 1..r : i <= Len(ledger) => t[i] = ledger[i]
      /\ Len(ledger) \in Nat
  <2>1. Len(ledger) \in Nat
    BY DEF PromiseInv, HubInv, TypeOK, Ledgers
  <2> QED BY <2>1, IntentEntries DEF Ledgers
<1>2. q = r => s = t
  OBVIOUS
<1> HIDE DEF s, t, ledger
<1>3. \A i \in 1..q : s[i] = t[i]
  BY <1>1, <1>2
<1>4. SubSeq(s, 1, Len(s)) = SubSeq(t, 1, Len(s))
  BY <1>1, <1>3
<1>5. IsPrefix(s, t)
  BY <1>1, <1>4 DEF IsPrefix
<1> QED BY <1>3, <1>5 DEF s, t

\* Of any two states the HUB ever signed for a channel, committed or not, the
\* earlier is a prefix of the later: all RecoveryPackages it ever gave out are
\* snapshots of one growing ledger.
THEOREM SignedAreOneLedger == Spec => []SignedStatesAreOneLedger
<1>1. PromiseInv => SignedStatesAreOneLedger
  <2> SUFFICES ASSUME PromiseInv, NEW s \in stateSigs, NEW t \in stateSigs,
                      s.coin = t.coin, s.seq <= t.seq
               PROVE  Len(s.hash) = s.seq /\ IsPrefix(s.hash, t.hash)
    BY DEF SignedStatesAreOneLedger
  <2>1. s.coin \in Coins
    BY DEF PromiseInv, HubInv, TypeOK
  <2>2. /\ s.seq \in DOMAIN intents[s.coin]
        /\ s.hash = intents[s.coin][s.seq].hash
        /\ t.seq \in DOMAIN intents[s.coin]
        /\ t.hash = intents[s.coin][t.seq].hash
    BY DEF PromiseInv, HubInv, StateSigsBound
  <2> QED BY <2>1, <2>2, IntentEntries, IntentPrefix
<1> QED BY <1>1, PromiseInvariant, PTL

\* The checkpoint of an accepted reservation ends with its entry.
LEMMA AcceptedEntry ==
    ASSUME PromiseInv, NEW c \in Coins, NEW n \in Nonces, Taken(c, n),
           rows[c][n].status = "SIGNED"
    PROVE  LET row == rows[c][n]
           IN /\ row.seq \in DOMAIN intents[c]
              /\ row.seq \in Nat \ {0}
              /\ intents[c][row.seq].hash[row.seq] = row.request
              /\ row.request.nonce = n
<1> DEFINE row == rows[c][n]
           intent == intents[c][row.seq]
<1>1. /\ row.seq \in DOMAIN intents[c]
      /\ intent.hash = Append(intent.prev, row.request)
  BY RowBoundAt DEF PromiseInv, HubInv
<1>2. Len(intent.hash) = row.seq /\ row.seq \in Nat \ {0}
  BY <1>1, IntentEntries
<1>3. row.request.nonce = n
  BY DEF PromiseInv, HubInv, RowsBound
<1>4. intent.prev \in Seq(Requests) /\ row.request \in Requests
  <2>1. intents[c] \in Seq(Intents) /\ row \in Rows
    BY DEF PromiseInv, HubInv, TypeOK
  <2> HIDE DEF row
  <2>2. intent \in Intents
    BY <1>1, <2>1
  <2> QED BY <2>1, <2>2 DEF Intents, Rows, Ledgers
<1> HIDE DEF row, intent
<1>5. /\ Len(Append(intent.prev, row.request)) = Len(intent.prev) + 1
      /\ Append(intent.prev, row.request)[Len(intent.prev) + 1] = row.request
  BY <1>4, AppendProperties
<1>6. intent.hash[row.seq] = row.request
  BY <1>1, <1>2, <1>5
<1> QED BY <1>1, <1>2, <1>3, <1>6 DEF row, intent

\* A checkpoint of that sequence or a later one pays the result.
LEMMA LaterPays ==
    ASSUME PromiseInv, NEW c \in Coins, NEW n \in Nonces, Taken(c, n),
           rows[c][n].status = "SIGNED", NEW q \in DOMAIN intents[c],
           rows[c][n].seq <= q
    PROVE  Pays(intents[c][q].hash, Result(rows[c][n]))
<1> DEFINE row == rows[c][n]
           result == Result(row)
           hash == intents[c][q].hash
<1>1. /\ row.seq \in DOMAIN intents[c]
      /\ row.seq \in Nat \ {0}
      /\ intents[c][row.seq].hash[row.seq] = row.request
      /\ row.request.nonce = n
  BY AcceptedEntry
<1>2. hash[row.seq] = row.request
  BY <1>1, IntentPrefix
<1>3. hash \in Seq(Requests) /\ Len(hash) = q /\ q \in Nat
  BY IntentEntries DEF Ledgers
<1>4. /\ result.seq = row.seq
      /\ result.nonce = row.request.nonce
      /\ result.amount = row.request.amount
  BY DEF Result
<1> HIDE DEF hash, row, result
<1>5. row.seq \in DOMAIN hash
  BY <1>1, <1>3 DEF row
<1>6. Pays(hash, result)
  BY <1>2, <1>4, <1>5 DEF Pays
<1> QED BY <1>6 DEF hash, row, result

\* A signed acceptance is kept by every later state, and a completed
\* reservation is answered with signatures only.
THEOREM AcceptedAlwaysPaid == Spec => []AcceptedIsPaid
<1>1. PromiseInv => AcceptedIsPaid
  <2> SUFFICES ASSUME PromiseInv PROVE AcceptedIsPaid
    OBVIOUS
  <2>1. ASSUME NEW t \in resultSigs, NEW s \in stateSigs,
               t.result.status = "SIGNED", s.coin = t.coin,
               t.result.seq <= s.seq
        PROVE  Pays(s.hash, t.result)
    <3> DEFINE c == t.coin
               n == t.result.nonce
    <3>1. c \in Coins /\ n \in Nonces
      BY DEF PromiseInv, HubInv, TypeOK, Results
    <3>2. Taken(c, n) /\ t.result = Result(rows[c][n])
      BY DEF PromiseInv, HubInv, ResultSigsBound
    <3>3. s.seq \in DOMAIN intents[c] /\ s.hash = intents[c][s.seq].hash
      BY <2>1 DEF PromiseInv, HubInv, StateSigsBound
    <3>4. rows[c][n].status = "SIGNED" /\ rows[c][n].seq <= s.seq
      BY <2>1, <3>2 DEF Result
    <3> QED BY <3>1, <3>2, <3>3, <3>4, LaterPays
  <2>2. ASSUME NEW c \in Coins, NEW n \in Nonces, rows[c][n].stage = "SIGNED"
        PROVE  LET outcome == Outcome(c, n)
                   result == outcome.result
                   package == outcome.package
               IN /\ [coin |-> c, result |-> result] \in resultSigs
                  /\ result.status = "SIGNED" =>
                       /\ LedgerValid(package)
                       /\ Pays(package, result)
                       /\ [coin |-> c, seq |-> result.seq, hash |-> package]
                             \in stateSigs
    <3> DEFINE row == rows[c][n]
               outcome == Outcome(c, n)
               package == states[c][row.seq].package
    <3>1. outcome.result = Result(row)
      BY DEF Outcome
    <3>2. [coin |-> c, result |-> Result(row)] \in resultSigs
      BY <2>2 DEF PromiseInv, CommittedSigned
    <3>3. ASSUME row.status = "SIGNED"
          PROVE  /\ outcome.package = package
                 /\ LedgerValid(package)
                 /\ Pays(package, Result(row))
                 /\ [coin |-> c, seq |-> row.seq, hash |-> package] \in stateSigs
      <4>1. outcome.package = package
        BY <3>3 DEF Outcome
      <4>2. Taken(c, n)
        BY <2>2 DEF Taken
      <4>3. row.seq \in DOMAIN intents[c] /\ intents[c][row.seq].stage = "SIGNED"
        BY <2>2, <3>3, <4>2, RowBoundAt DEF PromiseInv, HubInv
      <4>4. row.seq # latest[c].seq + 1
        BY <4>3 DEF PromiseInv, HubInv, IntentsFollow
      <4>5. row.seq \in Nat \ {0} /\ row.seq <= Len(entries[c]) + 1
        BY <4>3, IntentEntries
      <4>6. row.seq \in DOMAIN states[c]
        <5>1. /\ states[c] \in Seq(States)
              /\ latest[c].seq = Len(states[c]) /\ Len(entries[c]) = Len(states[c])
          BY DEF PromiseInv, HubInv, TypeOK, LedgerRecoverable
        <5> QED BY <4>4, <4>5, <5>1
      <4>7. package = states[c][row.seq].hash
        BY <4>6 DEF PromiseInv, HubInv, LedgerRecoverable
      <4>8. /\ package = intents[c][row.seq].hash
            /\ LedgerValid(package)
        BY <4>6, <4>7 DEF PromiseInv, StatesBound
      <4>9. Pays(package, Result(row))
        BY <3>3, <4>2, <4>3, <4>5, <4>8, LaterPays
      <4>10. [coin |-> c, seq |-> row.seq, hash |-> package] \in stateSigs
        BY <4>6, <4>7 DEF PromiseInv, CommittedSigned
      <4> QED BY <4>1, <4>8, <4>9, <4>10
    <3>4. Result(row).status = row.status /\ Result(row).seq = row.seq
      BY DEF Result
    <3> HIDE DEF outcome, row
    <3>5. QED
      BY <3>1, <3>2, <3>3, <3>4 DEF outcome, row
  <2> QED BY <2>1, <2>2 DEF AcceptedIsPaid
<1> QED BY <1>1, PromiseInvariant, PTL

-----------------------------------------------------------------------------
(* Without a reorganisation                                                *)

\* The steps that write the tables.
LEMMA TableSteps ==
    ASSUME TypeOK, [Next]_vars
    PROVE  \/ UNCHANGED tables
           \/ \E p \in Conns : CommitRefusal(p) \/ CommitState(p)
           \/ \E p \in Conns : Prepare(p)
<1>1. ASSUME NEW p \in Conns, Step(p) \/ Begin(p) \/ Crash(p) \/ Restart(p)
      PROVE  \/ UNCHANGED tables
             \/ CommitRefusal(p) \/ CommitState(p)
             \/ Prepare(p)
  <2>1. CASE \/ Register(p) \/ Retry(p) \/ Evaluate(p) \/ CommitLate(p)
             \/ FinalizeFails(p) \/ Busy(p)
             \/ RecoverNext(p) \/ Begin(p) \/ Crash(p) \/ Restart(p)
             \/ ReserveFails(p)
    BY <2>1, QuietSteps DEF Quiet
  <2>2. CASE LoadPrepared(p) \/ SignState(p) \/ BuildPackage(p)
    BY <2>2 DEF LoadPrepared, SignState, BuildPackage, store, tables
  <2> QED BY <1>1, <2>1, <2>2 DEF Step
<1>2. CASE ChainStep \/ UNCHANGED vars
  BY <1>2 DEF ChainStep, vars, hubVars, tables
<1> QED BY <1>1, <1>2 DEF Next

\* Every step keeps what the store holds.
LEMMA NextGrows ==
    ASSUME HubInv, [Next]_vars
    PROVE  StoreGrows
<1>1. CASE UNCHANGED tables
  BY <1>1, UnchangedGrows
<1>2. ASSUME NEW p \in Conns, CommitRefusal(p)
      PROVE  StoreGrows
  <2>1. /\ rows'[conn[p].coin][conn[p].nonce] =
             [rows[conn[p].coin][conn[p].nonce] EXCEPT !.stage = "SIGNED"]
        /\ \A d \in Coins, m \in Nonces :
             <<d, m>> # <<conn[p].coin, conn[p].nonce>> =>
                rows'[d][m] = rows[d][m]
    BY <1>2, SignedRow DEF CommitRefusal
  <2>2. UNCHANGED intents
    BY <1>2 DEF CommitRefusal
  <2> QED BY <2>1, <2>2 DEF StoreGrows
<1>3. ASSUME NEW p \in Conns, CommitState(p)
      PROVE  StoreGrows
  BY <1>3, CommitGrows
<1>4. ASSUME NEW p \in Conns, Prepare(p)
      PROVE  StoreGrows
  <2>1. PICK row, intent : Inserted(p, row, intent)
    BY <1>4, PrepareInserts
  <2> QED BY <2>1, InsertGrows
<1> QED BY <1>1, <1>2, <1>3, <1>4, TableSteps DEF HubInv

\* A reservation begins with transaction 1.
LEMMA NewlyTaken ==
    ASSUME HubInv, [Next]_vars, NEW c \in Coins, NEW n \in Nonces,
           ~Taken(c, n), Taken(c, n)'
    PROVE  rows[c][n].stage = "NONE" /\ rows'[c][n].stage = "PREPARED"
<1>1. rows'[c][n] # rows[c][n] /\ rows[c][n].stage = "NONE"
  BY DEF Taken
<1>2. ~UNCHANGED tables
  BY <1>1 DEF tables
<1>3. ASSUME NEW p \in Conns, CommitRefusal(p) \/ CommitState(p)
      PROVE  FALSE
  <2>1. /\ \A d \in Coins, m \in Nonces :
             <<d, m>> # <<conn[p].coin, conn[p].nonce>> =>
                rows'[d][m] = rows[d][m]
        /\ rows[conn[p].coin][conn[p].nonce].stage = "PREPARED"
    BY <1>3, SignedRow DEF CommitRefusal, CommitState
  <2> QED BY <1>1, <2>1
<1>4. ASSUME NEW p \in Conns, Prepare(p)
      PROVE  rows'[c][n].stage = "PREPARED"
  <2>1. PICK row, intent : Inserted(p, row, intent)
    BY <1>4, PrepareInserts
  <2>2. /\ conn[p].coin \in Coins /\ conn[p].nonce \in Nonces
        /\ rows' = [rows EXCEPT ![conn[p].coin][conn[p].nonce] = row]
        /\ row.stage = "PREPARED"
        /\ rows \in [Coins -> [Nonces -> Rows]]
    BY <2>1 DEF Inserted, HubInv, TypeOK
  <2>3. rows'[c][n] = IF c = conn[p].coin /\ n = conn[p].nonce
                      THEN row ELSE rows[c][n]
    BY <2>2
  <2> QED BY <1>1, <2>2, <2>3
<1> QED BY <1>1, <1>2, <1>3, <1>4, TableSteps DEF HubInv

\* Whoever the chain belongs to, its branch number only grows, and while it
\* stays the chain and what was born only grow.
LEMMA ChainGrows ==
    ASSUME ChainTypeOK, ChainNext \/ UNCHANGED chainVars, branch' = 0
    PROVE  /\ branch = 0
           /\ Height <= Height'
           /\ \A c \in Coins : born[c] > 0 => born'[c] = born[c]
<1>1. /\ branch \in Nat /\ Height \in Nat
      /\ blocks \in Seq(0..MaxReorgs)
      /\ born \in [Coins -> 0..MaxHeight]
  BY ChainAssumption DEF ChainTypeOK, Height
<1>2. CASE UNCHANGED chainVars
  BY <1>1, <1>2 DEF chainVars, Height
<1>3. ASSUME NEW created, NEW closed, Grow(created, closed)
      PROVE  /\ branch = 0
             /\ Height <= Height'
             /\ \A c \in Coins : born[c] > 0 => born'[c] = born[c]
  <2>1. Height' = Height + 1
    BY <1>1, <1>3, ChainAssumption DEF Grow, ChainTypeOK, Height
  <2> QED BY <1>1, <1>3, <2>1 DEF Grow
<1>4. ASSUME NEW height \in 0..MaxHeight, Reorganise(height)
      PROVE  FALSE
  BY <1>1, <1>4 DEF Reorganise
<1> QED BY <1>2, <1>3, <1>4 DEF ChainNext

\* A row whose heights belong together is left so by the gate, if the coin is
\* seen where it was.
KeepsBirth(new, old) == new.birth = old.birth /\ TermsBound(new)

LEMMA GateKeepsTerms ==
    ASSUME NEW old \in Views, NEW initial \in Snapshots,
           NEW committed \in Snapshots, TermsBound(old),
           committed.coin.birth = old.birth
    PROVE  KeepsBirth(Gate(old, initial, committed).view, old)
<1> DEFINE Keeps(verdict) == KeepsBirth(verdict.view, old)
<1>1. /\ old.birth \in Nat /\ old.cutoff \in Nat /\ old.close \in Nat
      /\ old.activated \in BOOLEAN
      /\ AcceptanceBlocks \in Nat /\ CloseDelay \in Nat
  BY TermsAssumption, ChainAssumption DEF Views, BlockHeights, CloseDelay
<1>2. ASSUME NEW state, NEW peak, NEW status
      PROVE  Keeps(Verdict(Observed(old, state, peak), status))
  <2> DEFINE new == Observed(old, state, peak)
  <2>1. /\ new.birth = old.birth /\ new.cutoff = old.cutoff
        /\ new.close = old.close /\ new.activated = old.activated
    BY DEF Observed, Views
  <2> HIDE DEF new
  <2>2. KeepsBirth(new, old)
    BY <2>1 DEF KeepsBirth, TermsBound
  <2>3. Verdict(new, status).view = new
    BY VerdictFields
  <2> QED BY <2>2, <2>3 DEF new
<1>3. Keeps(FailedVerdict(old, initial, committed))
  <2> HIDE DEF Keeps
  <2> QED BY <1>2 DEF FailedVerdict
<1>4. Keeps(MissingVerdict(old, committed.peak))
  <2> HIDE DEF Keeps
  <2> QED BY <1>2 DEF MissingVerdict
<1>5. Keeps(SpentVerdict(old, committed))
  <2> DEFINE birth == committed.coin.birth
             seen == Observed(old, "CLOSING", committed.peak)
             new == [seen EXCEPT !.birth = birth, !.close = birth + CloseDelay]
  <2>1. /\ DOMAIN seen = {"birth", "cutoff", "close", "state", "activated",
                          "peak"}
        /\ seen.activated = old.activated
        /\ seen.cutoff = old.cutoff
    BY DEF Observed, Views
  <2> HIDE DEF seen
  <2>2. /\ new.activated = old.activated /\ new.cutoff = old.cutoff
        /\ new.birth = old.birth /\ new.close = old.birth + CloseDelay
    BY <2>1
  <2>3. SpentVerdict(old, committed) = Verdict(new, "CHANNEL_CLOSING")
    BY DEF SpentVerdict, seen
  <2> HIDE DEF new
  <2>4. KeepsBirth(new, old)
    BY <2>2 DEF KeepsBirth, TermsBound
  <2> QED BY <2>3, <2>4, VerdictFields
<1>6. Keeps(ConfirmedVerdict(old, initial, committed))
  <2> DEFINE birth == committed.coin.birth
             verdict == ConfirmedVerdict(old, initial, committed)
             new == verdict.view
  <2>1. /\ new.birth = birth
        /\ new.cutoff = EffectiveCutoff(old, birth)
        /\ new.close = birth + CloseDelay
        /\ old.activated => new.activated
    BY DEF ConfirmedVerdict, Verdict
  <2> HIDE DEF new
  <2>2. /\ EffectiveCutoff(old, birth) <= birth + AcceptanceBlocks
        /\ ~old.activated => EffectiveCutoff(old, birth) = birth + AcceptanceBlocks
    BY <1>1 DEF EffectiveCutoff
  <2>3. TermsBound(new)
    <3>1. CASE old.activated
      BY <2>1, <2>2, <3>1 DEF TermsBound
    <3>2. CASE ~old.activated
      BY <1>1, <2>1, <2>2, <3>2 DEF TermsBound
    <3> QED BY <3>1, <3>2
  <2> QED BY <2>1, <2>3 DEF KeepsBirth, new
<1>7. committed.coin.kind \in {"Missing", "Confirmed", "Spent"}
  BY DEF Snapshots, FundingCoinStates
<1> HIDE DEF Keeps
<1>8. Keeps(Gate(old, initial, committed))
  BY <1>2, <1>3, <1>4, <1>5, <1>6, <1>7 DEF Gate, Blocked
<1> QED BY <1>8 DEF Keeps

\* A reservation refused because the channel is frozen leaves it activated,
\* with the cutoff reached.
LEMMA GateFreezes ==
    ASSUME NEW old \in Views, NEW initial \in Snapshots,
           NEW committed \in Snapshots,
           Gate(old, initial, committed).status = "REJECTED_FREEZING"
    PROVE  LET new == Gate(old, initial, committed).view
           IN /\ committed.fault \notin {"rpc", "invalid", "no_peak"}
              /\ new.activated
              /\ committed.peak.height >= new.cutoff
<1>1. /\ FailedVerdict(old, initial, committed).status # "REJECTED_FREEZING"
      /\ MissingVerdict(old, committed.peak).status # "REJECTED_FREEZING"
      /\ SpentVerdict(old, committed).status # "REJECTED_FREEZING"
  BY DEF FailedVerdict, MissingVerdict, SpentVerdict, Verdict
<1>2. \A new :
        /\ Verdict(new, "CHAIN_STATE_UNCERTAIN").status # "REJECTED_FREEZING"
        /\ Verdict(new, "NODE_NOT_SYNCED").status # "REJECTED_FREEZING"
  BY DEF Verdict
<1>3. committed.fault \in FaultsOf(initial, committed)
  BY DEF FaultsOf
<1>4. /\ committed.fault \notin {"rpc", "invalid", "no_peak"}
      /\ Gate(old, initial, committed) =
           CASE committed.coin.kind = "Missing" ->
                  MissingVerdict(old, committed.peak)
             [] committed.coin.kind = "Spent" -> SpentVerdict(old, committed)
             [] committed.coin.kind = "Confirmed" ->
                  ConfirmedVerdict(old, initial, committed)
  BY <1>1, <1>2, <1>3 DEF Gate, Blocked
<1>5. committed.coin.kind \in {"Missing", "Confirmed", "Spent"}
  BY DEF Snapshots, FundingCoinStates
<1>6. /\ Gate(old, initial, committed) = ConfirmedVerdict(old, initial, committed)
      /\ ConfirmedVerdict(old, initial, committed).status = "REJECTED_FREEZING"
  BY <1>1, <1>4, <1>5
<1>7. /\ ConfirmedVerdict(old, initial, committed).view.activated
      /\ committed.peak.height >=
           ConfirmedVerdict(old, initial, committed).view.cutoff
  BY <1>6 DEF ConfirmedVerdict, Verdict
<1> QED BY <1>4, <1>6, <1>7

\* Every snapshot that was taken says when the coin was born.
LEMMA SnapshotBirth ==
    ASSUME NEW c \in Coins, NEW snap \in SnapshotsNow(c)
    PROVE  snap.coin = FundingCoin(c) /\ snap.coin.birth = born[c]
BY DEF SnapshotsNow, FundingCoin

LEMMA HeightsNext ==
    ASSUME HubInv, [Next]_vars, branch' = 0, HeightsKept, RegistersKept,
           GatesStraight
    PROVE  HeightsKept'
<1> TypeOK
  BY DEF HubInv
<1>1. \A c \in Coins : born[c] > 0 => born'[c] = born[c]
  BY ChainSteps, ChainGrows DEF TypeOK
<1> SUFFICES ASSUME NEW c \in registered'
             PROVE  /\ born'[c] > 0 /\ view'[c].birth = born'[c]
                    /\ TermsBound(view'[c])
  BY DEF HeightsKept, TermsBound
<1>2. registered \subseteq Coins
  BY DEF TypeOK
<1>3. CASE c \in registered /\ view'[c] = view[c]
  BY <1>1, <1>2, <1>3 DEF HeightsKept
<1>4. CASE UNCHANGED <<registered, view>>
  BY <1>3, <1>4
<1>5. ASSUME NEW p \in Conns, Register(p)
      PROVE  /\ born'[c] > 0 /\ view'[c].birth = born'[c]
             /\ TermsBound(view'[c])
  <2> DEFINE d == conn[p].coin
             birth == conn[p].snap.coin.birth
             deep == Depth(conn[p].snap.peak, birth) >= Confirmations
             new == [ birth |-> birth, cutoff |-> birth + AcceptanceBlocks,
                      close |-> birth + CloseDelay,
                      state |-> IF deep THEN "ACTIVE" ELSE "UNCONFIRMED",
                      activated |-> deep, peak |-> conn[p].snap.peak ]
  <2>1. d \in Coins /\ conn[p].snap \in Snapshots
    BY DEF TypeOK, Locals
  <2>2. birth \in Nat
    BY <2>1, ChainAssumption DEF Snapshots, FundingCoinStates
  <2>3. CASE d \in registered
    BY <1>4, <1>5, <2>3 DEF Register
  <2>4. CASE d \notin registered
    <3>1. registered' = registered \cup {d} /\ view' = [view EXCEPT ![d] = new]
      BY <1>5, <2>4 DEF Register
    <3>2. view'[d] = new /\ \A e \in Coins \ {d} : view'[e] = view[e]
      BY <2>1, <3>1 DEF TypeOK
    <3>3. born[d] > 0 /\ birth = born[d]
      BY <1>5 DEF RegistersKept, Register
    <3>4. new.birth = birth /\ TermsBound(new)
      BY <2>2, TermsAssumption DEF TermsBound, CloseDelay
    <3> HIDE DEF new, birth, d
    <3>5. CASE c = d
      BY <1>1, <2>1, <3>2, <3>3, <3>4, <3>5
    <3>6. CASE c # d
      BY <1>2, <1>3, <3>1, <3>2, <3>6
    <3> QED BY <3>5, <3>6
  <2> QED BY <2>3, <2>4
<1>6. ASSUME NEW p \in Conns, Prepare(p)
      PROVE  /\ born'[c] > 0 /\ view'[c].birth = born'[c]
             /\ TermsBound(view'[c])
  <2> DEFINE d == conn[p].coin
             new == VerdictFor(p).view
  <2>1. /\ d \in Coins
        /\ view[d] \in Views
        /\ conn[p].snap \in Snapshots
        /\ conn[p].again \in Snapshots
        /\ view' = [view EXCEPT ![d] = new]
    BY <1>6, PrepareFacts DEF Facts
  <2>2. d \in registered /\ UNCHANGED registered
    BY <1>6 DEF Prepare, Readable, HubInv, GatesHeld
  <2>3. born[d] > 0 /\ view[d].birth = born[d] /\ TermsBound(view[d])
    BY <2>2 DEF HeightsKept
  <2>4. conn[p].again.coin.birth = born[d]
    BY <1>6 DEF Prepare, GatesStraight
  <2>5. KeepsBirth(new, view[d])
    BY <2>1, <2>3, <2>4, GateKeepsTerms DEF VerdictFor
  <2> HIDE DEF new, d
  <2>6. view'[d] = new /\ \A e \in Coins \ {d} : view'[e] = view[e]
    BY <2>1 DEF TypeOK
  <2>7. CASE c = d
    BY <1>1, <2>1, <2>3, <2>5, <2>6, <2>7 DEF KeepsBirth
  <2>8. CASE c # d
    BY <1>2, <1>3, <2>2, <2>6, <2>8
  <2> QED BY <2>7, <2>8
<1> QED BY <1>4, <1>5, <1>6, ViewSteps

LEMMA RegistersNext ==
    ASSUME TypeOK, [Next]_vars, branch' = 0, RegistersKept
    PROVE  RegistersKept'
<1>1. \A c \in Coins : born[c] > 0 => born'[c] = born[c]
  BY ChainSteps, ChainGrows DEF TypeOK
<1> SUFFICES ASSUME NEW q \in Conns, conn'[q].pc = "register"
             PROVE  /\ born'[conn'[q].coin] > 0
                    /\ conn'[q].snap.coin.birth = born'[conn'[q].coin]
  BY DEF RegistersKept
<1>2. CASE conn'[q] = conn[q]
  <2>1. conn[q].coin \in Coins
    BY DEF TypeOK, Locals
  <2> QED BY <1>1, <1>2, <2>1 DEF RegistersKept
<1>3. CASE conn'[q] # conn[q]
  <2>1. PICK c \in Coins : StartRegister(q, c)
    BY <1>3, WorkBegins
  <2>2. PICK snap \in SnapshotsNow(c) :
          /\ snap.coin.kind = "Confirmed"
          /\ Become(q, [ Idle EXCEPT !.pc = "register", !.coin = c,
                                     !.snap = snap ])
    BY <2>1 DEF StartRegister
  <2>3. conn'[q].coin = c /\ conn'[q].snap = snap
    BY <2>2, BecomeIs, IdleFields DEF Locals
  <2>4. snap.coin = FundingCoin(c) /\ snap.coin.birth = born[c]
    BY SnapshotBirth
  <2>5. born[c] > 0
    <3>1. born[c] \in Nat
      BY ChainAssumption DEF TypeOK, ChainTypeOK
    <3> QED BY <2>2, <2>4, <3>1 DEF FundingCoin
  <2>6. born'[c] = born[c]
    BY <1>1, <2>5
  <2> QED BY <2>3, <2>4, <2>5, <2>6
<1> QED BY <1>2, <1>3

LEMMA FreezesNext ==
    ASSUME HubInv, Unregistered, [Next]_vars, branch' = 0, FreezesKept,
           GatesStraight
    PROVE  FreezesKept'
<1>1. TypeOK
  BY DEF HubInv
<1>2. Height <= Height'
  BY <1>1, ChainSteps, ChainGrows DEF TypeOK
<1>3. \A c \in Coins : view[c].activated =>
        view'[c].activated /\ view'[c].cutoff <= view[c].cutoff
  BY UnregisteredNext
<1>4. ASSUME NEW c \in Coins
      PROVE  view[c].cutoff \in Nat /\ view'[c].cutoff \in Nat
  <2>1. view \in [Coins -> Views] /\ view' \in [Coins -> Views]
    BY <1>1, TypeNext DEF TypeOK
  <2>2. view[c].cutoff \in BlockHeights /\ view'[c].cutoff \in BlockHeights
    BY <2>1 DEF Views
  <2> QED BY <2>2, TermsAssumption, ChainAssumption DEF BlockHeights, CloseDelay
<1>5. Height \in Nat /\ Height' \in Nat
  <2>1. TypeOK'
    BY <1>1, TypeNext
  <2> QED BY <1>1, <2>1, LenProperties DEF TypeOK, ChainTypeOK, Height
<1> SUFFICES ASSUME NEW c \in Coins, NEW n \in Nonces,
                    Taken(c, n)', rows'[c][n].status = "REJECTED_FREEZING"
             PROVE  view'[c].activated /\ view'[c].cutoff <= Height'
  BY DEF FreezesKept, Taken
<1>6. CASE Taken(c, n)
  <2>1. rows'[c][n].status = rows[c][n].status
    <3>1. \/ rows'[c][n] = rows[c][n]
          \/ rows'[c][n] = [rows[c][n] EXCEPT !.stage = "SIGNED"]
      BY <1>6, NextGrows DEF StoreGrows
    <3>2. rows[c][n] \in Rows
      BY <1>1 DEF TypeOK
    <3> QED BY <3>1, <3>2 DEF Rows
  <2>2. view[c].activated /\ view[c].cutoff <= Height
    BY <1>6, <2>1 DEF FreezesKept
  <2> QED BY <1>2, <1>3, <1>4, <1>5, <2>2
<1>7. CASE ~Taken(c, n)
  <2>2. PICK p \in Conns : /\ Prepare(p)
                          /\ c = conn[p].coin
                          /\ n = conn[p].request.nonce
    BY <1>1, <1>7, NewlyTaken, OnlyPrepareInserts
  <2> DEFINE verdict == VerdictFor(p)
             seen == conn[p].again
  <2>3. /\ view[c] \in Views
        /\ conn[p].snap \in Snapshots
        /\ seen \in Snapshots
        /\ TargetStatus(c, conn[p].request, verdict) = "REJECTED_FREEZING"
        /\ view' = [view EXCEPT ![c] = verdict.view]
    BY <1>1, <2>2, PrepareFacts DEF Facts
  <2>4. verdict.status = "REJECTED_FREEZING"
    <3> HIDE DEF verdict
    <3> QED BY <2>3 DEF TargetStatus
  <2>5. /\ verdict.view.activated
        /\ seen.peak.height >= verdict.view.cutoff
    BY <2>2, <2>3, <2>4, GateFreezes DEF VerdictFor
  <2>6. seen.peak.height \in Int /\ seen.peak.height <= Height
    <3>1. seen.peak = NoPeak \/ seen.peak.height <= Height
      BY <2>2 DEF Prepare, GatesStraight
    <3>2. seen.peak.height \in Int
      BY <2>3, ChainAssumption DEF Snapshots, Peaks, NoPeak
    <3> QED BY <1>5, <3>1, <3>2 DEF NoPeak
  <2> HIDE DEF verdict
  <2>7. view'[c] = verdict.view
    BY <1>1, <2>3 DEF TypeOK
  <2> QED BY <1>2, <1>4, <1>5, <2>5, <2>6, <2>7
<1> QED BY <1>6, <1>7

LEMMA GatesStraightNext ==
    ASSUME HubInv, [Next]_vars, branch' = 0, HeightsKept, GatesStraight,
           FreezesKept
    PROVE  GatesStraight'
<1>1. TypeOK /\ TypeOK' /\ GatesHeld
  BY TypeNext DEF HubInv
<1>2. /\ Height <= Height'
      /\ \A c \in Coins : born[c] > 0 => born'[c] = born[c]
  BY <1>1, ChainSteps, ChainGrows DEF TypeOK
<1>3. Height \in Nat /\ Height' \in Nat
  BY <1>1, LenProperties DEF TypeOK, ChainTypeOK, Height
<1> SUFFICES ASSUME NEW p \in Conns, conn'[p].pc = "gate"
             PROVE  LET c == conn'[p].coin
                        seen == conn'[p].again
                    IN /\ seen.peak = NoPeak \/ seen.peak.height <= Height'
                       /\ born'[c] > 0 /\ seen.coin.birth = born'[c]
                       /\ \A n \in Nonces :
                            /\ rows'[c][n].stage # "NONE"
                            /\ rows'[c][n].status = "REJECTED_FREEZING"
                            => \/ seen.peak = NoPeak
                               \/ view'[c].cutoff <= seen.peak.height
  BY DEF GatesStraight, Taken
<1>4. CASE conn'[p] = conn[p]
  <2>1. UNCHANGED store
    BY <1>1, <1>4, HolderAlone
  <2>2. conn[p].coin \in Coins /\ conn[p].again \in Snapshots
    BY <1>1 DEF TypeOK, Locals
  <2>3. conn[p].again.peak = NoPeak \/ conn[p].again.peak.height \in Nat
    BY <2>2, ChainAssumption DEF Snapshots, Peaks
  <2>4. /\ conn[p].again.peak = NoPeak \/ conn[p].again.peak.height <= Height
        /\ born[conn[p].coin] > 0
        /\ conn[p].again.coin.birth = born[conn[p].coin]
        /\ \A n \in Nonces :
             /\ Taken(conn[p].coin, n)
             /\ rows[conn[p].coin][n].status = "REJECTED_FREEZING"
             => \/ conn[p].again.peak = NoPeak
                \/ view[conn[p].coin].cutoff <= conn[p].again.peak.height
    BY <1>4 DEF GatesStraight
  <2> QED BY <1>2, <1>3, <1>4, <2>1, <2>2, <2>3, <2>4 DEF store, Taken
<1>5. CASE Evaluate(p)
  <2> DEFINE c == conn[p].coin
             seen == conn'[p].again
  <2>1. /\ conn'[p].coin = c
        /\ seen \in SnapshotsNow(c)
        /\ UNCHANGED <<store, chainVars>>
    BY <1>1, <1>5, EvaluateIs
  <2>2. c \in Coins /\ c \in registered
    BY <1>1, <1>5 DEF TypeOK, Locals, Evaluate, Readable
  <2>3. seen.coin.birth = born[c] /\ born[c] > 0
    BY <2>1, <2>2, SnapshotBirth DEF HeightsKept
  <2>4. seen.peak = NoPeak \/ seen.peak.height = Height
    BY <2>1 DEF SnapshotsNow, Tip
  <2>5. UNCHANGED <<rows, view, born>> /\ Height' = Height
    BY <2>1 DEF store, chainVars, Height
  <2> HIDE DEF c, seen
  <2>6. \A n \in Nonces :
          rows'[c][n].stage # "NONE" /\ rows'[c][n].status = "REJECTED_FREEZING"
             => view'[c].cutoff <= Height
    BY <2>2, <2>5 DEF FreezesKept, Taken
  <2> QED BY <1>3, <2>1, <2>3, <2>4, <2>5, <2>6 DEF seen
<1> QED BY <1>1, <1>4, <1>5, WorkBegins

\* What holds of the rows of the channels for as long as the chain is straight.
LEMMA StraightInv == Spec => [](HubInv /\ Unregistered /\ StraightChainInv)
<1>1. Init => HubInv /\ Unregistered /\ StraightChainInv
  <2>1. Init => Unregistered
    BY DEF Init, NoView, Unregistered
  <2>2. Init => StraightChainInv
    BY DEF Init, StraightChainInv, HeightsKept, RegistersKept, GatesStraight,
           FreezesKept, Taken, NoRow, Idle
  <2> QED BY <2>1, <2>2, InvInit
<1>2. HubInv /\ Unregistered /\ StraightChainInv /\ [Next]_vars
        => (HubInv /\ Unregistered /\ StraightChainInv)'
  <2> SUFFICES ASSUME HubInv, Unregistered, StraightChainInv, [Next]_vars
               PROVE  (HubInv /\ Unregistered /\ StraightChainInv)'
    OBVIOUS
  <2>1. TypeOK
    BY DEF HubInv
  <2>2. HubInv' /\ Unregistered'
    BY InvNext, UnregisteredNext
  <2>3. ASSUME branch' = 0
        PROVE  /\ HeightsKept' /\ RegistersKept' /\ GatesStraight'
               /\ FreezesKept'
    <3>1. branch = 0
      BY <2>1, <2>3, ChainSteps, ChainGrows DEF TypeOK
    <3> QED BY <2>1, <2>3, <3>1, HeightsNext, RegistersNext,
               GatesStraightNext, FreezesNext
            DEF StraightChainInv
  <2> QED BY <2>2, <2>3 DEF StraightChainInv
<1> QED BY <1>1, <1>2, PTL DEF Spec

\* load_channel never finds a row it calls Corrupt before the chain has
\* reorganised for the first time: what HubStoreCorrupt shows needs one.
THEOREM ReadableUntilReorg == Spec => [](branch = 0 => NeverCorrupt)
<1>1. HubInv /\ StraightChainInv => (branch = 0 => NeverCorrupt)
  <2> SUFFICES ASSUME HubInv, StraightChainInv, branch = 0,
                      NEW c \in registered
               PROVE  TermsBound(view[c]) /\ PointerBound(c)
    BY DEF NeverCorrupt, Readable
  <2>1. TermsBound(view[c])
    BY DEF StraightChainInv, HeightsKept
  <2>2. /\ latest[c].seq = Len(states[c])
        /\ latest[c].hash = entries[c]
        /\ Len(entries[c]) = Len(states[c])
        /\ \A s \in DOMAIN states[c] :
             states[c][s].hash = SubSeq(entries[c], 1, s)
        /\ entries[c] \in Seq(Requests)
        /\ states[c] \in Seq(States)
    BY DEF HubInv, TypeOK, LedgerRecoverable, Ledgers
  <2>3. CASE latest[c].seq = 0
    <3>1. entries[c] = <<>>
      BY <2>2, <2>3, EmptySeq
    <3> QED BY <2>1, <2>2, <2>3, <3>1 DEF PointerBound
  <2>4. CASE latest[c].seq # 0
    <3>1. latest[c].seq \in DOMAIN states[c]
      BY <2>2, <2>4
    <3>2. SubSeq(entries[c], 1, Len(entries[c])) = entries[c]
      BY <2>2, SubSeqFull
    <3> QED BY <2>1, <2>2, <2>4, <3>1, <3>2 DEF PointerBound
  <2> QED BY <2>1, <2>3, <2>4
<1> QED BY <1>1, StraightInv, PTL

\* A channel that refused a reservation because it is frozen accepts no other
\* before the chain has reorganised: what HubStoreFrozen shows needs one.
THEOREM FrozenUntilReorg ==
    Spec => [][branch' = 0 =>
                 \A c \in Coins, n, m \in Nonces :
                    /\ rows[c][n].status = "REJECTED_FREEZING"
                    /\ rows[c][n].stage # "NONE"
                    /\ rows[c][m].stage = "NONE"
                    /\ rows'[c][m].stage = "PREPARED"
                    => rows'[c][m].status # "SIGNED"]_vars
<1> DEFINE Frozen ==
             branch' = 0 =>
               \A c \in Coins, n, m \in Nonces :
                  /\ rows[c][n].status = "REJECTED_FREEZING"
                  /\ rows[c][n].stage # "NONE"
                  /\ rows[c][m].stage = "NONE"
                  /\ rows'[c][m].stage = "PREPARED"
                  => rows'[c][m].status # "SIGNED"
<1>1. HubInv /\ ChainSeenInv /\ StraightChainInv /\ [Next]_vars => Frozen
  <2> SUFFICES ASSUME HubInv, ChainSeenInv, StraightChainInv, [Next]_vars,
                      branch' = 0,
                      NEW c \in Coins, NEW n \in Nonces, NEW m \in Nonces,
                      rows[c][n].status = "REJECTED_FREEZING",
                      rows[c][n].stage # "NONE",
                      rows[c][m].stage = "NONE",
                      rows'[c][m].stage = "PREPARED",
                      rows'[c][m].status = "SIGNED"
               PROVE  FALSE
    OBVIOUS
  <2>1. TypeOK
    BY DEF HubInv
  <2>2. branch = 0
    BY <2>1, ChainSteps, ChainGrows DEF TypeOK
  <2>3. PICK p \in Conns : /\ Prepare(p)
                          /\ c = conn[p].coin
                          /\ m = conn[p].request.nonce
    BY <2>1, OnlyPrepareInserts
  <2>4. conn[p].pc = "gate" /\ m = conn[p].nonce
    BY <2>3 DEF Prepare, HubInv, LocalsBound, LocalBound
  <2> DEFINE tip == conn[p].again.peak
  <2>5. view[c].activated
    BY <2>2 DEF StraightChainInv, FreezesKept, Taken
  <2>6. tip.height < view[c].cutoff
    BY <2>3, <2>4, <2>5, InTimeNext
  <2>7. tip = NoPeak \/ view[c].cutoff <= tip.height
    BY <2>2, <2>3, <2>4 DEF StraightChainInv, GatesStraight, Taken
  <2>8. tip.height \in Nat
    BY <2>1, <2>3, AcceptedSnapshot DEF ChainSeenInv
  <2>9. view[c].cutoff \in Nat
    BY <2>1, TermsAssumption, ChainAssumption
       DEF TypeOK, Views, BlockHeights, CloseDelay
  <2> QED BY <2>6, <2>7, <2>8, <2>9 DEF NoPeak
<1> QED BY <1>1, ChainSeen, StraightInv, PTL DEF Spec

-----------------------------------------------------------------------------
(* What a reservation's row says of its place in the ledger                *)

\* What transaction 1 writes has its place.
LEMMA PreparePlaces ==
    ASSUME HubInv, NEW p \in Conns, Prepare(p)
    PROVE  LET c == conn[p].coin
               n == conn[p].nonce
           IN /\ \A d \in Coins, m \in Nonces :
                   <<d, m>> # <<c, n>> => rows'[d][m] = rows[d][m]
              /\ Placed(rows'[c][n])
<1> DEFINE c == conn[p].coin
           n == conn[p].nonce
           request == conn[p].request
           verdict == VerdictFor(p)
           status == TargetStatus(c, request, verdict)
           row == NewRow(p, verdict, status)
<1>1. /\ c \in Coins /\ n \in Nonces /\ request \in Requests /\ n = request.nonce
      /\ entries[c] \in Seq(Requests) /\ latest[c].seq \in Nat
  <2>1. conn[p].pc = "gate"
    BY DEF Prepare
  <2>2. LocalBound(conn[p])
    BY DEF HubInv, LocalsBound
  <2> QED BY <2>1, <2>2 DEF LocalBound, HubInv, TypeOK, Locals, Ledgers, Pointers
<1>2. rows' = [rows EXCEPT ![c][n] = row]
  BY <1>1 DEF Prepare
<1> HIDE DEF verdict, status
<1>3. /\ status = "SIGNED" =>
           /\ row.status = "SIGNED" /\ row.request = request
           /\ row.seq = latest[c].seq + 1
           /\ row.hash = Append(entries[c], request)
           /\ row.index = Len(entries[c])
      /\ status # "SIGNED" =>
           row.status = status /\ row.seq = 0 /\ row.hash = <<>> /\ row.index = 0
  BY DEF NewRow
<1>4. /\ Len(entries[c]) + 1 \in DOMAIN Append(entries[c], request)
      /\ Append(entries[c], request)[Len(entries[c]) + 1] = request
  BY <1>1
<1> HIDE DEF row, c, n
<1>5. /\ rows'[c][n] = row
      /\ \A d \in Coins, m \in Nonces : <<d, m>> # <<c, n>> => rows'[d][m] = rows[d][m]
  BY <1>1, <1>2 DEF HubInv, TypeOK
<1>6. Placed(row)
  BY <1>1, <1>3, <1>4 DEF Placed
<1> QED BY <1>5, <1>6 DEF c, n

LEMMA PlacedNext ==
    ASSUME HubInv, RowsPlaced, [Next]_vars
    PROVE  RowsPlaced'
<1>1. CASE UNCHANGED tables
  BY <1>1 DEF tables, RowsPlaced, Taken
<1>2. ASSUME NEW p \in Conns, CommitRefusal(p) \/ CommitState(p)
      PROVE  RowsPlaced'
  <2> DEFINE c == conn[p].coin
             n == conn[p].nonce
  <2>1. /\ c \in Coins /\ n \in Nonces /\ rows[c][n] \in Rows
        /\ rows[c][n].stage = "PREPARED"
        /\ rows'[c][n] = [rows[c][n] EXCEPT !.stage = "SIGNED"]
        /\ \A d \in Coins, m \in Nonces :
             <<d, m>> # <<c, n>> => rows'[d][m] = rows[d][m]
    BY <1>2, SignedRow DEF CommitRefusal, CommitState
  <2>2. Taken(c, n)
    BY <2>1 DEF Taken
  <2>3. Placed(rows[c][n]) => Placed(rows'[c][n])
    BY <2>1 DEF Rows, Placed
  <2> HIDE DEF c, n
  <2> QED BY <2>1, <2>2, <2>3 DEF RowsPlaced, Taken
<1>3. ASSUME NEW p \in Conns, Prepare(p)
      PROVE  RowsPlaced'
  <2> DEFINE c == conn[p].coin
             n == conn[p].nonce
  <2>1. /\ \A d \in Coins, m \in Nonces :
             <<d, m>> # <<c, n>> => rows'[d][m] = rows[d][m]
        /\ Placed(rows'[c][n])
    BY <1>3, PreparePlaces, Zenon
  <2> HIDE DEF c, n
  <2> QED BY <2>1 DEF RowsPlaced, Taken
<1> QED BY <1>1, <1>2, <1>3, TableSteps DEF HubInv

\* The entry index a reservation is answered with is that of its own entry in
\* the ledger its checkpoint commits to, and a refused one names no entry.
THEOREM ReservationsPlaced == Spec => []RowsPlaced
<1>1. Init => RowsPlaced
  BY DEF Init, RowsPlaced, Taken, NoRow
<1> QED BY <1>1, PlacedNext, HubInvariant, PTL DEF Spec

\* validate_reservation_binding never fails: its Corrupt is out of the reach of
\* every interleaving, crash and reorganisation.
THEOREM BindingsAlwaysHold == Spec => []BindingsHold
<1>1. HubInv /\ RowsPlaced => BindingsHold
  <2> SUFFICES ASSUME HubInv, RowsPlaced, NEW c \in Coins, NEW n \in Nonces,
                      rows[c][n].stage # "NONE"
               PROVE  BindingHolds(rows[c][n], n)
    BY DEF BindingsHold
  <2>1. Taken(c, n)
    BY DEF Taken
  <2>2. rows[c][n].request.nonce = n
    BY <2>1 DEF HubInv, RowsBound
  <2>3. CASE rows[c][n].status = "SIGNED"
    <3>1. rows[c][n].seq # 0 /\ rows[c][n].index + 1 \in DOMAIN rows[c][n].hash
      BY <2>1, <2>3 DEF RowsPlaced, Placed
    <3>2. DOMAIN <<>> = {}
      OBVIOUS
    <3>3. rows[c][n].hash # <<>>
      BY <3>1, <3>2
    <3> QED BY <2>2, <2>3, <3>1, <3>3 DEF BindingHolds
  <2>4. CASE rows[c][n].status # "SIGNED"
    BY <2>1, <2>2, <2>4 DEF RowsPlaced, Placed, BindingHolds
  <2> QED BY <2>3, <2>4
<1> QED BY <1>1, HubInvariant, ReservationsPlaced, PTL

==============================================================================
