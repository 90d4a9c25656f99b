# XHUB V3.6: a verification project

XHUB is a payment hub on the Chia chain. A user locks coins in a *Funding
Coin*; the HUB signs *reservations* for merchants against it, one ledger per
coin; after a freeze the channel is closed on chain at the latest ledger state,
and *watchtowers* that hold *RecoveryPackages* challenge a close at an older
one. The main line is `src/V3.6`; `src/src` is a frozen predecessor.

This directory holds TLA+ modules translated from that code, TLC
configurations that check them on small instances, and TLAPS proofs of their
main properties for every instance.

## 1. Inventory

| Part | State it keeps | Operations | Hard about it | What makes it correct |
| --- | --- | --- | --- | --- |
| HUB reservation store (`hub-v3_6/src/lib.rs`) | SQLite: channels, reservations, state intents, states, ledger entries | register, reserve, finalize, recover_pending, queries | two transactions with signatures between them, several processes, crashes, retries | nothing signed twice; tables stay one ledger; a crash can be completed |
| Chain gate (`lib.rs` 1411-1768, `chain.rs`) | chain columns of a channel | two snapshots around the write lock, verdict, observation saved | reorganisations, stale snapshots, faulty nodes | acceptance never extended, never after the cutoff |
| Recovery deliveries (`lib.rs` 894-1085, `api.rs` 553-773, `transport.rs`) | one row per package and recipient | begin, transport call outside the lock, finish, quorum of three | concurrent deliveries, retries, late answers, watchtower restarts | a delivered package is really held; two of three before "quorum met" |
| Protocol objects (`protocol-v3_6`) | none (values) | validate, hash, sign, verify, evidence | limits, overflow | only valid ledgers are signed |
| Settlement puzzles (`puzzles-v3_6`) | the coins on chain | close, challenge, settle, pay merchants | a stale close racing challenges, relative heights | one challenge window, a later state each time, the whole amount paid |
| Watchtower package store (`watchtower-v3_6/src/lib.rs`, `api.rs`) | packages per coin and sequence, head, conflicts | accept, query | stale, repeated, conflicting packages | the head only advances; conflicts are kept as evidence |
| Watchtower monitor (`monitor.rs`, `bin/monitor*.rs`) | last action for a coin, challenge plans, a status snapshot | observe, decide, plan, answer for the status, aggregate three monitors | reorganisations, failing nodes, restarts, staleness | no READY answer is calm about an old, stale close; a plan is one the chain takes |
| Watchtower challenge gates (`preparation`, `approval`, `final_recheck`, `manifest`, `authorization`) | one SQLite table each | prepare, approve twice, recheck, sign a manifest, authorize, simulate | TTLs (30, 10, 5 seconds), single use, chain changes between gates | nothing is submitted outside a window it was granted in, or for a bundle that was replaced |
| Custody (`custody.rs`, `lib.rs` 647-835) | identities, confirmations, attestations | sign, record, aggregate a green light | conflicting packages at several towers | a green light is real custody, and never contradicts another |
| Audit, backup (`audit.rs`, `backup.rs`) | hash chain, anchors, backup handoffs, drills | append, anchor, back up, hand over, verify, drill, restore, list for removal | restores to older backups, writers during a backup, two verifiers | what was anchored is kept; one verdict stands; the newest backups stay |
| Wallet (`wallet-v3_6`) | browser storage | build, sign, send one reservation | a lost answer | one nonce per payment |
| Legacy MVP (`src/src`, `src/puzzles`) | file store, v1/v2 puzzles | open, pay, close, challenge | state rollback | latest state wins |

How they interact: the wallet sends reservations to the HUB's HTTP API, whose
handlers run store operations in blocking workers, one at a time per process
(a mutex around the connection). Several processes may open one database; they
exclude each other with `BEGIN IMMEDIATE`. The HUB asks a Chia full node for
snapshots. It pushes RecoveryPackages to watchtowers over HTTP. Watchtowers
read the chain through their own nodes and go from a decision through the
challenge gates. Everybody reads the chain; the chain moves by itself.

## 2. How the project is built

Most important behaviour first; each line composes what is above it.

1. `ChannelTerms`, `FundingChain`, `HubStore`, with `HubLedger` as its abstract
   specification: the reservation core (section 3).
2. `PackageStore`, and composed with it `RecoveryDelivery` (the HUB's
   deliveries) and `CustodyGreenlight` (confirmations, attestations, the green
   light) (section 4).
3. `ClosingChain`: the settlement game of the puzzles on a chain that
   reorganises; `ChainMonitor`: what a tower makes of that chain;
   `ClosingMonitor`: the monitor process beside the game (section 5).
4. `ChallengeGates`: the gates from a plan to a submission, over the same chain
   and the same decisions (section 6).
5. `AuditBackup`: the audit chain and the backups of a tower (section 7).

Each has a type invariant, two to five safety or step properties, an MC module
and a run, and proofs, along an inductive invariant, of everything those
properties claim; two have liveness properties as well. Modules with proofs
are written without RECURSIVE operators; sums are folds of the community
modules. Eight modules hold the proofs, one for each component, and
`ClosingProofs` for the chain that `MonitorProofs` and `GatesProofs` share.

## 3. The reservation core

### 3.1 Modules

* `ChannelTerms` - constants of a channel and `Ledger::validate` (types.rs).
* `FundingChain` - the chain as the node reports it: growing, one branch after
  another, coins appearing, vanishing, reappearing, being spent when the
  Funding puzzle allows it. Not code of the repository; the bounds `MaxHeight`
  and `MaxReorgs` are its guards.
* `HubLedger` - what the HUB promises, with no tables and no processes: a
  nonce is answered once, and the entry and its answer come together.
* `HubStore` - the store, its operations, the processes.
* `HubStoreInv` - the inductive invariants.
* `HubProofs` - proofs: of the types, the invariants, the refinement, the gate.
* `MCHubStore` - the model values and the symmetry set for TLC.

### 3.2 State and actions

| Variable | Code |
| --- | --- |
| `registered`, `view`, `latest` | `v36_channels` (existence, chain columns, state pointer) |
| `rows` | `v36_reservations` |
| `intents`, `states`, `entries` | `v36_state_intents`, `v36_states`, `v36_ledger_entries` |
| `conn` | the locals of the request each process is serving |
| `stateSigs`, `resultSigs` | history: every signature ever made with the HUB key |
| `blocks`, `branch`, `born`, `spent` | the chain |

| Action | Code |
| --- | --- |
| `StartRegister`, `Register` | `register_channel_from_chain`, `register_channel_record` |
| `StartReserve` | `reserve_with_chain`: the first snapshot |
| `Retry`, `Evaluate`, `Prepare`, `ReserveFails` | transaction 1 of `reserve_internal`: known nonce; new nonce, until the second snapshot; from it to the commit; error |
| `Busy` | `BEGIN IMMEDIATE` finds the lock taken for ten seconds |
| `LoadPrepared` | `finalize_prepared`: read, sign the result |
| `SignState` | `finalize_prepared`: read the intent, sign the state |
| `BuildPackage` | `finalize_prepared`: read the ledger, build and validate the package |
| `CommitState`, `CommitRefusal`, `CommitLate` | transaction 2 |
| `FinalizeFails` | `finalize_prepared` returns an error, at any of these steps |
| `StartRecovery`, `RecoverNext` | `recover_pending` |
| `Crash`, `Restart` | `FailurePoint` and the process dying anywhere |

`BEGIN IMMEDIATE` takes SQLite's only write lock and keeps it until the commit,
so a transaction that touches nothing but the database is one action.
Transaction 1 of a new reservation is two: it asks the full node while it holds
the lock (lib.rs:1428) and commits later (lib.rs:758), and the lock does not
stop the chain. Between `Evaluate` and `Prepare` the chain may therefore move,
the process may die, and the other processes wait (`Locked`) or give up
(`Busy`). Reads outside a transaction are actions of their own, so another
process may commit between any two of them.

### 3.3 Abstractions

* A checkpoint hash is the ledger it commits to (Merkle tree and SHA-256 are
  injective); signatures cannot be forged. `auth` says whether the user's verifies.
* The three RPC calls of one snapshot answer for one instant of the chain. A
  puzzle hash or amount that is not the channel's is treated by the code as a
  foreign network is, and modelled by that fault.
* `confirmation_blocks` is the HUB's configuration and the same for all channels.
* The `Manual` gate is used by tests only and is left out.
* `recover_pending` orders by `created_at`, which is what callers' clocks said:
  any order.
* Registration's conflict check only decides the answer to the caller.
* Heights stay far below `MAX_PROTOCOL_U64`; a ledger's total does not have to
  (`TooLarge`).

### 3.4 Runs

| Run | Instance | Shows |
| --- | --- | --- |
| `HubStoreConcurrent.cfg` | 2 processes, 1 channel, 2 nonces, amounts 1 and 2, 2 funded, totals above 3 out of range, valid and invalid authorizations | every interleaving of two requests, retries, recoveries and crashes; 168 956 states |
| `HubStoreChain.cfg` | 1 process, heights to 5, one reorganisation, 2 confirmations, acceptance of 2 blocks and freeze of 1 | the gate against every chain history of that size; about 2.4 million states |
| `HubStoreLive.cfg` | 1 process, all five faults, crashes, fairness | faults and liveness |
| `HubStoreCorrupt.cfg`, `HubStoreFrozen.cfg` | as small as the counterexample allows | findings |

Why these bounds: two processes are enough for every race between two owners
of one reservation or of two; two nonces and two ledger slots fill the ledger
(`MaxEntries`), exhaust the funds, and let a second reservation meet the first
one's intent. An acceptance of two blocks lets a reservation be accepted with
the second of two confirmations and one block to spare; heights to 5 then cover
freezing, spending and a coin that is born again at each later height, and
blocks, the spend or the reorganisation between the second snapshot and the
commit. The proofs below remove the bounds for all safety properties.

### 3.5 Properties

Safety, about what the HUB has signed, committed or not:
`SignedStatesAreOneLedger` (of any two states of a channel the earlier is a
prefix of the later, so two RecoveryPackages never disagree; it implies
`NoDoubleSign`, that no `DoubleSignEvidence` exists), `NoConflictingResults`
(nor `ConflictingResultEvidence`), `AcceptedIsPaid` (a signed acceptance is paid
by its state and by every later one, at the place it names, and a completed
reservation is always answered with such a result and package). About the
tables: `LedgerRecoverable`, `PreparedCanBeCompleted`, `Solvent`. The run checks
the inductive invariant `PromiseInv` as well. Steps:
`AcceptanceNeverExtended`, `AcceptedInTime`, `FaultyNodeOnlyBlocks`.
`AcceptedInTime` is stated as of the snapshot made under the write lock, and not
of the commit, when the coin may already be gone: the result names that
snapshot's height, and unless its block has left the chain meanwhile the coin
was there, below the cutoff, and cannot have been spent for `FreezeBlocks`
blocks after it, which is the time the HUB has to commit and sign.
Refinement: `KeepsLedgerPromise` (HubStore implements HubLedger with `ledger <-
entries` and the answer read off `rows`). Liveness: `PreparedIsAnswered`.

Fairness (`FairSpec`): weak on a process's own steps (nothing waits for another
process but for the write lock, and that for ten seconds, `Busy`) and on its
restart; strong on the client's retry of an unanswered nonce, which
HTTP-API.md asks of it (`main.rs` never calls `recover_pending`, so without a
retry nothing completes the reservation); crashes may be many but not
infinitely many.

### 3.6 Findings

* `NeverCorrupt`: a Spent coin's new birth height is saved with the old cutoff
  (lib.rs:1596), which `load_channel` (lib.rs:1833) refuses ever after.
* `FrozenStaysFrozen`: protocol-v3_6.md:859 forbids a reorganisation to reopen
  a frozen channel; the gate keeps no frozen mark.

A third divergence needs no run: protocol-v3_6.md:355 has a request_id consumed
once over all Funding Coins of a HUB, but `v36_reservations` has no unique key
on it and nothing looks one up, so two channels accept the same one.

### 3.7 Proofs

All are about `Spec` (no fairness), from the assumptions `TermsAssumption`,
`ChainAssumption` and `HubAssumption` only.

* `TypeCorrect`: `TypeOK`, one lemma per group of actions.
* `HubInvariant`: `HubInv` is inductive. None of the safety properties is:
  `NoDoubleSign` needs to know that a signed state is that of an intent
  (`StateSigsBound`), that intents never change their hash and at most one is
  open (`IntentsFollow`, `IntentsBound`, `RowsBound`), and that what a process
  carries between the transactions is still what the store says, or the
  reservation is already SIGNED (`LocalsBound`).
* From it: `NeverDoubleSigns`, `NeverConflictingResults`, `AlwaysRecoverable`,
  `LedgersSolvent`, `PreparedCompletes`, and `ImplementsLedger`, the refinement.
* `PromiseInvariant`: `PromiseInv` adds what `HubInv` does not need, that
  signing comes first: a process in the middle of `finalize_prepared` holds only
  what is in `resultSigs` and `stateSigs` (`LocalsSigned`), and so does each
  committed row and state (`CommittedSigned`); a state is that of its intent
  (`StatesBound`).
* From it: `SignedAreOneLedger` and `AcceptedAlwaysPaid`. The link is that an
  intent's ledger is the channel's as far as that goes and one entry more
  (`IntentEntries`, `IntentPrefix`): the state signed for an intent that was
  never committed still extends every committed one, because the intent waits
  until something commits it. `SignedAreOneLedger` is what `DeliveryAssumption`
  of section 4 assumes of the packages the HUB has to deliver.
* `ReservationsPlaced`: `RowsPlaced` is inductive beside `HubInv`: the entry
  index of an accepted reservation is that of its own entry. With `RowsBound` it
  gives `BindingsAlwaysHold`: `validate_reservation_binding`, called wherever a
  reservation is read, never fails, which is why the actions leave it out.
* The gate's step properties `NeverExtendsAcceptance`, `AcceptsInTime` and
  `FaultsOnlyBlock` follow from `TypeOK`, lemmas about `Gate`, and `GatesHeld`:
  between `Evaluate` and `Prepare` nobody else has the lock, so what was read is
  what is still there. `AcceptsInTime` needs `ChainSeenInv` as well: a block that
  is still on the chain is the whole chain up to it (`BlocksBound`), so a
  snapshot whose block is canonical told the truth about the coin's birth
  (`GatesTrue`), and no coin is spent before its close delay, which is the
  acceptance period and the freeze together.
* The two findings about heights need a reorganisation. `ReadableUntilReorg`
  and `FrozenUntilReorg` prove that before the first one (`branch = 0`) no row is
  Corrupt and nothing is accepted after a freeze. `StraightChainInv` is why: the
  heights of a row, and those a registration under way has seen, are those of
  the coin's only birth (`HeightsKept`, `RegistersKept`), and a refusal as
  frozen means an activated channel whose cutoff the chain has reached
  (`FreezesKept`), which then only stays so.

Only model-checked: `PreparedIsAnswered` (liveness under fairness and
`ENABLED` are beyond the prover), and what `FoldFunction` computes: the proofs
use `ReservedTotal` as a value and never induct over it.

`FinalizeFails` also stands for an error after transaction 1 because another
process made the channel `Corrupt` meanwhile (finding `NeverCorrupt`). The
passing runs have too short a chain for it; the proofs cover it.

## 4. Watchtowers and deliveries

### 4.1 Modules

* `PackageStore` - `accept_package` of every tower, for one Funding Coin.
* `RecoveryDelivery` - EXTENDS it: the HUB's table of deliveries, the two HTTP
  handlers, their workers, and what comes back from the towers.
* `CustodyGreenlight` - EXTENDS it: the merchant's confirmations, the towers'
  attestations, and the production green light.
* `PackageStoreProofs`, `RecoveryDeliveryProofs`, `CustodyProofs` - proofs; the
  last two rest on the lemmas of the first.
* `MCRecoveryDelivery`, `MCCustodyGreenlight` - instances. `PackageStore` needs
  none of its own: its properties are checked in `CustodyGreenlight.cfg`.

### 4.2 State and actions

| Variable | Code |
| --- | --- |
| `held`, `head`, `quarantine` | `v36_watchtower_packages`, `_heads`, `_quarantine` of each tower |
| `signed` | `latest_sequence` of the HUB's channel |
| `rows` | `v36_recovery_deliveries`: kind and status by state, recipient and key |
| `req` | a handler's locals (`deliveries`, `workers`) and what each worker returned |
| `answers` | history: quorum answers that say yes (200) or never (422) |
| `confirmations`, `attestations` | `v36_delivery_confirmations`, `v36_custody_attestations` |
| `confirmSigs`, `attestSigs` | history: every signature made; anyone may carry one to any tower |

| Action | Code |
| --- | --- |
| `Repeat`, `Store` | `accept_package` returns Ok: known already, or new on top |
| `Refuse` | any of its refusals, kept in the quarantine |
| `Sign` | a reservation is signed (`HubStore!CommitState`) |
| `Call` | a client calls the single or the quorum handler |
| `BeginCompleted`, `BeginAttempt`, `BeginConflicts` | `begin_recovery_delivery`: finished key, (re)tried, `NonceConflict` |
| `PostAnswered`, `PostAnswerLost`, `PostFails`, `PostDenied`, `PostMisrouted` | `deliver`: 200 or 400; answer lost; never arrived, 429 or 5xx; another 4xx, or no client to send it with; not this transport's recipient |
| `Finish`, `FinishedByOther` | `finish_recovery_delivery`, its UPDATE changing one row or none |
| `Respond` | the HTTP answer |
| `Abandon` | the handler's future is dropped, or the process dies |
| `Arrive` | a call nobody waits for any more, or an operator's script |
| `SignConfirmation`, `RecordConfirmation`, `SignCustodyAttestation`, `RecordCustodyAttestation` | the functions of these names |

`accept_package`, `begin` and `finish` hold their store's mutex and are one
action each; everything between them interleaves. A handler that returns early
or is dropped does not stop its workers (`spawn_blocking`): their calls become
`Arrive`.

### 4.3 Abstractions

* A checkpoint hash is the checkpoint, as in 3.3; a package's content is that
  and its puzzle reveal. `valid` is what `RecoveryPackage::validate` and
  `validate_funding_puzzle_reveal` say of it. An entry includes the user's
  signature of it, as accept_package compares both alike.
* A package with sequence 0 or no entries fails the tables' CHECKs: the tower
  answers 5xx and nothing changes (`Storable`).
* `attempt_count`, `last_error` and times are never read and left out; a
  panicking worker is left out.
* The HUB's packages are one ledger (`DeliveryAssumption`); that is what
  `SignedAreOneLedger` proves of `HubStore`. `Foreign` packages
  and the conflicting ones of `CustodyGreenlight` need no such thing.
* Identities are those main.rs registers when it starts, the same at all
  towers; registration refuses one key under two attesters (`IdentityAssumption`).
* `greenlight_status` (merchant keys only) and the single-VPS test variant are
  queries with weaker conditions and left out.

### 4.4 Runs

| Run | Instance | Shows |
| --- | --- | --- |
| `CustodyGreenlight.cfg` | two towers, three attesters of which two share a failure domain, three packages: two conflicting first states and a successor whose entries are of two merchants | every order of storing, refusing, confirming, signing and recording; 119 989 states |
| `RecoveryDelivery.cfg` | three towers, two handlers at once, one state and key, quorum and single calls of both kinds, a conflicting package at one tower | the races of two attempts for one record; about 358 000 states |
| `RecoveryDeliveryLive.cfg` | one handler at a time, two states, one tower whose proxy may answer 4xx, fairness | retries; 32 963 states |

Why these bounds: two conflicting first states and a successor give a tower a
package that is known, below, beside, and above its head, and one that does not
continue it; the successor's entries have different merchants, so that a
confirmation must be by the merchant of the entry it names; the proofs have
every other set of packages.
Two handlers are enough for every race on a record, which both write with the
same two statements. One key is enough, as records of different keys share
nothing but the tower. In `RecoveryDeliveryLive.cfg` a second state's package
can overtake the first one's, so that its delivery fails for good while the
tower can defend it all the same.

### 4.5 Properties

`HeldIsOneLedger`, `AnswersStand`, `LatestOnlyGrows`: what a tower holds, says
and would challenge with. `DeliveredIsHeld`, `FailedIsRefused`,
`CompletedStays`, `QuorumAnswersHold`: what the HUB's table and its answers say
is so at the towers, and stays so. `GreenlightIsCustody`,
`GreenlightsAreOneLedger`, `GreenlightStands`: what a merchant may rely on.
Liveness: `SignedReachesQuorum`, `PendingCompletes`.

Fairness (`RecoveryDelivery!FairSpec`): weak on a handler's own steps and on a
worker's call, which has a timeout; strong on a call being answered, as a tower
is not unreachable for ever; strong on clients asking for the quorum with the
same key, which HTTP-API.md:66 tells them to do; and handlers are not dropped
for ever.

What the runs show that a reader may not expect, though no document says
otherwise: a delivery can be `FAILED_FINAL` although the tower can defend the
state (a later package came first); any 4xx that is not 429 is final for its
key, and so is a client that cannot be built or a package that cannot be hashed
(transport.rs:67-73), which never reaches the tower (`PostDenied` is all of
these); and an attempt that fails may finish the record a newer attempt has just
made PENDING, whose success is then a `StateConflict`.

### 4.6 Proofs

From `PackageAssumption`, `DeliveryAssumption`, `AskedAssumption` and
`IdentityAssumption` only; `Towers` and `Attesters` are finite, everything else
is of any size.

* `StoreInv` strengthens `HeldIsOneLedger` and `AnswersStand`: every refused
  package is still refused for a reason (`StillRefused`) that a later head only
  strengthens. The step that stores a package needs that carrying on is
  transitive although only adjacent packages are compared by checkpoint hash
  (`ExtendsTransitive`).
* `DeliveryImplementsStore` and `CustodyImplementsStore`: a step of either
  composition is a step of `StoreSpec` or leaves the towers alone, so the three
  theorems about the store hold in both (`DeliveryKeepsTowers`,
  `CustodyKeepsTowers`), with lost, late and repeated calls as much as without.
* `DeliveryInv` adds the reason for what each worker has in hand (`WorkerGood`)
  and for each entry of a handler's answer (`EntryGood`): a record may be
  finished by any attempt, so a row alone does not say why. The lemmas
  `TowersKeep` and `RowsKeep` say what every step leaves alone; then one lemma
  for the handler that acts and one for the worker that comes back.
  `FinalCount` and `MetCount` do the arithmetic of two of three.
* `CustodyInv`: nothing is signed or recorded where the package is not held.
  `GreenlightsAlwaysOneLedger` is then a quorum argument: two majorities of the
  attesters share one, whose tower holds both packages, and what one tower
  holds is one ledger. `CustodyTypeCorrect` is part of it.

Only model-checked: the two liveness properties.

## 5. Settlement and the chain monitor

### 5.1 Modules

* `ClosingChain` - the puzzles: START_CLOSE, CHALLENGE of the Initial and of a
  Subsequent Closing Coin, FINALIZE, on a chain that grows and reorganises.
* `ChainMonitor` - EXTENDS it: the monitor's functions, without state: what it
  observes (`build_observation`), decides (`evaluate_observation`), and whether
  it can build a challenge (`bundle.rs`). `ClosingMonitor` and `ChallengeGates`
  both extend it, so both take the same decisions.
* `ClosingMonitor` - EXTENDS it: the monitor process, its two tables and the
  status endpoint, beside every settlement the puzzles allow.
* `ClosingProofs`, `MonitorProofs` - proofs; `MCClosingMonitor` - the instance.

### 5.2 State and actions

| Variable | Code |
| --- | --- |
| `blocks`, `branch` | the chain: what each block left the channel as |
| `held` | `v36_watchtower_packages` |
| `plans`, `saw` | `v36_challenge_plans`; whether `v36_chain_monitor_state` has an action that saw a Closing Coin |
| `poll` | the locals of one round of `monitor.rs` |
| `snapshot` | the alert `monitor-status` answers with, READY or STALE, and how old its decision is |
| `overdue` | history: how long the chain has had an open, older Closing Coin |

| Action | Code |
| --- | --- |
| `StartClose`, `ChallengeInitial`, `ChallengeSubsequent`, `Finalize` | the conditions the `.clsp` puzzles put on each kind of spend |
| `EmptyBlock`, `Reorganise` | the chain's own |
| `PollBegins`, `PollReads`, `PollEnds` | the clock and the peak; the coins, the decision and its row; the plan and the snapshot |
| `MonitorRestarts` | `exit(1)` after a failed poll, or a crash |
| `AcceptPackage` | `accept_package` (section 4) |
| `Tick` | time, in units in which the staleness limit is counted |

### 5.3 Abstractions

* Every claim a spender may reveal is in `Claims`, acceptable or not; a
  signature cannot be forged, so a claim says whether it has one.
* `ASSERT_HEIGHT_ABSOLUTE` and `ASSERT_BEFORE_HEIGHT_ABSOLUTE` look at the block
  before the one the spend is in, as on Chia.
* A coin id covers the lineage's commitments and not the heights at which its
  coins were born: after a reorganisation the same coin id can be born at
  another height, and the plan made for it is found again.
* Any RPC may fail, in any poll (`Unknown`). A lineage longer than
  `MaxTransitions` is never followed.
* The age of a snapshot is judged when it is asked for (`AnsweredStale`), as in
  `status_response`: one that is too old is still answered, as STALE with status
  503 and with the alert of its decision. Only a monitor without any snapshot
  answers CRITICAL by itself (`error_status`).

### 5.4 Run, properties, proofs

`ClosingMonitor.cfg`: two entries of amount 1, `CloseDelay` 1,
`ChallengeBlocks` 2, chain to height 6 with one reorganisation, packages of
states 1 and 2, seven claims of which four are unacceptable (unsigned, a nonce
used twice, overdrawn, no State 0), staleness limit 0, `MaxTransitions` 2.
That limit means that the unit of time is what makes a decision stale: one whose
poll began before the last `Tick` is STALE, and a close that is older than the
last `Tick` has to be told. A poll under way can be overtaken by it at every
statement; the proof has every limit.
START_CLOSE is possible from height 2, so two challenges and FINALIZE fit, a
lineage of three coins exceeds `MaxTransitions`, and a reorganisation can cut
at each of those coins and bear them again one block later. 877 497
states.

* `SettlementKeepsWindow`: one challenge window for a settlement, however often
  it is challenged and wherever the chain is cut; FINALIZE only after all of it;
  the whole Funding amount is paid.
* `NoFalseCalm`: when an older Closing Coin has been open for longer than the
  staleness limit, no READY answer (status 200) is without a CRITICAL alert. A
  STALE answer may be: while a poll hangs, the endpoint goes on answering 503
  with `alert_level` NONE for a channel that was open when last seen
  (monitor.rs:200-226), so whoever reads it must look at the status first. The
  aggregator does: it refuses a monitor that is not READY
  (monitor_aggregate.rs:570) and makes its own stale answer CRITICAL (900-904).
* `PlannedIsAccepted`: a plan is for a CHALLENGE the chain takes.
* `MonitorTypeOK`: types, and that one coin has one plan.

All four are proved (`WindowAlwaysKept`, `NeverFalselyCalm`,
`PlansAreAccepted`, `MonitorTypeCorrect`) from `ClosingAssumption`,
`ClaimsAssumption`, `PackagesAssumption` and `StalenessAssumption`.

The chain is proved about on its own. `ChainInvariant`: `ChainInv` says of every
block what `SettlementKeepsWindow` says of its lineage, plus that a Subsequent
coin carries the deadline of the first coin (`LineageGood`); `ForwardInv` says
that a block carries on the lineages of the blocks before it, which a
reorganisation keeps as it only cuts. `WindowIsKept` and `CommitmentsOnlyRise`
(the state a channel would settle by never gets older along a chain) follow.
`MonitorImplementsChain` and `GatesImplementChain` (section 6) prove that every
step of the monitor and of the gates is a step or a stutter of `ChainSpec`, so
what is proved of the chain holds beside both; `WindowAlwaysKept` and
`GatesKeepWindow` are proved that way.

`MonitorInv` adds what a poll carries: a calm snapshot or a poll under way can be
calm only if the chain became overdue after the poll began, so its age bounds
`overdue`, answered READY or STALE alike (`CalmInv`); a plan in hand is for a lineage that was on the chain. The
fold in `EntriesSum` is only expanded for the empty ledger; everywhere else it is
a value.

`SimulationNeedsRemainder` is about a function rather than a behaviour:
`simulate_recovery_closing`, with which the wallet tries its package out, accepts
exactly the acceptable states after State 0 that leave the user a remainder
(see section 8).

There is no fairness here: the monitor exits on errors and the process manager
that restarts it is not in the repository, so that a stale close is *answered*
cannot be claimed of this code; that no READY answer is calm about it, can.

## 6. Challenge gates

### 6.1 State and actions

Three processes on one tower's database: the monitor, the API server and the
operator's commands in the order in which
`mainnet_state_zero_three_watchtower_pipeline.rs` runs them.

| Variable | Code |
| --- | --- |
| `held`, `plans`, `preps`, `approvals`, `rechecks`, `manifests`, `auths`, `receipts` | the tower's tables, one for each gate; of a gate the active rows |
| `monitor`, `api` | how far each has got in its statements |
| `clock` | `unix_now` |

| Action | Code |
| --- | --- |
| `MonitorPoll`, `PersistPlan` | observe and decide, `INSERT OR IGNORE` the plan |
| `WithdrawPreparations`, `WithdrawGates`, `WithdrawAuthorizations` | the UPDATEs of a withdrawal, committed one after another |
| `PrepareOfflineChallenge` | `preparation.rs`; it replaces the coin's preparation and ends what was granted for it |
| `SubmitApproval`, `ApprovalStatus` | `approval.rs` |
| `FinalRecheck`, `FinalRecheckFails` | `final_recheck.rs` |
| `IssueManifest` | `manifest.rs` |
| `AuthorizeRead`, `AuthorizeCount`, `AuthorizeIssue` | `issue_execution_authorization`, which is not one transaction |
| `SimulateRead`, `SimulateCommit` | `simulate_execution_submission`: checks, then one transaction |
| `MonitorDies`, `ApiDies` | a crash between any two statements |

### 6.2 Abstractions

* A record contains the record it was granted on; the code hashes the same
  fields into its id, and compares them.
* An expired row is the same as none; the code's expiring UPDATEs run before
  every read, so rows are dropped as the clock passes them.
* The operator's commands are single steps: each runs alone in the pipeline, and
  what they write is one transaction or is checked again by the next gate. So
  the four statements with which `prepare_offline_challenge` ends the old
  grants and inserts the new preparation (preparation.rs:136-192) are one step:
  a crash or an API request between two of them is not modelled.
* The withdrawal's statements about approvals, rechecks and manifests are one
  step (named *Bound* there): what interleaves with them, the API, reads
  preparations before and authorizations after.
* Signatures are not forged; `Statements` is what approvers sign.
* Submission is simulated, as in the code: it has no broadcast.

### 6.3 Run, properties, proofs

`ChallengeGates.cfg`: a channel closed at State 0, a tower with two packages,
one approver in each of two failure domains whose approvals expire at different
times, TTLs 2, 2 and 1, one submission nonce, heights to 4 with one
reorganisation, the clock to 1. Small as it is, a preparation can be rebuilt
for a newer package or a newer tip while the API is between its statements, the
monitor can die between two withdrawals, an authorization and an approval
expire, and a coin is born again at another height. Deadlock is not checked:
clock and chain are bounded. 748 432 states. The clock binds only TTLs of one
second here, so the boundary of the longer two is the proof's, not the run's.

`ChallengeGatesWithdrawn.cfg` is the same instance with one property that TLC
finds violated, `WithdrawnStays` (below).

* `SubmissionIsFresh`: a submission lies inside every window it was granted in.
* `PreparedIsAccepted`: a preparation is of a plan the monitor stored, for a
  package the tower holds; and as long as the tip is the one it was made at, the
  chain takes the prepared CHALLENGE.
* `OnlyCurrentSubmitted`: nothing is submitted for a preparation that has been
  replaced, whatever was under way.
* `GatesTypeOK`: types, and one plan and one preparation for a coin.

All four are proved (`SubmissionsAreFresh`, `PreparedAreAccepted`,
`OnlyCurrentAreSubmitted`, `GatesTypeCorrect`); besides the chain's assumptions
they need `GatesAssumption`. `GatesInv` has four parts. `TowerInv` is about the
tables and the plan in the monitor's hand. `PreparedInv`: two blocks of one
height and branch are the same block, so a tip that is recognised is the whole
chain the preparation saw; that is why `Peak` is a height *and* a branch and
why a block keeps the branch it was made on. `GrantsInv`: the windows are
nested, and what the API holds came from a manifest that was current when it
read the clock. `CurrentInv`: an active grant, and one the API is about to
make, is for the preparation its coin has now; this is the part that is not
obvious, as `AuthorizeIssue` writes without looking again and only holds
because rebuilding a preparation gives it a later epoch.

Besides these: `PlansAreForGood` (no step removes or replaces a plan) and
`PreparedArePlanned`, which needs it (`PlannedInv`: every preparation is of a
stored plan); `SubmissionsAreOnce`: a manifest and a submission nonce are used
once, because the API holds its mutex from looking for a receipt to writing one
(`SubmittingOnce`); `GatesImplementChain` and `GatesKeepWindow` (section 5.4).

What the model shows that a reader may not expect: an API request that read
before a withdrawal and writes after it leaves an authorization the monitor
wanted gone, for at most `AuthTTL`, and never for a replaced preparation
(`SimulateRead` looks at the manifest again, which is gone).

Finding, `WithdrawnStays`: watchtower-v3_6/README.md:67 says that a record once
withdrawn cannot regain its green light and has to be built and verified anew.
`approval_status` decides on the preparation it has read and then updates by
`closing_coin_id` alone (approval.rs:383-394). When the monitor withdraws the
preparation in between, `AuthorizeCount` writes AWAITING_APPROVAL over
CHAIN_RECHECK_REQUIRED, and the preparation can be worked with again although
nothing was rebuilt. What the later gates check still holds of it:
`PreparedIsAccepted`, `SubmissionIsFresh` and `OnlyCurrentSubmitted` are checked
and proved with that overwriting in the model.

## 7. Audit and backup

### 7.1 State and actions

| Variable | Code |
| --- | --- |
| `db` | packages, `v36_execution_audit_events`, handoffs, drills of the database in service |
| `anchors`, `files` | what is kept outside it: audit anchors, encrypted backups with their manifests |
| `backup`, `verifying`, `candidates` | commands under way, and a list the operator works through |
| `made`, `restoredTo` | history |

| Action | Code |
| --- | --- |
| `AcceptPackage`, `Authorize`, `CreateAnchor` | others write; `create_execution_audit_anchor` |
| `BackupReads`, `BackupChecks`, `BackupVacuums`, `BackupEnds` | `create_database_backup`, statement by statement, and its encryption |
| `Restore`, `Decay` | `restore_encrypted_database_backup`; a file is damaged |
| `RecordHandoff`, `VerifyReads`, `RejectLooks`, `VerifyWrites`, `VerifyDies` | handoffs and their verification, by several processes |
| `Drill`, `ListCandidates`, `RemoveCandidate` | `run_backup_restore_drill`, `backup_retention_candidates`, the operator |

A hash chain's head stands for all before it, a file hash for the content, and
an authenticated file decrypts to what was encrypted or not at all. Events have
distinct times.

### 7.2 Run, properties, proofs

`AuditBackup.cfg`: two backups, one anchor, two verifiers (symmetric), six
timed events, `KeepLatest` 1. That is enough for a chain to be forked by
restoring an older backup and to grow past the anchor's count again, for both
verifiers to examine one file before either writes and with the file decaying
between them, and for a retention list to outlive a restore. Deadlock is not
checked: time is bounded. About 1.9 million states.

* `AnchoredIsKept`: a database restored under an anchor keeps the anchored
  events and packages.
* `ManifestIsPrefix`: a manifest never claims what its backup does not have.
* `FirstVerdictStands`: the first verdict on a handoff is the one in force, and
  the audit chain has it.
* `NewestAreKept`: retention never takes the newest backups.
* `BackupTypeOK`: types, and a drill passed only by a verified handoff.

All five are proved (`AuditProofs`) from `BackupAssumption` alone. `AuditInv`
says the same of the database in service and of every backup (`DatabaseGood`),
as each may be the other tomorrow; that a backup under way has read a prefix of
the chain (`BackupOK`); what a verifier holds (`VerifyingOK`); and that whoever
is a candidate has enough newer backups in `made` (`KeptOK`), where removal and
new backups only add to `made \ files` what `Cardinality` is monotone in.

`FirstVerdictStands` tolerates one thing: the verification's UPDATE is not
checked for having changed a row, so the audit chain may record a second,
opposite verdict that never took effect (backup.rs:254).

## 8. Observations

Met while modelling; none is a property of its own.

* The lineage a tower follows has at most 64 coins; on a longer one every poll
  is `Unknown`, which is CRITICAL and plans nothing.
* The monitor must hold the package of the state the chain is at
  (monitor.rs:494, 612) to observe it at all.
* A block between the monitor's reading of the peak and of the coins makes it
  exit with an error; the next poll sees both.
* A tower that has a plan for a Closing Coin and then accepts a newer package
  keeps the plan (`INSERT OR IGNORE`) and cannot prepare a challenge of that coin
  any more: preparation.rs:83 asks for a new plan, which nothing makes. In
  `ChallengeGates` that is `PersistPlan` against `plan.target = Latest`;
  `PlansAreForGood` proves that the plan stays and `PreparedArePlanned` that only
  what it says is prepared.
* A ledger may reserve the whole Funding amount: `Ledger::validate` and the
  puzzles accept it and FINALIZE then creates no remainder coin.
  `simulate_recovery_closing` expects that coin always (closing.rs:406, 464), so
  the wallet's preview of closing refuses such a package, and that of State 0,
  for which the Funding puzzle asks no signature (closing.rs:334). Closing itself
  is not affected.
* `reconcile_offline_preparation` only looks at the preparation of the Closing
  Coin it observes, so that of one which has since been challenged stays active;
  it cannot pass a final recheck.
* The aggregator's `AlertStore::record` resolves the last alert and inserts the
  next in two statements; a crash in between leaves neither open until the next
  round.
* The retention policy skips the newest files whether or not they were drilled.
* `verify_execution_audit_chain` reads head and events in two statements; an
  append in between is reported as corruption, and not on the next run.
* An anchor of an empty chain holds only while the chain is empty.

## 9. Not modelled

* The aggregator of three monitors (`monitor_aggregate.rs`): it votes anew over
  three answers in every round and keeps a log of alerts, which nothing but an
  operator reads. What could go wrong is between three monitors and the chain,
  and three of those beside one chain are beyond TLC; `NoFalseCalm` is what the
  vote needs of each monitor it counts.
* The merchant's payment coin after FINALIZE (with what
  `simulate_recovery_closing` tries of it), the green light of the single-VPS
  test, `record_simulated_broadcast_failure` (nothing calls it) and the
  comparison of backup replicas (it changes nothing).
* The wallet (the browser keeps a pending request, the HUB decides), the legacy
  MVP and its transport (V3.6 shares nothing with them), and deployment scripts.
* Of what is modelled, what the sections "Abstractions" name.
* protocol-v3_6.md:759 says that towers issue no first confirmation or green
  light from height S on. The code of `CustodyGreenlight` (lib.rs:684) reads no
  height, and its tables and the monitor's share nothing, so a model of the two
  together would only repeat that.
