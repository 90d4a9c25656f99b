---------------------------- MODULE ChainMonitor ----------------------------
(***************************************************************************)
(* What one watchtower's monitor (watchtower-v3_6/src/monitor.rs) makes of *)
(* the chain: the observation it builds from its full node, and the        *)
(* decision it takes from the packages and the plans it holds.             *)
(*                                                                         *)
(* These are the functions of the code, without its tables: ChallengeGates *)
(* and ClosingMonitor keep those.                                          *)
(***************************************************************************)
EXTENDS ClosingChain

CONSTANTS
    Packages,       \* the RecoveryPackages of the one ledger towers are given
    MaxTransitions  \* how many Closing Coins of a lineage a tower follows: 64

\* A package never commits to State 0.
PackageValid(p) == Acceptable(p) /\ p.seq \in Nat \ {0}

\* PackageStore models how a tower comes to hold valid packages of one ledger.
ASSUME PackagesAssumption ==
    /\ Packages \subseteq States
    /\ MaxTransitions \in Nat
    /\ \A p \in Packages : PackageValid(p)
    /\ \A p, q \in Packages : p.seq = q.seq => p = q

\* latest_package
LatestOf(held) == CHOOSE p \in held : \A q \in held : q.seq <= p.seq

\* What the solutions of a lineage's spends reveal.
StatesOf(path) == [i \in DOMAIN path |-> path[i].claim]

\* require_state_zero_binding and require_checkpoint_binding.
Known(state, held) == state.seq = 0 \/ state \in held

\* build_observation goes from coin to coin, but not for ever.
Follows(path, held) ==
    /\ Len(path) <= MaxTransitions
    /\ \A i \in DOMAIN path : Known(StatesOf(path)[i], held)

\* verify_closing_coin and verify_state_zero_closing_coin: the coin commits to a
\* state that the tower knows, and only the Initial one to State 0.
Verified(path, held) ==
    path # <<>> =>
        IF Last(path).claim.seq = 0 THEN IsInitial(path) ELSE Last(path).claim \in held

Unknown == [peak |-> [height |-> 0, branch |-> 0], path |-> <<>>, done |-> FALSE]

\* Any of the RPCs may fail.  That the Initial Closing Coin is missing although
\* the Funding Coin is spent, which only a reorganisation between two RPCs can
\* show, counts as that: ReorgPending has the consequences of Unknown.
ObservationsOf(held) ==
    {Unknown} \cup
    (IF Follows(Here.path, held) /\ Verified(Here.path, held)
     THEN {[peak |-> Peak, path |-> Here.path, done |-> Here.done]} ELSE {})

DeadlineOfLast(path) == Last(path).birth + ChallengeBlocks              \* mutant

\* The tower counts every deadline from the first Closing Coin of a lineage.
ChallengeDeadline(path) == path[1].birth + ChallengeBlocks

DeadlineIncluded(peak, path) == peak.height <= ChallengeDeadline(path)  \* mutant

InTime(peak, path) == peak.height < ChallengeDeadline(path)

\* The unspent Closing Coin commits to an older state than the tower's, and
\* the challenge window is open.
Stale(obs, latest) ==
    /\ obs.path # <<>> /\ ~obs.done
    /\ Last(obs.path).claim.seq < latest.seq
    /\ InTime(obs.peak, obs.path)

\* Actions that mean the tower has seen a Closing Coin.
SawClosing ==
    {"ClosingCurrent", "ChallengePlanned", "ChallengeAlreadyPlanned", "DeadlinePassed"}

\* evaluate_observation, from whether the coin has a plan and whether the
\* action persisted before is of SawClosing.
Decision(obs, latest, planned, saw) ==
    CASE obs = Unknown                        -> "Unknown"
      [] obs # Unknown /\ obs.path = <<>>     ->
            IF saw THEN "ReorgPending" ELSE "FundingOpen"
      [] obs.done                             -> "Finalized"
      [] Stale(obs, latest)                   ->
            IF planned THEN "ChallengeAlreadyPlanned" ELSE "ChallengePlanned"
      [] obs.path # <<>> /\ ~obs.done /\ ~Stale(obs, latest) ->
            IF Last(obs.path).claim.seq >= latest.seq THEN "ClosingCurrent"
                                                      ELSE "DeadlinePassed"

\* challenge_spend_material and, for a lineage that is still at State 0,
\* state_zero_challenge_spend_material.
ChallengeMaterial(path, target) ==
    /\ Acceptable(Last(path).claim) /\ Acceptable(target)
    /\ target.seq > Last(path).claim.seq

StateZeroMaterial(path, target) ==
    /\ IsInitial(path)
    /\ Acceptable(target)
    /\ target.seq > 0

Buildable(path, target) ==
    IF Last(path).claim.seq = 0 THEN StateZeroMaterial(path, target)
                                ELSE ChallengeMaterial(path, target)
=============================================================================
