--------------------------- MODULE ChallengeGates ---------------------------
(***************************************************************************)
(* One watchtower and one Funding Coin: what the tower makes of the chain, *)
(* and the gates a CHALLENGE passes before its submission is simulated.    *)
(*                                                                         *)
(* Three processes share the tower's database.  The monitor                *)
(* (watchtower-v3_6/src/bin/monitor.rs) polls the chain, persists its      *)
(* decision and withdraws what the chain has overtaken, one SQL statement  *)
(* after another.  The API server answers one request at a time, but its   *)
(* statements interleave with the monitor's.  The operator's commands, as  *)
(* mainnet_state_zero_three_watchtower_pipeline.rs runs them, are single   *)
(* steps.  Monitor and API may die between any two statements.             *)
(*                                                                         *)
(* A record of a gate holds the record of the gate before it: the code     *)
(* hashes the same fields into its ids and compares them column by column. *)
(* Only active rows are kept, and a row is judged by the clock when it is  *)
(* read, as the code's expiring UPDATEs do before every read.              *)
(***************************************************************************)
EXTENDS ChainMonitor, FiniteSets

CONSTANTS
    Approvers,      \* approver_id
    DomainOf,       \* the failure_domain each of them signs for
    Statements,     \* approval statements: [approver, expires]
    SubmissionNonces,   \* submission_nonce
    RecheckTTL,     \* FINAL_RECHECK_TTL_SECONDS
    ManifestTTL,    \* EXECUTION_MANIFEST_TTL_SECONDS
    AuthTTL,        \* EXECUTION_AUTHORIZATION_TTL_SECONDS
    FirstPackage,   \* the package the tower holds when the chain begins
    MaxClock        \* bound: the clock stops there, and so do preparation epochs

\* What an approver signs for one preparation.
ApprovalStatements == [approver : Approvers, expires : Nat]

ASSUME GatesAssumption ==
    /\ FirstPackage \in Packages
    /\ DomainOf \in [Approvers -> STRING]
    /\ Statements \subseteq ApprovalStatements
    /\ RecheckTTL \in Nat /\ ManifestTTL \in Nat /\ AuthTTL \in Nat /\ MaxClock \in Nat

VARIABLES
    clock,          \* unix_now, the same for all processes of the tower
    held,           \* v36_watchtower_packages
    plans,          \* v36_challenge_plans: [path, target]
    preps,          \* v36_offline_challenge_preparations: [id, status]
    approvals,      \* v36_challenge_approvals: [prep, approver, expires, active]
    rechecks,       \* v36_final_chain_rechecks that are VERIFIED
    manifests,      \* v36_execution_manifests that are VERIFIED
    auths,          \* v36_execution_authorizations that are AUTHORIZED
    receipts,       \* v36_simulated_submission_receipts
    monitor,        \* where the monitor's poll is
    api             \* where the API's request is

gateVars == <<rechecks, manifests, auths>>
vars == <<blocks, branch, clock, held, plans, preps, approvals,
          rechecks, manifests, auths, receipts, monitor, api>>

-----------------------------------------------------------------------------
(* What the tower makes of the chain.                                      *)

Latest == LatestOf(held)
Observations == ObservationsOf(held)

PlansOf(coin) == {plan \in plans : CoinId(plan.path) = coin}
PrepsOf(coin) == {prep \in preps : CoinId(prep.id.path) = coin}

Planned(obs) == PlansOf(CoinId(obs.path)) # {}
Challenging(obs) == Stale(obs, Latest)

-----------------------------------------------------------------------------
(* Approvals of a preparation.                                             *)

Withdrawn == {"ChainRecheckRequired", "Invalidated"}

Counted(id, rows) ==
    {row \in rows : row.prep = id /\ row.active /\ row.expires > clock}

\* expire_approvals
Expire(id, rows) ==
    {[row EXCEPT !.active = row.active /\ ~(row.prep = id /\ row.expires <= clock)] : row \in rows}

Signed(rows) == {[approver |-> row.approver, expires |-> row.expires] : row \in rows}

\* Two approvals, of two failure domains.
IsDual(signed) ==
    /\ Cardinality(signed) = 2
    /\ \A s, t \in signed : s # t => DomainOf[s.approver] # DomainOf[t.approver]

ApprovalOf(id, rows) ==
    LET counted == Counted(id, rows)
        domains == {DomainOf[row.approver] : row \in counted}
    IN  IF Cardinality(counted) >= 2 /\ Cardinality(domains) >= 2 THEN "DualApproved"
        ELSE IF Cardinality(counted) = 1 THEN "PartiallyApproved"
        ELSE "AwaitingApproval"

RowWrittenBack(prep, status) ==                                         \* mutant
    IF prep.status \in Withdrawn \cup {status} THEN preps
    ELSE (preps \ {prep}) \cup {[prep EXCEPT !.status = status]}

\* approval_status writes the status it finds, unless the preparation it read
\* before was withdrawn or has it already.
WithStatus(prep, status) ==
    IF prep.status \in Withdrawn \cup {status} THEN preps
    ELSE {IF CoinId(p.id.path) = CoinId(prep.id.path) THEN [p EXCEPT !.status = status]
          ELSE p : p \in preps}

-----------------------------------------------------------------------------
Init ==
    /\ ChainInit
    /\ clock = 0
    /\ held = {FirstPackage}
    /\ plans = {} /\ preps = {} /\ approvals = {}
    /\ rechecks = {} /\ manifests = {} /\ auths = {} /\ receipts = {}
    /\ monitor = [pc |-> "Idle"]
    /\ api = [pc |-> "Idle"]

\* What final_chain_recheck, execution_manifest and execution_authorization still
\* find; a submission that is under way has read its authorization before.
LiveRechecks(now) == {k \in rechecks : k.expires > now}
LiveManifests(now) == {m \in manifests : m.expires > now}
LiveAuths(now) == {a \in auths : a.expires > now \/ (api.pc = "Submit" /\ api.auth = a)}

Tick ==
    /\ clock < MaxClock
    /\ clock' = clock + 1
    /\ rechecks' = LiveRechecks(clock + 1)
    /\ manifests' = LiveManifests(clock + 1)
    /\ auths' = LiveAuths(clock + 1)
    /\ UNCHANGED <<blocks, branch, held, plans, preps, approvals, receipts, monitor, api>>

\* A package of the ledger is accepted (PackageStore models how).
AcceptPackage(p) ==
    /\ p \notin held
    /\ held' = held \cup {p}
    /\ UNCHANGED <<blocks, branch, clock, plans, preps, approvals, gateVars,
                   receipts, monitor, api>>

Chain ==
    /\ ChainNext
    /\ UNCHANGED <<clock, held, plans, preps, approvals, gateVars,
                   receipts, monitor, api>>

-----------------------------------------------------------------------------
(* The monitor.                                                            *)

\* reconcile_offline_preparation leaves a preparation alone only if the
\* observation is the one it was made from.
Unchanged(prep, obs) ==
    /\ prep.id.peak = obs.peak
    /\ Last(prep.id.path).birth = Last(obs.path).birth
    /\ InTime(obs.peak, prep.id.path)
    /\ Challenging(obs)

\* Withdraw from the preparation of one coin, or from all if coin is <<>>.
\* Statements that would match no row are not waited for.
Withdraw(coin, to) ==
    LET Of(id) == coin = <<>> \/ coin = CoinId(id.path)
    IN  IF \/ \E p \in preps : Of(p.id) /\ p.status \notin (IF coin = <<>> THEN Withdrawn ELSE {to})
           \/ \E row \in approvals : Of(row.prep) /\ row.active
           \/ \E k \in rechecks : Of(k.prep)
           \/ \E m \in manifests : Of(m.recheck.prep)
           \/ \E a \in auths : Of(a.manifest.recheck.prep)
        THEN [pc |-> "Preparations", coin |-> coin, to |-> to]
        ELSE [pc |-> "Idle"]

\* A poll reads the chain, decides, and finds what to withdraw.
MonitorPoll(obs) ==
    /\ monitor.pc = "Idle"
    /\ obs \in Observations
    /\ monitor' =
         IF obs = Unknown THEN Withdraw(<<>>, "ChainRecheckRequired")
         ELSE IF obs.path = <<>> THEN Withdraw(<<>>, "Invalidated")
         ELSE IF \E prep \in PrepsOf(CoinId(obs.path)) : ~Unchanged(prep, obs)
              THEN Withdraw(CoinId(obs.path), "Invalidated")
         ELSE IF Challenging(obs) /\ ~Planned(obs)
              THEN [pc |-> "Plan", plan |-> [path |-> obs.path, target |-> Latest]]
         ELSE [pc |-> "Idle"]
    /\ UNCHANGED <<blocks, branch, clock, held, plans, preps, approvals, gateVars,
                   receipts, api>>

InScope(id) == monitor.coin = <<>> \/ monitor.coin = CoinId(id.path)

MonitorStep(from, to) ==
    /\ monitor.pc = from
    /\ monitor' = IF to = "Idle" THEN [pc |-> "Idle"] ELSE [monitor EXCEPT !.pc = to]
    /\ UNCHANGED <<blocks, branch, clock, held, receipts, api>>

WithdrawPreparations ==
    /\ MonitorStep("Preparations", "Gates")
    /\ preps' = {IF InScope(p.id) /\ (monitor.coin = <<>> => p.status \notin Withdrawn)
                 THEN [p EXCEPT !.status = monitor.to] ELSE p : p \in preps}
    /\ UNCHANGED <<plans, approvals, gateVars>>

RevokeApprovals ==
    approvals' = {[row EXCEPT !.active = row.active /\ ~InScope(row.prep)] : row \in approvals}

InvalidateRechecks == rechecks' = {k \in rechecks : ~InScope(k.prep)}
InvalidateManifests == manifests' = {m \in manifests : ~InScope(m.recheck.prep)}

\* Bound: the statements about approvals, rechecks and manifests are one step.
WithdrawGates ==
    /\ MonitorStep("Gates", "Authorizations")
    /\ RevokeApprovals
    /\ InvalidateRechecks
    /\ InvalidateManifests
    /\ UNCHANGED <<plans, preps, auths>>

WithdrawAuthorizations ==
    /\ MonitorStep("Authorizations", "Idle")
    /\ auths' = {a \in auths : ~InScope(a.manifest.recheck.prep)}
    /\ UNCHANGED <<plans, preps, approvals, rechecks, manifests>>

\* INSERT OR IGNORE: the first plan of a Closing Coin stays.
PersistPlan ==
    /\ MonitorStep("Plan", "Idle")
    /\ plans' = IF PlansOf(CoinId(monitor.plan.path)) = {} THEN plans \cup {monitor.plan} ELSE plans
    /\ UNCHANGED <<preps, approvals, gateVars>>

MonitorDies ==
    /\ monitor.pc # "Idle"
    /\ monitor' = [pc |-> "Idle"]
    /\ UNCHANGED <<blocks, branch, clock, held, plans, preps, approvals, gateVars,
                   receipts, api>>

-----------------------------------------------------------------------------
(* The operator's commands.                                                *)

\* Everything of these preparations that is still active ends.
EndGates(Ended(_)) ==
    /\ rechecks' = {k \in rechecks : ~Ended(k.prep)}
    /\ manifests' = {m \in manifests : ~Ended(m.recheck.prep)}
    /\ auths' = {a \in auths : ~Ended(a.manifest.recheck.prep)}

\* The later of now and the second after the previous preparation.
IsEpoch(epoch, coin) ==
    LET times == {clock} \cup {prep.id.epoch + 1 : prep \in PrepsOf(coin)}
    IN  epoch \in times /\ \A t \in times : t <= epoch

SamePrepRow(coin) == UNCHANGED gateVars                                 \* mutant

\* Rows of the preparation that is replaced are never read again: its id has
\* an earlier epoch.
RebuildEnds(coin) == EndGates(LAMBDA id : CoinId(id.path) = coin)

Matches(plan, obs) == plan.path[1].birth = obs.path[1].birth

PrepareOfflineChallenge(obs) ==
    /\ obs \in Observations
    /\ obs.path # <<>> /\ ~obs.done
    /\ InTime(obs.peak, obs.path)
    /\ Buildable(obs.path, Latest)
    /\ LET coin == CoinId(obs.path)
       IN  /\ \E plan \in PlansOf(coin) : Matches(plan, obs) /\ plan.target = Latest
           /\ \E epoch \in 0..MaxClock :
                 /\ IsEpoch(epoch, coin)
                 /\ preps' = (preps \ PrepsOf(coin)) \cup
                                {[ id |-> [ path |-> obs.path, target |-> Latest,
                                            peak |-> obs.peak, epoch |-> epoch ],
                                   status |-> "AwaitingApproval" ]}
           /\ approvals' = {row \in approvals : CoinId(row.prep.path) # coin}
           /\ RebuildEnds(coin)
    /\ UNCHANGED <<blocks, branch, clock, held, plans, receipts, monitor, api>>

\* submit_challenge_approval: a statement for this preparation, once for each
\* approver and never two active ones of a failure domain.
SubmitApproval(prep, approver, expires) ==
    /\ expires > clock
    /\ prep.status \notin Withdrawn
    /\ ~ \E row \in approvals : row.prep = prep.id /\ row.approver = approver
    /\ ApprovalOf(prep.id, approvals) # "DualApproved"
    /\ \A row \in Counted(prep.id, approvals) : DomainOf[row.approver] # DomainOf[approver]
    /\ approvals' = Expire(prep.id, approvals) \cup
                      {[prep |-> prep.id, approver |-> approver, expires |-> expires, active |-> TRUE]}
    /\ preps' = WithStatus(prep, ApprovalOf(prep.id, approvals'))
    /\ UNCHANGED <<blocks, branch, clock, held, plans, gateVars, receipts, monitor, api>>

\* approval_status, which every later gate starts with.
ReadApprovals(prep) ==
    /\ approvals' = Expire(prep.id, approvals)
    /\ preps' = WithStatus(prep, ApprovalOf(prep.id, approvals))

ApprovalStatus(prep) ==
    /\ ReadApprovals(prep)
    /\ <<preps, approvals>>' # <<preps, approvals>>
    /\ UNCHANGED <<blocks, branch, clock, held, plans, gateVars, receipts, monitor, api>>

\* perform_final_chain_recheck compares the fresh observation with the
\* prepared one.
RecheckPasses(prep, obs) ==
    /\ obs.path # <<>> /\ ~obs.done
    /\ CoinId(obs.path) = CoinId(prep.id.path)
    /\ prep.status \notin Withdrawn
    /\ IsDual(Signed(Counted(prep.id, approvals)))
    /\ InTime(obs.peak, prep.id.path)
    /\ obs.peak = prep.id.peak
    /\ Last(obs.path).birth = Last(prep.id.path).birth
    /\ Challenging(obs)

FinalRecheck(prep, obs) ==
    /\ obs \in Observations
    /\ RecheckPasses(prep, obs)
    /\ LET signed == Signed(Counted(prep.id, approvals))
           Recheck(expires) == [ prep |-> prep.id, approvals |-> signed, at |-> clock,
                                 expires |-> expires ]
       IN  \E expires \in {clock + RecheckTTL} \cup {s.expires : s \in signed} :
              /\ clock < expires /\ expires <= clock + RecheckTTL
              /\ \A s \in signed : expires <= s.expires
              /\ Recheck(expires) \notin rechecks
              /\ rechecks' = {k \in rechecks : k.prep # prep.id} \cup {Recheck(expires)}
    /\ manifests' = {m \in manifests : m.recheck.prep # prep.id}
    /\ auths' = {a \in auths : a.manifest.recheck.prep # prep.id}
    /\ ReadApprovals(prep)
    /\ UNCHANGED <<blocks, branch, clock, held, plans, receipts, monitor, api>>

\* poll_final_chain_recheck: any other outcome withdraws every preparation.
FinalRecheckFails(obs) ==
    /\ obs \in Observations
    /\ preps # {}
    /\ ~ \E prep \in preps : RecheckPasses(prep, obs)
    /\ preps' = {IF p.status \in Withdrawn THEN p
                 ELSE [p EXCEPT !.status = "ChainRecheckRequired"] : p \in preps}
    /\ approvals' = {[row EXCEPT !.active = FALSE] : row \in approvals}
    /\ EndGates(LAMBDA id : TRUE)
    /\ UNCHANGED <<blocks, branch, clock, held, plans, receipts, monitor, api>>

\* The gate's preparation and approvals are still the tower's.
StillApproved(recheck, prep) ==
    /\ prep.id = recheck.prep
    /\ prep.status \notin Withdrawn
    /\ Signed(Counted(prep.id, approvals)) = recheck.approvals

Earlier(s, t) == IF s <= t THEN s ELSE t

ManifestUntil(recheck) == clock + ManifestTTL                           \* mutant

ManifestExpiry(recheck) == Earlier(clock + ManifestTTL, recheck.expires)

IssueManifest(recheck, prep) ==
    /\ recheck \in rechecks
    /\ clock < recheck.expires
    /\ StillApproved(recheck, prep)
    /\ LET manifest == [recheck |-> recheck, at |-> clock, expires |-> ManifestExpiry(recheck)]
       IN  /\ manifest.expires > clock
           /\ manifest \notin manifests
           /\ manifests' = {m \in manifests : m.recheck # recheck} \cup {manifest}
    /\ auths' = {a \in auths : a.manifest.recheck # recheck}
    /\ ReadApprovals(prep)
    /\ UNCHANGED <<blocks, branch, clock, held, plans, rechecks, receipts, monitor, api>>

-----------------------------------------------------------------------------
(* The API: a request takes the mutex, so one is under way at a time.      *)

Consumed(manifest) == \E r \in receipts : r.auth.manifest = manifest

\* issue_execution_authorization reads the manifest, its recheck and the
\* preparation,
AuthorizeRead(manifest, prep) ==
    /\ api.pc = "Idle"
    /\ manifest \in manifests /\ clock < manifest.expires
    /\ ~Consumed(manifest)
    /\ manifest.recheck \in rechecks /\ clock < manifest.recheck.expires
    /\ prep.id = manifest.recheck.prep
    /\ api' = [pc |-> "Count", manifest |-> manifest, prep |-> prep, now |-> clock]
    /\ UNCHANGED <<blocks, branch, clock, held, plans, preps, approvals, gateVars,
                   receipts, monitor>>

\* then counts the approvals and writes the status they make, whatever the
\* monitor has made of it meanwhile,
AuthorizeCount ==
    /\ api.pc = "Count"
    /\ LET id == api.prep.id
           rows == {r \in approvals : r.prep = id /\ r.active /\ r.expires > api.now}
           two == IsDual(Signed(rows))
       IN  /\ preps' = WithStatus(api.prep,
                                  IF two THEN "DualApproved"
                                  ELSE IF Cardinality(rows) = 1 THEN "PartiallyApproved"
                                  ELSE "AwaitingApproval")
           /\ approvals' = {[r EXCEPT !.active = r.active /\ ~(r.prep = id /\ r.expires <= api.now)] :
                               r \in approvals}
           /\ api' = IF two /\ api.prep.status \notin Withdrawn
                        /\ Signed(rows) = api.manifest.recheck.approvals
                     THEN [pc |-> "Issue", manifest |-> api.manifest, now |-> api.now]
                     ELSE [pc |-> "Idle"]
    /\ UNCHANGED <<blocks, branch, clock, held, plans, gateVars, receipts, monitor>>

\* and inserts the authorization without looking at the manifest again.
AuthorizeIssue ==
    /\ api.pc = "Issue"
    /\ LET auth == [ manifest |-> api.manifest, at |-> api.now,
                     expires |-> Earlier(api.now + AuthTTL, api.manifest.expires) ]
       IN  auths' = IF auth.expires > api.now
                    THEN {a \in auths : a.manifest # api.manifest} \cup {auth} ELSE auths
    /\ api' = [pc |-> "Idle"]
    /\ UNCHANGED <<blocks, branch, clock, held, plans, preps, approvals, rechecks,
                   manifests, receipts, monitor>>

\* simulate_execution_submission looks at the authorization and at the
\* manifest; a manifest that ended takes the authorization with it.
Submittable(auth) ==
    /\ clock < auth.expires
    /\ auth.manifest \in manifests
    /\ clock < auth.manifest.expires

SimulateRead(auth, nonce) ==
    /\ api.pc = "Idle"
    /\ auth \in auths
    /\ ~Consumed(auth.manifest)
    /\ ~ \E r \in receipts : r.nonce = nonce
    /\ IF Submittable(auth)
       THEN /\ api' = [pc |-> "Submit", auth |-> auth, nonce |-> nonce, now |-> clock]
            /\ UNCHANGED auths
       ELSE auths' = auths \ {auth} /\ UNCHANGED api
    /\ UNCHANGED <<blocks, branch, clock, held, plans, preps, approvals, rechecks,
                   manifests, receipts, monitor>>

\* One transaction: consume the authorization if it is still active, and
\* record the receipt.
SimulateCommit ==
    /\ api.pc = "Submit"
    /\ api' = [pc |-> "Idle"]
    /\ auths' = auths \ {api.auth}
    /\ receipts' = IF api.auth \in auths
                   THEN receipts \cup {[auth |-> api.auth, nonce |-> api.nonce, at |-> api.now]}
                   ELSE receipts
    /\ UNCHANGED <<blocks, branch, clock, held, plans, preps, approvals, rechecks,
                   manifests, monitor>>

ApiDies ==
    /\ api.pc # "Idle"
    /\ api' = [pc |-> "Idle"]
    /\ UNCHANGED <<blocks, branch, clock, held, plans, preps, approvals, gateVars,
                   receipts, monitor>>

-----------------------------------------------------------------------------
MonitorNext ==
    \/ \E obs \in Observations : MonitorPoll(obs)
    \/ WithdrawPreparations \/ WithdrawGates \/ WithdrawAuthorizations
    \/ PersistPlan
    \/ MonitorDies

OperatorNext ==
    \/ \E obs \in Observations : PrepareOfflineChallenge(obs) \/ FinalRecheckFails(obs)
    \/ \E prep \in preps :
          \/ \E s \in Statements : SubmitApproval(prep, s.approver, s.expires)
          \/ ApprovalStatus(prep)
          \/ \E obs \in Observations : FinalRecheck(prep, obs)
          \/ \E recheck \in rechecks : IssueManifest(recheck, prep)

\* mainnet_state_zero_execution_dry_run.rs takes the API's place at times.
ApiNext ==
    \/ \E prep \in preps, manifest \in manifests : AuthorizeRead(manifest, prep)
    \/ AuthorizeCount \/ AuthorizeIssue
    \/ \E auth \in auths, nonce \in SubmissionNonces : SimulateRead(auth, nonce)
    \/ SimulateCommit
    \/ ApiDies

Next ==
    \/ Tick
    \/ Chain
    \/ \E p \in Packages : AcceptPackage(p)
    \/ MonitorNext
    \/ OperatorNext
    \/ ApiNext

Spec == Init /\ [][Next]_vars

-----------------------------------------------------------------------------
(* Types: what a row of each table, and each process, can hold.            *)

PrepIds == [ path : Seq(ClosingCoins), target : Packages,
             peak : [height : 1..MaxHeight, branch : 0..MaxReorgs], epoch : 0..MaxClock ]
Preps == [ id : PrepIds,
           status : Withdrawn \cup {"AwaitingApproval", "PartiallyApproved", "DualApproved"} ]
Rows == [prep : PrepIds, approver : Approvers, expires : Nat, active : BOOLEAN]
Rechecks == [prep : PrepIds, approvals : SUBSET Statements, at : 0..MaxClock, expires : Nat]
Manifests == [recheck : Rechecks, at : 0..MaxClock, expires : Nat]
Auths == [manifest : Manifests, at : 0..MaxClock, expires : Nat]
Receipts == [auth : Auths, nonce : SubmissionNonces, at : 0..MaxClock]

ApiStates ==
    [pc : {"Idle"}]
    \cup [pc : {"Count"}, manifest : Manifests, prep : Preps, now : 0..MaxClock]
    \cup [pc : {"Issue"}, manifest : Manifests, now : 0..MaxClock]
    \cup [pc : {"Submit"}, auth : Auths, nonce : SubmissionNonces, now : 0..MaxClock]

\* Every table holds rows of its own kind; a Closing Coin has one plan and one
\* preparation (the PRIMARY KEYs of lib.rs).
GatesTypeOK ==
    /\ ClosingTypeOK
    /\ clock \in 0..MaxClock
    /\ held \subseteq Packages /\ held # {}
    /\ \A plan \in plans : plan.path \in Seq(ClosingCoins) /\ plan.target \in Packages
    /\ \A plan, other \in plans : CoinId(plan.path) = CoinId(other.path) => plan = other
    /\ preps \subseteq Preps
    /\ \A p, q \in preps : CoinId(p.id.path) = CoinId(q.id.path) => p = q
    /\ approvals \subseteq Rows /\ Signed(approvals) \subseteq Statements
    /\ rechecks \subseteq Rechecks /\ manifests \subseteq Manifests
    /\ auths \subseteq Auths /\ receipts \subseteq Receipts
    /\ api \in ApiStates

-----------------------------------------------------------------------------
SoundRecheck(k) ==
    /\ IsDual(k.approvals)
    /\ \A s \in k.approvals : k.expires <= s.expires
    /\ k.expires <= k.at + RecheckTTL

\* A submission is recorded inside every window it was granted in: its
\* authorization, manifest and final recheck are all unexpired at the time the
\* request read the clock, each for no longer than its own TTL and no longer
\* than the one before it, and the recheck rests on approvals of two failure
\* domains that are unexpired too (final_recheck.rs, manifest.rs and
\* authorization.rs each bound their expiry by their parent's).
SubmissionIsFresh ==
    \A r \in receipts :
        LET auth == r.auth  manifest == auth.manifest  recheck == manifest.recheck
        IN  /\ r.at < auth.expires
            /\ auth.at <= r.at
            /\ auth.expires <= manifest.expires /\ auth.expires <= auth.at + AuthTTL
            /\ manifest.expires <= recheck.expires /\ manifest.expires <= manifest.at + ManifestTTL
            /\ recheck.at <= manifest.at /\ manifest.at <= auth.at
            /\ SoundRecheck(recheck)

\* Of one Closing Coin, at the same deadline, and for the same package.
SameChallenge(plan, id) ==
    /\ CoinId(plan.path) = CoinId(id.path) /\ plan.path[1].birth = id.path[1].birth
    /\ plan.target = id.target

\* Whatever was prepared is what the chain would take, and what the tower first
\* planned: as long as the tip is the block a preparation was made from, its
\* Closing Coin is there unspent and the chain accepts a CHALLENGE of it with
\* the prepared package, which the tower holds; and however many packages came
\* since, the coin's plan is still for that package and deadline (monitor.rs
\* follows the lineage and ignores a second plan, bundle.rs builds the spend).
PreparedIsAccepted ==
    \A prep \in preps :
        /\ prep.id.target \in held
        /\ \E plan \in plans : SameChallenge(plan, prep.id)
        /\ prep.id.peak = Peak =>
              /\ Here.path = prep.id.path /\ ~Here.done
              /\ Challengeable(Here.path, prep.id.target)

\* A submission is only ever recorded for the preparation its Closing Coin has
\* at that moment: rebuilding one ends what was granted for the one before,
\* also when the API was already at work on it, and also when the monitor died
\* in the middle of withdrawing (preparation.rs, authorization.rs).
OnlyCurrentSubmitted ==
    [][ \A r \in receipts' \ receipts :
          \E prep \in preps' : prep.id = r.auth.manifest.recheck.prep ]_vars

\* watchtower-v3_6/README.md:67 "失效记录不能恢复原绿灯，必须基于新的完整链快照重新构造和验证":
\* a preparation that was withdrawn can not be approved again; only another
\* one, made from a new snapshot of the chain, can be.
WithdrawnStays ==
    [][ \A prep \in preps, later \in preps' :
          later.id = prep.id /\ prep.status \in Withdrawn =>
              later.status \in Withdrawn ]_vars
=============================================================================
