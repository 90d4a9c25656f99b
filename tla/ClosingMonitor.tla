---------------------------- MODULE ClosingMonitor ----------------------------
(***************************************************************************)
(* One tower's monitor (watchtower-v3_6/src/bin/monitor.rs) beside a       *)
(* channel that is closed and challenged in every way the chain allows.    *)
(*                                                                         *)
(* A poll reads the clock, the peak and then the coins, so the chain may   *)
(* move in between; it persists the action, persists a plan for a Closing  *)
(* Coin that is older than the tower's latest package, and only then puts  *)
(* the decision where the status endpoint finds it.  The endpoint judges   *)
(* the decision's age when it is asked: one that is too old is still       *)
(* answered, as STALE and with status 503.                                 *)
(*                                                                         *)
(* A time the code keeps is modelled by its age, counted up to the highest *)
(* that tells answers apart.  A monitor whose poll fails exits and is      *)
(* started again, without its snapshot and with its tables.                *)
(***************************************************************************)
EXTENDS ChainMonitor

CONSTANT
    MaxStaleness    \* max_staleness_seconds: three polling intervals

ASSUME StalenessAssumption == MaxStaleness \in Nat

VARIABLES
    held,       \* v36_watchtower_packages
    plans,      \* v36_challenge_plans: [path, target]
    saw,        \* v36_chain_monitor_state: whether its action is of SawClosing
    poll,       \* where the poll is, and how long ago it began
    snapshot,   \* what the endpoint tells of the latest decision, and how long
                \* ago its poll began: [alert, age]; None before it
    overdue     \* history: for how long the chain has had an open Closing Coin
                \* that is older than the tower's latest package

vars == <<blocks, branch, held, plans, saw, poll, snapshot, overdue>>

-----------------------------------------------------------------------------
(* The status endpoint.                                                    *)

\* alert_classification
AlertOf(action) ==
    CASE action \in {"FundingOpen", "Finalized"} -> "NONE"
      [] action = "ClosingCurrent"               -> "WARNING"
      [] OTHER                                   -> "CRITICAL"

AnyAge(age) == TRUE                                                     \* mutant

Fresh(age) == age <= MaxStaleness

\* No poll has ended since the monitor was started: the alert of error_status.
None == [alert |-> "CRITICAL", age |-> MaxStaleness + 1]

\* status_response: the answer is STALE, with status 503, unless the decision
\* is fresh.  It keeps the decision's alert all the same: NONE for a channel
\* that was open when it was last seen.  A fresh answer is READY, with status
\* 200, unless the decision is Unknown, which is a CRITICAL alert: so every
\* fresh answer without one is READY.
AnsweredStale == ~Fresh(snapshot.age)

-----------------------------------------------------------------------------
Idle == [pc |-> "Idle"]

Init ==
    /\ ChainInit
    /\ held \in {{p} : p \in Packages}
    /\ plans = {}
    /\ saw = FALSE
    /\ poll = Idle
    /\ snapshot = None
    /\ overdue = 0

Overdue(block, packages) ==
    block.path # <<>> /\ ~block.done /\ Last(block.path).claim.seq < LatestOf(packages).seq

Older(age) == IF age <= MaxStaleness THEN age + 1 ELSE age

\* As much time passes as a staleness limit has units.
Tick ==
    /\ poll' = IF poll = Idle THEN Idle ELSE [poll EXCEPT !.age = Older(@)]
    /\ snapshot' = [snapshot EXCEPT !.age = Older(@)]
    /\ overdue' = IF Overdue(Here, held) THEN Older(overdue) ELSE 0
    /\ UNCHANGED <<blocks, branch, held, plans, saw>>

Chain ==
    /\ ChainNext
    /\ overdue' = IF Overdue(Here, held) /\ Overdue(Last(blocks'), held) THEN overdue ELSE 0
    /\ UNCHANGED <<held, plans, saw, poll, snapshot>>

\* A package of the ledger is accepted (PackageStore models how).
AcceptPackage(p) ==
    /\ p \notin held
    /\ held' = held \cup {p}
    /\ overdue' = IF Overdue(Here, held) THEN overdue ELSE 0
    /\ UNCHANGED <<blocks, branch, plans, saw, poll, snapshot>>

-----------------------------------------------------------------------------
(* The poll.                                                               *)

PollBegins ==
    /\ poll = Idle
    /\ poll' = [pc |-> "Read", age |-> 0, height |-> Height]
    /\ UNCHANGED <<blocks, branch, held, plans, saw, snapshot, overdue>>

PlanOfLineage(path) == {plan \in plans : plan.path = path}               \* mutant

PlanOf(path) == {plan \in plans : CoinId(plan.path) = CoinId(path)}

\* What the poll makes of coins that it reads after the peak: a Closing Coin
\* born above that peak is an error, and the monitor exits.
ReadsOf(height) ==
    {Unknown} \cup
    {[obs EXCEPT !.peak.height = height] : obs \in
        {o \in ObservationsOf(held) \ {Unknown} :
            o.path # <<>> => Last(o.path).birth <= height}}

PollReads(obs) ==
    /\ poll.pc = "Read" /\ obs \in ReadsOf(poll.height)
    /\ LET latest == LatestOf(held)
           action == Decision(obs, latest, PlanOf(obs.path) # {}, saw)
       IN  /\ saw' = (action \in SawClosing)
           /\ poll' = [ pc |-> "Plan", age |-> poll.age, alert |-> AlertOf(action),
                        plans |-> IF action = "ChallengePlanned"
                                  THEN {[path |-> obs.path, target |-> latest]} ELSE {} ]
    /\ UNCHANGED <<blocks, branch, held, plans, snapshot, overdue>>

PollEnds ==
    /\ poll.pc = "Plan"
    /\ plans' = plans \cup {plan \in poll.plans : PlanOf(plan.path) = {}}
    /\ snapshot' = [alert |-> poll.alert, age |-> poll.age]
    /\ poll' = Idle
    /\ UNCHANGED <<blocks, branch, held, saw, overdue>>

\* exit(1), or a crash.
MonitorRestarts ==
    /\ poll # Idle \/ snapshot # None
    /\ poll' = Idle
    /\ snapshot' = None
    /\ UNCHANGED <<blocks, branch, held, plans, saw, overdue>>

Next ==
    \/ Tick
    \/ Chain
    \/ \E p \in Packages : AcceptPackage(p)
    \/ PollBegins
    \/ poll.pc = "Read" /\ \E obs \in ReadsOf(poll.height) : PollReads(obs)
    \/ PollEnds
    \/ MonitorRestarts

Spec == Init /\ [][Next]_vars

-----------------------------------------------------------------------------
Ages == 0..(MaxStaleness + 1)

\* Every table holds rows of its own kind; a Closing Coin has one plan (the
\* PRIMARY KEY of v36_challenge_plans).
MonitorTypeOK ==
    /\ ClosingTypeOK
    /\ held \subseteq Packages /\ held # {}
    /\ \A plan \in plans : plan.path \in Seq(ClosingCoins) /\ plan.target \in held
    /\ \A plan, other \in plans : CoinId(plan.path) = CoinId(other.path) => plan = other
    /\ saw \in BOOLEAN
    /\ poll = Idle \/ poll.age \in Ages
    /\ snapshot \in [alert : {"NONE", "WARNING", "CRITICAL"}, age : Ages]
    /\ overdue \in Ages

\* No false calm: when an open Closing Coin has been older than the tower's
\* latest package for longer than the staleness limit, the status endpoint
\* answers READY (status 200) only with a CRITICAL alert, whatever RPC failed,
\* however long a poll took, and whether the monitor stopped, restarted or met
\* a reorganisation (monitor.rs status_response, alert_classification).  Who
\* reads the alert of a STALE answer has no such promise.
NoFalseCalm == ~AnsweredStale /\ snapshot.alert # "CRITICAL" => overdue <= MaxStaleness

\* A plan is for a CHALLENGE the chain takes: whenever the Closing Coin it was
\* made for is there, born when the plan says, and the deadline that the tower
\* counted is ahead, the chain accepts the planned package (monitor.rs counts
\* every deadline from the first Closing Coin, the puzzles hand it on).
PlannedIsAccepted ==
    \A plan \in plans :
        Here.path = plan.path /\ ~Here.done /\ InTime(Peak, plan.path) =>
            Challengeable(Here.path, plan.target)
=============================================================================
