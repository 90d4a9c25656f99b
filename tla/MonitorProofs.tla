---------------------------- MODULE MonitorProofs ----------------------------
(***************************************************************************)
(* What a tower's status endpoint and its plans are worth, for every       *)
(* chain, package, staleness limit and way a poll can fail.                *)
(***************************************************************************)
EXTENDS ClosingMonitor, ClosingProofs

-----------------------------------------------------------------------------
(* The inductive invariant                                                 *)

\* A plan's Closing Coin is older than its target and keeps the lineage's
\* deadline.
PlanGood(plan) ==
    /\ plan.path \in Seq(ClosingCoins) /\ plan.path # <<>>
    /\ DeadlineOf(plan.path) = plan.path[1].birth + ChallengeBlocks
    /\ Last(plan.path).claim.seq < plan.target.seq
    /\ plan.target \in held

Alerts == {"NONE", "WARNING", "CRITICAL"}

Reading == /\ poll.pc = "Read" /\ poll.age \in Ages

Planning ==
    /\ poll.pc = "Plan" /\ poll.age \in Ages /\ poll.alert \in Alerts
    /\ \A plan \in poll.plans : PlanGood(plan)
    /\ \A plan, other \in poll.plans : plan = other
    /\ poll.alert # "CRITICAL" => overdue <= poll.age

TablesOK ==
    /\ held \subseteq Packages /\ HasLatest(held)
    /\ \A plan \in plans : PlanGood(plan)
    /\ \A plan, other \in plans : CoinId(plan.path) = CoinId(other.path) => plan = other
    /\ saw \in BOOLEAN

\* overdue is what it is called: it runs while the chain has such a coin.
CalmInv ==
    /\ overdue \in Ages
    /\ ~Overdue(Here, held) => overdue = 0
    /\ snapshot \in [alert : Alerts, age : Ages]
    /\ snapshot.alert # "CRITICAL" => overdue <= snapshot.age

MonitorInv ==
    /\ ChainInv
    /\ TablesOK
    /\ CalmInv
    /\ poll = Idle \/ Reading \/ Planning

-----------------------------------------------------------------------------
(* Values                                                                  *)

LEMMA AgeFacts ==
    /\ MaxStaleness \in Nat
    /\ MaxStaleness + 1 \in Ages /\ 0 \in Ages
    /\ \A age \in Ages : age \in Nat /\ Older(age) \in Ages
    /\ \A age, other \in Ages : age <= other => Older(age) <= Older(other)
    /\ Older(0) \in Ages
<1> USE StalenessAssumption DEF Ages, Older
<1>1. \A age \in Ages : age \in Nat /\ Older(age) \in Ages
  OBVIOUS
<1>2. \A age, other \in Ages : age <= other => Older(age) <= Older(other)
  OBVIOUS
<1> QED BY <1>1, <1>2

LEMMA OverdueFacts ==
    ASSUME MonitorInv
    PROVE  /\ overdue \in Ages /\ overdue \in Nat
           /\ ~Overdue(Here, held) => overdue = 0
BY AgeFacts DEF MonitorInv, CalmInv

\* The plan of an observation.
LEMMA StaleIsPlannable ==
    ASSUME ChainInv, HasLatest(held), held \subseteq Packages,
           NEW obs, obs.path = Here.path, Stale(obs, LatestOf(held))
    PROVE  PlanGood([path |-> obs.path, target |-> LatestOf(held)])
<1>1. Here.path \in Seq(ClosingCoins) /\ LineageGood(Here.path, Height)
  BY BlockFacts
<1>2. obs.path # <<>> /\ Last(obs.path).claim.seq < LatestOf(held).seq
  BY DEF Stale
<1>3. LatestOf(held) \in held
  BY LatestFacts
<1> QED BY <1>1, <1>2, <1>3 DEF PlanGood, LineageGood

\* A decision that is not CRITICAL is right about the chain it was taken from.
LEMMA CalmIsRight ==
    ASSUME ChainInv, HasLatest(held), held \subseteq Packages,
           NEW obs, obs = Unknown \/ (obs.path = Here.path /\ obs.done = Here.done),
           NEW planned \in BOOLEAN, saw \in BOOLEAN,
           AlertOf(Decision(obs, LatestOf(held), planned, saw)) # "CRITICAL"
    PROVE  ~Overdue(Here, held)
<1> SUFFICES ASSUME Overdue(Here, held)
             PROVE  FALSE
  OBVIOUS
<1> DEFINE latest == LatestOf(held)
           action == Decision(obs, latest, planned, saw)
<1>1. /\ Here.path # <<>> /\ ~Here.done /\ Last(Here.path).claim.seq < latest.seq
  BY DEF Overdue
<1>2. latest.seq \in Nat /\ Last(Here.path).claim.seq \in Nat
  BY <1>1, LatestFacts, BlockFacts, PathFacts
<1>3. CASE obs = Unknown
  <2>1. action = "Unknown"
    BY <1>3 DEF Decision, Unknown, Stale
  <2> QED BY <2>1 DEF AlertOf
<1>4. CASE obs # Unknown /\ obs.path = Here.path /\ obs.done = Here.done
  <2>1. ~(Last(obs.path).claim.seq >= latest.seq)
    BY <1>1, <1>2, <1>4
  <2>2. action \in {"ChallengeAlreadyPlanned", "ChallengePlanned", "DeadlinePassed"}
    <3> HIDE DEF latest
    <3>1. CASE Stale(obs, latest)
      <4>1. action = IF planned THEN "ChallengeAlreadyPlanned" ELSE "ChallengePlanned"
        BY <1>1, <1>4, <3>1 DEF Decision
      <4> QED BY <4>1
    <3>2. CASE ~Stale(obs, latest)
      <4>1. action = IF Last(obs.path).claim.seq >= latest.seq THEN "ClosingCurrent"
                                                              ELSE "DeadlinePassed"
        BY <1>1, <1>4, <3>2 DEF Decision
      <4> QED BY <2>1, <4>1
    <3> QED BY <3>1, <3>2
  <2> HIDE DEF action
  <2> QED BY <2>2 DEF AlertOf, action
<1> QED BY <1>3, <1>4

-----------------------------------------------------------------------------
(* The steps                                                               *)

\* What another step leaves of the tables and of the poll.
LEMMA PollStays ==
    ASSUME MonitorInv, UNCHANGED poll, held \subseteq held', overdue' \in Ages,
           overdue' <= overdue
    PROVE  (poll = Idle \/ Reading \/ Planning)'
<1>1. CASE poll = Idle
  BY <1>1 DEF Idle
<1>2. CASE Reading
  BY <1>2 DEF Reading
<1>3. CASE Planning
  <2>1. \A plan \in poll.plans : PlanGood(plan)'
    BY <1>3 DEF Planning, PlanGood
  <2>2. poll.alert # "CRITICAL" => overdue' <= poll.age
    BY <1>3, OverdueFacts, AgeFacts DEF Planning
  <2> QED BY <1>3, <2>1, <2>2 DEF Planning
<1> QED BY <1>1, <1>2, <1>3 DEF MonitorInv

LEMMA TickStep == MonitorInv /\ Tick => MonitorInv'
<1> SUFFICES ASSUME MonitorInv, Tick
             PROVE  MonitorInv'
  OBVIOUS
<1>1. UNCHANGED <<blocks, branch, held, plans, saw>>
  BY DEF Tick
<1>2. ChainInv'
  BY <1>1, ChainStep DEF MonitorInv, chainVars
<1>3. TablesOK'
  BY <1>1 DEF MonitorInv, TablesOK, HasLatest, PlanGood
<1>4. /\ overdue \in Ages /\ (~Overdue(Here, held) => overdue = 0)
      /\ overdue' = IF Overdue(Here, held) THEN Older(overdue) ELSE 0
  BY OverdueFacts DEF Tick
<1>5. /\ overdue' \in Ages /\ overdue' <= Older(overdue)
      /\ ~Overdue(Here, held)' => overdue' = 0
  BY <1>1, <1>4, AgeFacts DEF Here, Height, Overdue, LatestOf
<1>6. CalmInv'
  <2>1. /\ snapshot.alert \in Alerts /\ snapshot.age \in Ages /\ Older(snapshot.age) \in Ages
        /\ snapshot.alert # "CRITICAL" => overdue <= snapshot.age
    BY AgeFacts DEF MonitorInv, CalmInv
  <2>2. snapshot \in [alert : Alerts, age : Ages]
    BY DEF MonitorInv, CalmInv
  <2>3. /\ snapshot' \in [alert : Alerts, age : Ages]
        /\ snapshot'.alert = snapshot.alert /\ snapshot'.age = Older(snapshot.age)
    BY <2>1, <2>2 DEF Tick
  <2>4. snapshot.alert # "CRITICAL" => overdue' <= Older(snapshot.age)
    <3>1. ASSUME overdue <= snapshot.age
          PROVE  /\ Older(overdue) <= Older(snapshot.age)
                 /\ Older(overdue) \in Nat /\ Older(snapshot.age) \in Nat /\ overdue' \in Nat
      BY <1>4, <1>5, <2>1, <3>1, AgeFacts
    <3> QED BY <1>5, <2>1, <3>1
  <2> QED BY <1>5, <2>3, <2>4 DEF CalmInv
<1>7. (poll = Idle \/ Reading \/ Planning)'
  <2>1. CASE poll = Idle
    BY <2>1 DEF Tick, Idle
  <2>2. CASE Reading
    BY <2>2, AgeFacts DEF Tick, Idle, Reading
  <2>3. CASE Planning
    <3>1. poll # Idle
      BY <2>3 DEF Planning, Idle
    <3>2. poll' = [poll EXCEPT !.age = Older(@)]
      BY <3>1 DEF Tick
    <3>3. poll.age \in Ages /\ poll.alert \in Alerts /\ poll.pc = "Plan"
      BY <2>3 DEF Planning
    <3>4. /\ poll'.pc = "Plan" /\ poll'.alert = poll.alert /\ poll'.plans = poll.plans
          /\ poll'.age = Older(poll.age)
      BY <2>3, <3>2, AgeFacts DEF MonitorInv, Planning
    <3>5. poll.alert # "CRITICAL" => overdue' <= Older(poll.age)
      <4>1. ASSUME overdue <= poll.age
            PROVE  /\ Older(overdue) <= Older(poll.age)
                   /\ Older(overdue) \in Nat /\ Older(poll.age) \in Nat /\ overdue' \in Nat
        BY <1>4, <1>5, <3>3, <4>1, AgeFacts
      <4> QED BY <1>5, <2>3, <4>1 DEF Planning
    <3>6. \A plan \in poll'.plans : PlanGood(plan)'
      BY <1>1, <2>3, <3>4 DEF Planning, PlanGood
    <3> QED BY <2>3, <3>3, <3>4, <3>5, <3>6, AgeFacts DEF Planning
  <2> QED BY <2>1, <2>2, <2>3 DEF MonitorInv
<1> QED BY <1>2, <1>3, <1>6, <1>7 DEF MonitorInv

\* A step of the chain or of the packages: nothing of the snapshot's moves.
LEMMA CalmStays ==
    ASSUME MonitorInv, UNCHANGED snapshot,
           overdue' = 0 \/ (overdue' = overdue /\ Overdue(Here, held)'),
           ~Overdue(Here, held)' => overdue' = 0
    PROVE  CalmInv' /\ overdue' \in Ages /\ overdue' <= overdue
<1>1. overdue' \in Ages /\ overdue' <= overdue
  BY OverdueFacts, AgeFacts
<1>2. snapshot.age \in Nat /\ overdue \in Nat /\ overdue' \in Nat
  BY <1>1, OverdueFacts, AgeFacts DEF MonitorInv, CalmInv
<1> QED BY <1>1, <1>2 DEF MonitorInv, CalmInv

LEMMA ChainMoves == MonitorInv /\ Chain => MonitorInv'
<1> SUFFICES ASSUME MonitorInv, Chain
             PROVE  MonitorInv'
  OBVIOUS
<1>1. ChainNext /\ UNCHANGED <<held, plans, saw, poll, snapshot>>
  BY DEF Chain
<1>2. ChainInv'
  BY <1>1, ChainStep DEF MonitorInv
<1>3. TablesOK'
  BY <1>1 DEF MonitorInv, TablesOK, HasLatest, PlanGood
<1>4. Overdue(Last(blocks'), held) <=> Overdue(Here, held)'
  BY <1>1 DEF Last, Here, Height, Overdue, LatestOf
<1>5. /\ overdue' = 0 \/ (overdue' = overdue /\ Overdue(Here, held)')
      /\ ~Overdue(Here, held)' => overdue' = 0
  BY <1>4 DEF Chain
<1>6. CalmInv' /\ overdue' \in Ages /\ overdue' <= overdue
  BY <1>1, <1>5, CalmStays
<1>7. (poll = Idle \/ Reading \/ Planning)'
  BY <1>1, <1>6, PollStays
<1> QED BY <1>2, <1>3, <1>6, <1>7 DEF MonitorInv

LEMMA AcceptStep ==
    ASSUME MonitorInv, NEW p \in Packages, AcceptPackage(p)
    PROVE  MonitorInv'
<1>1. /\ held' = held \cup {p} /\ held \subseteq held' /\ held' \subseteq Packages
      /\ UNCHANGED <<blocks, branch, plans, saw, poll, snapshot>>
  BY DEF AcceptPackage, MonitorInv, TablesOK
<1>2. ChainInv'
  BY <1>1, ChainStep DEF MonitorInv, chainVars
<1>3. held \subseteq Packages /\ HasLatest(held)
  BY DEF MonitorInv, TablesOK
<1>4. \A q \in Packages : q.seq \in Nat
  BY PackagesAssumption DEF PackageValid
<1>5. HasLatest(held)'
  BY <1>1, <1>3, LatestGrows
<1>6. TablesOK'
  BY <1>1, <1>5 DEF MonitorInv, TablesOK, PlanGood
<1>7. Overdue(Here, held) => Overdue(Here, held)'
  <2>1. LatestOf(held) \in held /\ LatestOf(held).seq \in Nat
    BY <1>3, LatestFacts
  <2>2. LatestOf(held').seq \in Nat /\ LatestOf(held).seq <= LatestOf(held').seq
    <3>1. \A q \in held' : q.seq <= LatestOf(held').seq
      BY <1>5 DEF HasLatest, LatestOf
    <3>2. LatestOf(held') \in held'
      BY <1>5 DEF HasLatest, LatestOf
    <3> QED BY <1>1, <1>4, <2>1, <3>1, <3>2
  <2>3. Here' = Here
    BY <1>1 DEF Here, Height
  <2>4. Here.path # <<>> => Last(Here.path).claim.seq \in Nat
    BY BlockFacts, PathFacts DEF MonitorInv
  <2> QED BY <2>1, <2>2, <2>3, <2>4 DEF Overdue
<1>8. overdue' = IF Overdue(Here, held) THEN overdue ELSE 0
  BY DEF AcceptPackage
<1>9. CalmInv' /\ overdue' \in Ages /\ overdue' <= overdue
  BY <1>1, <1>7, <1>8, CalmStays
<1>10. (poll = Idle \/ Reading \/ Planning)'
  BY <1>1, <1>9, PollStays
<1> QED BY <1>2, <1>6, <1>9, <1>10 DEF MonitorInv

LEMMA BeginsStep == MonitorInv /\ PollBegins => MonitorInv'
<1> SUFFICES ASSUME MonitorInv, PollBegins
             PROVE  MonitorInv'
  OBVIOUS
<1>1. /\ poll' = [pc |-> "Read", age |-> 0, height |-> Height]
      /\ UNCHANGED <<blocks, branch, held, plans, saw, snapshot, overdue>>
  BY DEF PollBegins
<1>2. ChainInv'
  BY <1>1, ChainStep DEF MonitorInv, chainVars
<1>3. TablesOK'
  BY <1>1 DEF MonitorInv, TablesOK, HasLatest, PlanGood
<1>4. CalmInv'
  BY <1>1 DEF MonitorInv, CalmInv, Overdue, Here, Height
<1>5. Reading'
  BY <1>1, AgeFacts DEF Reading
<1> QED BY <1>2, <1>3, <1>4, <1>5 DEF MonitorInv

LEMMA ReadsStep ==
    ASSUME MonitorInv, NEW obs \in ReadsOf(poll.height), PollReads(obs)
    PROVE  MonitorInv'
<1> DEFINE latest == LatestOf(held)
           action == Decision(obs, latest, PlanOf(obs.path) # {}, saw)
           made == IF action = "ChallengePlanned"
                   THEN {[path |-> obs.path, target |-> latest]} ELSE {}
<1>1. /\ saw' = (action \in SawClosing)
      /\ poll' = [pc |-> "Plan", age |-> poll.age, alert |-> AlertOf(action), plans |-> made]
      /\ UNCHANGED <<blocks, branch, held, plans, snapshot, overdue>>
      /\ poll.pc = "Read"
  BY DEF PollReads
<1>2. ChainInv'
  BY <1>1, ChainStep DEF MonitorInv, chainVars
<1>3. TablesOK'
  BY <1>1 DEF MonitorInv, TablesOK, HasLatest, PlanGood
<1>4. CalmInv'
  BY <1>1 DEF MonitorInv, CalmInv, Overdue, Here, Height
<1>5. obs = Unknown \/ (obs.path = Here.path /\ obs.done = Here.done)
  BY DEF ReadsOf, ObservationsOf
<1>6. poll.age \in Ages
  BY <1>1 DEF MonitorInv, Idle, Reading, Planning
<1>7. ChainInv /\ HasLatest(held) /\ held \subseteq Packages /\ saw \in BOOLEAN
  BY DEF MonitorInv, TablesOK
<1>8. AlertOf(action) \in Alerts
  BY DEF AlertOf, Alerts
<1>9. ASSUME AlertOf(action) # "CRITICAL"
      PROVE  overdue <= poll.age
  <2>1. ~Overdue(Here, held)
    BY <1>5, <1>7, <1>9, CalmIsRight
  <2>2. overdue = 0
    BY <2>1, OverdueFacts
  <2> QED BY <1>6, <2>2, AgeFacts DEF Ages
<1>10. ASSUME action = "ChallengePlanned"
       PROVE  PlanGood([path |-> obs.path, target |-> latest])
  <2>1. Stale(obs, latest)
    <3> HIDE DEF latest
    <3> QED BY <1>10 DEF Decision
  <2>2. obs.path = Here.path
    BY <1>5, <2>1 DEF Stale, Unknown
  <2> QED BY <1>7, <2>1, <2>2, StaleIsPlannable
<1> HIDE DEF action, latest
<1>11. \A plan \in made : PlanGood(plan)
  BY <1>10
<1>12. \A plan, other \in made : plan = other
  OBVIOUS
<1> HIDE DEF made
<1>13. \A plan \in poll'.plans : PlanGood(plan)'
  BY <1>1, <1>11 DEF PlanGood
<1>14. Planning'
  BY <1>1, <1>6, <1>8, <1>9, <1>12, <1>13 DEF Planning
<1> QED BY <1>2, <1>3, <1>4, <1>14 DEF MonitorInv

LEMMA EndsStep == MonitorInv /\ PollEnds => MonitorInv'
<1> SUFFICES ASSUME MonitorInv, PollEnds
             PROVE  MonitorInv'
  OBVIOUS
<1> DEFINE added == {plan \in poll.plans : PlanOf(plan.path) = {}}
<1>1. /\ plans' = plans \cup added /\ poll' = Idle
      /\ snapshot' = [alert |-> poll.alert, age |-> poll.age]
      /\ UNCHANGED <<blocks, branch, held, saw, overdue>>
      /\ poll.pc = "Plan"
  BY DEF PollEnds
<1>2. Planning
  BY <1>1 DEF MonitorInv, Idle, Reading
<1>3. ChainInv'
  BY <1>1, ChainStep DEF MonitorInv, chainVars
<1>4. /\ poll.age \in Ages /\ poll.alert \in Alerts
      /\ poll.alert # "CRITICAL" => overdue <= poll.age
  BY <1>2 DEF Planning
<1>5. CalmInv'
  <2>1. /\ snapshot' \in [alert : Alerts, age : Ages]
        /\ snapshot'.alert = poll.alert /\ snapshot'.age = poll.age
    BY <1>1, <1>4
  <2> QED BY <1>1, <1>4, <2>1 DEF MonitorInv, CalmInv, Overdue, Here, Height
<1>6. \A plan \in plans' : PlanGood(plan)'
  BY <1>1, <1>2 DEF Planning, MonitorInv, TablesOK, PlanGood
<1>7. ASSUME NEW plan \in plans', NEW other \in plans', CoinId(plan.path) = CoinId(other.path)
      PROVE  plan = other
  <2>1. CASE plan \in plans /\ other \in plans
    BY <1>7, <2>1 DEF MonitorInv, TablesOK
  <2>2. CASE plan \in added /\ other \in added
    BY <1>2, <2>2 DEF Planning
  <2>3. CASE plan \in added /\ other \in plans
    BY <1>7, <2>3 DEF PlanOf
  <2>4. CASE plan \in plans /\ other \in added
    BY <1>7, <2>4 DEF PlanOf
  <2> QED BY <1>1, <2>1, <2>2, <2>3, <2>4
<1>8. TablesOK'
  <2>1. (\A plan, other \in plans : CoinId(plan.path) = CoinId(other.path) => plan = other)'
    BY <1>7 DEF CoinId
  <2>2. HasLatest(held)' /\ (held \subseteq Packages)' /\ (saw \in BOOLEAN)'
    BY <1>1 DEF MonitorInv, TablesOK, HasLatest
  <2> QED BY <1>6, <2>1, <2>2 DEF TablesOK
<1> QED BY <1>1, <1>3, <1>5, <1>8 DEF MonitorInv, Idle

LEMMA RestartStep == MonitorInv /\ MonitorRestarts => MonitorInv'
<1> SUFFICES ASSUME MonitorInv, MonitorRestarts
             PROVE  MonitorInv'
  OBVIOUS
<1>1. /\ poll' = Idle /\ snapshot' = None
      /\ UNCHANGED <<blocks, branch, held, plans, saw, overdue>>
  BY DEF MonitorRestarts
<1>2. ChainInv'
  BY <1>1, ChainStep DEF MonitorInv, chainVars
<1>3. TablesOK'
  BY <1>1 DEF MonitorInv, TablesOK, HasLatest, PlanGood
<1>4. CalmInv'
  BY <1>1, AgeFacts DEF MonitorInv, CalmInv, Overdue, Here, Height, None, Alerts
<1> QED BY <1>1, <1>2, <1>3, <1>4 DEF MonitorInv, Idle

LEMMA MonitorStarts == Init => MonitorInv
<1> SUFFICES ASSUME Init
             PROVE  MonitorInv
  OBVIOUS
<1>1. ChainInv
  BY ChainStarts DEF Init
<1>2. PICK p \in Packages : held = {p}
  BY DEF Init
<1>3. p.seq \in Nat
  BY PackagesAssumption DEF PackageValid
<1>4. TablesOK
  <2>1. held \subseteq Packages /\ HasLatest(held)
    BY <1>2, <1>3 DEF HasLatest
  <2>2. plans = {} /\ saw = FALSE
    BY DEF Init
  <2> QED BY <2>1, <2>2 DEF TablesOK
<1>5. CalmInv
  BY AgeFacts DEF Init, CalmInv, None, Alerts
<1> QED BY <1>1, <1>4, <1>5 DEF Init, MonitorInv

LEMMA MonitorStep == MonitorInv /\ [Next]_vars => MonitorInv'
<1> SUFFICES ASSUME MonitorInv, [Next]_vars
             PROVE  MonitorInv'
  OBVIOUS
<1>1. CASE Tick
  BY <1>1, TickStep
<1>2. CASE Chain
  BY <1>2, ChainMoves
<1>3. ASSUME NEW p \in Packages, AcceptPackage(p)
      PROVE  MonitorInv'
  BY <1>3, AcceptStep
<1>4. CASE PollBegins
  BY <1>4, BeginsStep
<1>5. ASSUME NEW obs \in ReadsOf(poll.height), PollReads(obs)
      PROVE  MonitorInv'
  BY <1>5, ReadsStep
<1>6. CASE PollEnds
  BY <1>6, EndsStep
<1>7. CASE MonitorRestarts
  BY <1>7, RestartStep
<1>8. CASE UNCHANGED vars
  <2>1. UNCHANGED <<blocks, branch, held, plans, saw, poll, snapshot, overdue>>
    BY <1>8 DEF vars
  <2>2. ChainInv'
    BY <2>1, ChainStep DEF MonitorInv, chainVars
  <2>3. TablesOK'
    BY <2>1 DEF MonitorInv, TablesOK, HasLatest, PlanGood
  <2>4. CalmInv'
    BY <2>1 DEF MonitorInv, CalmInv, Overdue, Here, Height
  <2>5. overdue' \in Ages /\ overdue' <= overdue
    BY <2>1, OverdueFacts, AgeFacts
  <2>6. (poll = Idle \/ Reading \/ Planning)'
    BY <2>1, <2>5, PollStays
  <2> QED BY <2>2, <2>3, <2>4, <2>6 DEF MonitorInv
<1> QED BY <1>1, <1>2, <1>3, <1>4, <1>5, <1>6, <1>7, <1>8 DEF Next

-----------------------------------------------------------------------------
(* What follows                                                            *)

\* The blocks, the tables, the poll and the snapshot stay as the invariant
\* says, whatever happens on the chain and to the monitor.
THEOREM MonitorInvariant == Spec => []MonitorInv
<1>1. Init => MonitorInv
  BY MonitorStarts
<1>2. MonitorInv /\ [Next]_vars => MonitorInv'
  BY MonitorStep
<1> QED BY <1>1, <1>2, PTL DEF Spec

\* Every table holds rows of its own kind, and a Closing Coin has one plan.
THEOREM MonitorTypeCorrect == Spec => []MonitorTypeOK
<1>1. MonitorInv => MonitorTypeOK
  <2> SUFFICES ASSUME MonitorInv
               PROVE  MonitorTypeOK
    OBVIOUS
  <2>1. ClosingTypeOK
    BY DEF MonitorInv, ChainInv
  <2>2. /\ held \subseteq Packages /\ held # {}
        /\ \A plan \in plans : plan.path \in Seq(ClosingCoins) /\ plan.target \in held
        /\ \A plan, other \in plans : CoinId(plan.path) = CoinId(other.path) => plan = other
        /\ saw \in BOOLEAN
    BY DEF MonitorInv, TablesOK, HasLatest, PlanGood
  <2>3. poll = Idle \/ poll.age \in Ages
    BY DEF MonitorInv, Reading, Planning
  <2>4. snapshot \in [alert : {"NONE", "WARNING", "CRITICAL"}, age : Ages] /\ overdue \in Ages
    BY DEF MonitorInv, CalmInv, Alerts
  <2> QED BY <2>1, <2>2, <2>3, <2>4 DEF MonitorTypeOK
<1> QED BY <1>1, MonitorInvariant, PTL

\* What a tower does is nothing to the chain: beside a monitor the channel
\* behaves as the chain alone lets it (bin/monitor.rs only reads it).
THEOREM MonitorImplementsChain == Spec => ChainSpec
<1>1. Init => ChainInit
  BY DEF Init
<1>2. [Next]_vars => [ChainNext]_chainVars
  <2> SUFFICES ASSUME [Next]_vars
               PROVE  [ChainNext]_chainVars
    OBVIOUS
  <2>1. CASE Chain
    BY <2>1 DEF Chain
  <2>2. ASSUME NEW obs \in ReadsOf(poll.height), PollReads(obs)
        PROVE  UNCHANGED chainVars
    BY <2>2 DEF PollReads, chainVars
  <2>3. CASE \/ Tick \/ \E p \in Packages : AcceptPackage(p)
             \/ PollBegins \/ PollEnds \/ MonitorRestarts \/ UNCHANGED vars
    BY <2>3 DEF Tick, AcceptPackage, PollBegins, PollEnds, MonitorRestarts, vars, chainVars
  <2> QED BY <2>1, <2>2, <2>3 DEF Next
<1> QED BY <1>1, <1>2, PTL DEF Spec, ChainSpec

\* However often a Closing Coin is challenged and wherever the chain is cut, a
\* settlement keeps to one challenge window, only goes on along a chain, and
\* pays out all of the channel.
THEOREM WindowAlwaysKept == Spec => []SettlementKeepsWindow
BY MonitorImplementsChain, WindowIsKept, PTL

\* No answer of the endpoint but a STALE one is calm about a Closing Coin that
\* has been older than the tower's latest package for longer than the staleness
\* limit.
THEOREM NeverFalselyCalm == Spec => []NoFalseCalm
<1>1. MonitorInv => NoFalseCalm
  <2> SUFFICES ASSUME MonitorInv, Fresh(snapshot.age), snapshot.alert # "CRITICAL"
               PROVE  overdue <= MaxStaleness
    BY DEF NoFalseCalm, AnsweredStale
  <2>1. /\ overdue <= snapshot.age /\ snapshot.age <= MaxStaleness
        /\ snapshot.age \in Ages /\ overdue \in Ages
    BY DEF MonitorInv, CalmInv, Fresh
  <2> QED BY <2>1, AgeFacts
<1> QED BY <1>1, MonitorInvariant, PTL

\* The chain takes the CHALLENGE that a plan is for, as long as the deadline
\* that the tower counted is ahead.
THEOREM PlansAreAccepted == Spec => []PlannedIsAccepted
<1>1. MonitorInv => PlannedIsAccepted
  <2> SUFFICES ASSUME MonitorInv, NEW plan \in plans,
                      Here.path = plan.path, InTime(Peak, plan.path)
               PROVE  Challengeable(Here.path, plan.target)
    BY DEF PlannedIsAccepted
  <2>1. PlanGood(plan) /\ held \subseteq Packages
    BY DEF MonitorInv, TablesOK
  <2>2. Acceptable(plan.target) /\ plan.target.seq \in Nat
    BY <2>1, PackagesAssumption DEF PlanGood, PackageValid
  <2>3. Last(plan.path).claim.seq \in Nat
    BY <2>1, PathFacts DEF PlanGood
  <2>4. Height < DeadlineOf(plan.path)
    BY <2>1 DEF PlanGood, InTime, Peak, ChallengeDeadline
  <2> QED BY <2>1, <2>2, <2>3, <2>4 DEF PlanGood, Challengeable
<1> QED BY <1>1, MonitorInvariant, PTL
=============================================================================
