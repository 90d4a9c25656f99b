----------------------------- MODULE GatesProofs -----------------------------
(***************************************************************************)
(* What the gates of a CHALLENGE guarantee, for every chain, set of        *)
(* approvers and statements, TTL and interleaving of the tower's processes *)
(* and their deaths.                                                       *)
(***************************************************************************)
EXTENDS ChallengeGates, ClosingProofs

-----------------------------------------------------------------------------
(* The inductive invariant                                                 *)

Ids == {prep.id : prep \in preps}

Statuses == Withdrawn \cup {"AwaitingApproval", "PartiallyApproved", "DualApproved"}

\* The tables of the monitor and of the operator.
PlansOK ==
    /\ \A plan \in plans : plan.path \in Seq(ClosingCoins) /\ plan.target \in Packages
    /\ \A plan, other \in plans : CoinId(plan.path) = CoinId(other.path) => plan = other

PrepsOK ==
    /\ preps \subseteq Preps
    /\ \A p, q \in preps : CoinId(p.id.path) = CoinId(q.id.path) => p = q

RowsOK == approvals \subseteq Rows /\ Signed(approvals) \subseteq Statements

MonitorOK ==
    \/ monitor.pc = "Idle"
    \/ /\ monitor.pc = "Plan"
       /\ monitor.plan.path \in Seq(ClosingCoins) /\ monitor.plan.target \in Packages
    \/ /\ monitor.pc \in {"Preparations", "Gates", "Authorizations"}
       /\ monitor.to \in Withdrawn
       /\ monitor = [pc |-> monitor.pc, coin |-> monitor.coin, to |-> monitor.to]

TowerInv ==
    /\ ChainInv
    /\ clock \in 0..MaxClock
    /\ held \subseteq Packages /\ HasLatest(held)
    /\ PlansOK /\ PrepsOK /\ RowsOK /\ MonitorOK

\* A block is known by its height and branch: only a reorganisation removes
\* blocks, and the ones after it are of a later branch.
IdGood(id) ==
    /\ id.path # <<>>
    /\ id.target \in held /\ Acceptable(id.target)
    /\ id.target.seq > Last(id.path).claim.seq
    /\ id.peak.height < DeadlineOf(id.path)
    /\ id.peak.branch <= branch
    /\ id.peak.height > Height => id.peak.branch < branch
    /\ id.peak.height \in DOMAIN blocks /\ blocks[id.peak.height].branch = id.peak.branch =>
          blocks[id.peak.height].path = id.path /\ ~blocks[id.peak.height].done

PreparedInv ==
    /\ \A i \in DOMAIN blocks : blocks[i].branch <= branch
    /\ \A id \in Ids : IdGood(id)

\* Every grant is inside the one before it.
RecheckGood(k) == k \in Rechecks /\ SoundRecheck(k)

ManifestGood(m) ==
    /\ m \in Manifests /\ RecheckGood(m.recheck)
    /\ m.expires <= m.recheck.expires /\ m.expires <= m.at + ManifestTTL
    /\ m.recheck.at <= m.at

AuthGood(a) ==
    /\ a \in Auths /\ ManifestGood(a.manifest)
    /\ a.expires <= a.manifest.expires /\ a.expires <= a.at + AuthTTL
    /\ a.manifest.at <= a.at

ReceiptGood(r) == r \in Receipts /\ AuthGood(r.auth) /\ r.at < r.auth.expires /\ r.auth.at <= r.at

ApiGood ==
    /\ api \in ApiStates
    /\ api.pc \in {"Count", "Issue"} =>
          ManifestGood(api.manifest) /\ api.manifest.at <= api.now /\ api.now <= clock
    /\ api.pc = "Submit" => /\ AuthGood(api.auth) /\ api.auth.at <= api.now
                            /\ api.now < api.auth.expires /\ api.now <= clock

GrantsInv ==
    /\ \A k \in rechecks : RecheckGood(k) /\ k.at <= clock
    /\ \A m \in manifests : ManifestGood(m) /\ m.at <= clock
    /\ \A a \in auths : AuthGood(a) /\ a.at <= clock
    /\ \A r \in receipts : ReceiptGood(r)
    /\ ApiGood

\* What is granted is granted for the preparation there is.  An authorization
\* may be for a former one, but none that is being submitted.
CurrentInv ==
    /\ \A k \in rechecks : k.prep \in Ids
    /\ \A m \in manifests : m.recheck.prep \in Ids
    /\ api.pc = "Submit" /\ api.auth \in auths => api.auth.manifest.recheck.prep \in Ids

GatesInv == TowerInv /\ PreparedInv /\ GrantsInv /\ CurrentInv

-----------------------------------------------------------------------------
(* Values                                                                  *)

LEMMA BoundFacts ==
    /\ MaxClock \in Nat /\ RecheckTTL \in Nat /\ ManifestTTL \in Nat /\ AuthTTL \in Nat
    /\ FirstPackage \in Packages
    /\ \A s \in Statements : s.approver \in Approvers /\ s.expires \in Nat
BY GatesAssumption DEF ApprovalStatements

LEMMA ObservationFacts ==
    ASSUME TowerInv, NEW obs \in Observations
    PROVE  /\ obs.path # <<>> => /\ obs.peak = Peak /\ obs.path = Here.path /\ obs.done = Here.done
           /\ obs.path \in Seq(ClosingCoins)
           /\ obs.path # <<>> => obs.peak \in [height : 1..MaxHeight, branch : 0..MaxReorgs]
<1>1. obs = Unknown \/ obs = [peak |-> Peak, path |-> Here.path, done |-> Here.done]
  BY DEF Observations, ObservationsOf
<1>2. /\ Here.path \in Seq(ClosingCoins) /\ Height \in 1..MaxHeight
      /\ Height \in DOMAIN blocks /\ Here.branch \in 0..MaxReorgs
  BY BlockFacts, PeriodFacts DEF TowerInv, Here
<1>3. Peak \in [height : 1..MaxHeight, branch : 0..MaxReorgs]
  BY <1>2 DEF Peak
<1>4. CASE obs = Unknown
  <2>1. obs.path = <<>> /\ <<>> \in Seq(ClosingCoins)
    BY <1>4 DEF Unknown
  <2> QED BY <2>1
<1>5. CASE obs = [peak |-> Peak, path |-> Here.path, done |-> Here.done]
  <2>1. obs.peak = Peak /\ obs.path = Here.path /\ obs.done = Here.done
    BY <1>5
  <2> QED BY <1>2, <1>3, <2>1
<1> QED BY <1>1, <1>4, <1>5

LEMMA TowerFacts ==
    ASSUME TowerInv
    PROVE  /\ Latest \in held /\ Latest \in Packages
           /\ Latest.seq \in Nat /\ Acceptable(Latest)
           /\ clock \in Nat
BY LatestFacts, BoundFacts DEF TowerInv, Latest

\* Writing a status keeps the preparations, and their ids.
LEMMA StatusKeeps ==
    ASSUME PrepsOK, NEW prep, NEW status \in Statuses, preps' = WithStatus(prep, status)
    PROVE  PrepsOK' /\ Ids' = Ids
<1>1. CASE prep.status \in Withdrawn \cup {status}
  BY <1>1 DEF WithStatus, PrepsOK, Ids, CoinId
<1>2. CASE prep.status \notin Withdrawn \cup {status}
  <2> DEFINE Write(p) == IF CoinId(p.id.path) = CoinId(prep.id.path)
                         THEN [p EXCEPT !.status = status] ELSE p
  <2>1. preps' = {Write(p) : p \in preps}
    BY <1>2 DEF WithStatus
  <2>2. \A p \in preps : Write(p) \in Preps /\ Write(p).id = p.id
    BY DEF PrepsOK, Preps, Statuses
  <2> HIDE DEF Write
  <2>3. PrepsOK'
    BY <2>1, <2>2 DEF PrepsOK, CoinId
  <2>4. Ids' = Ids
    BY <2>1, <2>2 DEF Ids
  <2> QED BY <2>3, <2>4
<1> QED BY <1>1, <1>2

LEMMA ApprovalOfFacts ==
    ASSUME NEW id, NEW rows
    PROVE  ApprovalOf(id, rows) \in Statuses
BY DEF ApprovalOf, Statuses

\* So does taking rows away or ending them.
LEMMA EndedRows ==
    ASSUME RowsOK, approvals' \subseteq Rows, Signed(approvals)' \subseteq Signed(approvals)
    PROVE  RowsOK'
BY DEF RowsOK, Signed

LEMMA ExpireKeeps ==
    ASSUME NEW id, NEW rows \in SUBSET Rows
    PROVE  Expire(id, rows) \subseteq Rows /\ Signed(Expire(id, rows)) \subseteq Signed(rows)
<1> DEFINE End(row) == [row EXCEPT !.active = row.active /\ ~(row.prep = id /\ row.expires <= clock)]
<1>1. Expire(id, rows) = {End(row) : row \in rows}
  BY DEF Expire
<1>2. \A row \in Rows : /\ End(row) \in Rows
                        /\ End(row).approver = row.approver /\ End(row).expires = row.expires
  BY DEF Rows
<1> HIDE DEF End
<1> QED BY <1>1, <1>2 DEF Signed

-----------------------------------------------------------------------------
(* Chain and preparations                                                  *)

\* What only changes the rest of the tower.
LEMMA PreparedStays ==
    ASSUME PreparedInv, UNCHANGED chainVars, held \subseteq held', Ids' \subseteq Ids
    PROVE  PreparedInv'
<1>1. UNCHANGED <<blocks, branch>>
  BY DEF chainVars
<1>2. ASSUME NEW id \in Ids'
      PROVE  IdGood(id)'
  <2>1. IdGood(id)
    BY <1>2 DEF PreparedInv
  <2> QED BY <1>1, <2>1 DEF IdGood, Height
<1> QED BY <1>1, <1>2 DEF PreparedInv

LEMMA PreparedMoves ==
    ASSUME TowerInv, PreparedInv, ChainNext, UNCHANGED <<held, preps>>
    PROVE  PreparedInv'
<1>1. /\ Height \in Nat /\ DOMAIN blocks = 1..Height /\ branch \in Nat
      /\ \A i \in DOMAIN blocks : blocks[i].branch \in Nat
  BY BlockFacts, PeriodFacts DEF TowerInv, ChainInv, ClosingTypeOK
<1>2. Ids' = Ids
  BY DEF Ids
<1>3. \A id \in Ids : id.peak.height \in Nat /\ id.peak.branch \in Nat
  BY DEF TowerInv, PrepsOK, Preps, PrepIds, Ids
<1>4. ASSUME NEW path, NEW done, Grow(path, done)
      PROVE  PreparedInv'
  <2> DEFINE block == [branch |-> branch, path |-> path, done |-> done]
  <2>1. blocks' = Append(blocks, block) /\ branch' = branch /\ block.branch = branch
    BY <1>4 DEF Grow
  <2>2. blocks \in Seq([branch : 0..MaxReorgs, path : Seq(ClosingCoins), done : BOOLEAN])
    BY DEF TowerInv, ChainInv, ClosingTypeOK
  <2> HIDE DEF block
  <2>3. /\ Height' = Height + 1 /\ DOMAIN blocks' = 1..(Height + 1)
        /\ \A i \in 1..Height : blocks'[i] = blocks[i]
        /\ blocks'[Height + 1] = block
    BY <1>1, <2>1, <2>2 DEF Height
  <2>4. \A i \in DOMAIN blocks' : blocks'[i].branch <= branch'
    BY <1>1, <2>1, <2>3 DEF PreparedInv
  <2>5. ASSUME NEW id \in Ids
        PROVE  IdGood(id)'
    <3>1. IdGood(id) /\ id.peak.height \in Nat /\ id.peak.branch \in Nat
      BY <1>3, <2>5 DEF PreparedInv
    <3>2. id.peak.height > Height' => id.peak.branch < branch'
      BY <1>1, <2>1, <2>3, <3>1 DEF IdGood
    <3>3. ASSUME id.peak.height \in DOMAIN blocks', blocks'[id.peak.height].branch = id.peak.branch
          PROVE  blocks'[id.peak.height].path = id.path /\ ~blocks'[id.peak.height].done
      <4>1. id.peak.height # Height + 1
        BY <1>1, <2>1, <2>3, <3>1, <3>3 DEF IdGood
      <4>2. id.peak.height \in 1..Height
        BY <1>1, <2>3, <3>1, <3>3, <4>1
      <4> QED BY <1>1, <2>3, <3>1, <3>3, <4>2 DEF IdGood
    <3> QED BY <2>1, <3>1, <3>2, <3>3 DEF IdGood
  <2> QED BY <1>2, <2>4, <2>5 DEF PreparedInv
<1>5. ASSUME NEW height \in 1..MaxHeight, Reorganise(height)
      PROVE  PreparedInv'
  <2>1. height < Height /\ blocks' = SubSeq(blocks, 1, height) /\ branch' = branch + 1
    BY <1>5 DEF Reorganise
  <2>2. blocks \in Seq([branch : 0..MaxReorgs, path : Seq(ClosingCoins), done : BOOLEAN])
    BY DEF TowerInv, ChainInv, ClosingTypeOK
  <2>3. /\ DOMAIN blocks' = 1..height
        /\ \A i \in 1..height : i \in DOMAIN blocks /\ blocks'[i] = blocks[i]
    BY <1>1, <2>1, <2>2, PeriodFacts DEF Height
  <2>4. \A i \in DOMAIN blocks' : blocks'[i].branch <= branch'
    BY <1>1, <2>1, <2>3 DEF PreparedInv
  <2>5. ASSUME NEW id \in Ids
        PROVE  IdGood(id)'
    <3>1. IdGood(id) /\ id.peak.height \in Nat /\ id.peak.branch \in Nat
      BY <1>3, <2>5 DEF PreparedInv
    <3>2. id.peak.branch < branch' /\ id.peak.branch <= branch'
      BY <1>1, <2>1, <3>1 DEF IdGood
    <3> QED BY <2>3, <3>1, <3>2 DEF IdGood
  <2> QED BY <1>2, <2>4, <2>5 DEF PreparedInv
<1>6. \/ \E path, done : Grow(path, done)
      \/ \E height \in 1..MaxHeight : Reorganise(height)
  BY DEF ChainNext, EmptyBlock, StartClose, ChallengeInitial, ChallengeSubsequent, Finalize
<1> QED BY <1>4, <1>5, <1>6

\* A preparation is made from the block at the tip.
LEMMA PrepareIsGood ==
    ASSUME TowerInv, PreparedInv, NEW obs \in Observations, PrepareOfflineChallenge(obs)
    PROVE  PreparedInv'
<1> DEFINE coin == CoinId(obs.path)
           New(epoch) == [path |-> obs.path, target |-> Latest, peak |-> obs.peak, epoch |-> epoch]
<1>1. /\ obs.path # <<>> /\ ~obs.done /\ InTime(obs.peak, obs.path) /\ Buildable(obs.path, Latest)
      /\ UNCHANGED <<blocks, branch, held>>
  BY DEF PrepareOfflineChallenge
<1>2. PICK epoch \in 0..MaxClock :
        preps' = (preps \ PrepsOf(coin)) \cup {[id |-> New(epoch), status |-> "AwaitingApproval"]}
  BY DEF PrepareOfflineChallenge
<1>3. obs.peak = Peak /\ obs.path = Here.path /\ obs.done = Here.done
  BY <1>1, ObservationFacts
<1>4. /\ Here.path \in Seq(ClosingCoins) /\ LineageGood(Here.path, Height)
      /\ Height \in Nat /\ Height \in DOMAIN blocks
  BY BlockFacts, PeriodFacts DEF TowerInv
<1>5. Latest \in held /\ Latest.seq \in Nat /\ Acceptable(Latest)
  BY TowerFacts
<1>6. Latest.seq > Last(Here.path).claim.seq
  BY <1>1, <1>3 DEF Buildable, StateZeroMaterial, ChallengeMaterial
<1>7. Peak.height = Height /\ Peak.branch = Here.branch
  BY DEF Peak
<1>8. Height < DeadlineOf(Here.path)
  BY <1>1, <1>3, <1>4, <1>7 DEF InTime, ChallengeDeadline, LineageGood
<1>9. Here.branch <= branch
  BY <1>4 DEF PreparedInv, Here
<1>10. IdGood(New(epoch))
  <2>1. /\ New(epoch).path = Here.path /\ New(epoch).target = Latest
        /\ New(epoch).peak.height = Height /\ New(epoch).peak.branch = Here.branch
    BY <1>3, <1>7
  <2> HIDE DEF New
  <2>2. ~(Height > Height)
    BY <1>4
  <2>3. Here = blocks[Height] /\ ~Here.done
    BY <1>1, <1>3 DEF Here
  <2> QED BY <1>1, <1>3, <1>5, <1>6, <1>8, <1>9, <2>1, <2>2, <2>3 DEF IdGood
<1>11. Ids' \subseteq Ids \cup {New(epoch)}
  <2> HIDE DEF New
  <2> QED BY <1>2 DEF Ids
<1>12. ASSUME NEW id \in Ids'
       PROVE  IdGood(id)'
  <2>1. IdGood(id)
    BY <1>10, <1>11, <1>12 DEF PreparedInv
  <2> QED BY <1>1, <2>1 DEF IdGood, Height
<1> QED BY <1>1, <1>12 DEF PreparedInv

-----------------------------------------------------------------------------
(* Grants                                                                  *)

\* What only takes grants away, lets time pass or ends the API's request.
LEMMA GrantsShrink ==
    ASSUME GrantsInv, clock \in Nat, clock' \in Nat, clock <= clock',
           rechecks' \subseteq rechecks, manifests' \subseteq manifests, auths' \subseteq auths,
           receipts' = receipts, api' = api \/ api' = [pc |-> "Idle"]
    PROVE  GrantsInv'
<1>1. \A k \in rechecks' : k.at <= clock'
  <2>1. \A k \in rechecks : k.at \in Nat /\ k.at <= clock
    BY BoundFacts DEF GrantsInv, RecheckGood, Rechecks
  <2> QED BY <2>1
<1>2. \A m \in manifests' : m.at <= clock'
  <2>1. \A m \in manifests : m.at \in Nat /\ m.at <= clock
    BY BoundFacts DEF GrantsInv, ManifestGood, Manifests
  <2> QED BY <2>1
<1>3. \A a \in auths' : a.at <= clock'
  <2>1. \A a \in auths : a.at \in Nat /\ a.at <= clock
    BY BoundFacts DEF GrantsInv, AuthGood, Auths
  <2> QED BY <2>1
<1>4. ApiGood'
  <2>1. CASE api' = [pc |-> "Idle"]
    BY <2>1 DEF ApiGood, ApiStates
  <2>2. CASE api' = api
    <3>1. api.pc # "Idle" => api.now \in Nat
      BY BoundFacts DEF GrantsInv, ApiGood, ApiStates
    <3>2. api.pc \in {"Count", "Issue", "Submit"} => api.now <= clock'
      BY <3>1 DEF GrantsInv, ApiGood
    <3> QED BY <2>2, <3>2 DEF GrantsInv, ApiGood
  <2> QED BY <2>1, <2>2
<1> QED BY <1>1, <1>2, <1>3, <1>4 DEF GrantsInv

LEMMA DualFacts ==
    ASSUME RowsOK, NEW id
    PROVE  /\ Signed(Counted(id, approvals)) \in SUBSET Statements
           /\ \A s \in Signed(Counted(id, approvals)) : s.expires \in Nat
<1>1. Signed(Counted(id, approvals)) \subseteq Signed(approvals)
  BY DEF Signed, Counted
<1> QED BY <1>1, BoundFacts DEF RowsOK

LEMMA RecheckIsGood ==
    ASSUME TowerInv, GrantsInv, NEW prep \in preps, NEW obs, FinalRecheck(prep, obs)
    PROVE  GrantsInv' /\ \A k \in rechecks' : k \in rechecks \/ k.prep = prep.id
<1> DEFINE signed == Signed(Counted(prep.id, approvals))
           Recheck(expires) == [prep |-> prep.id, approvals |-> signed, at |-> clock, expires |-> expires]
<1>1. /\ IsDual(signed)
      /\ manifests' \subseteq manifests /\ auths' \subseteq auths
      /\ UNCHANGED <<clock, receipts, api>>
  BY DEF FinalRecheck, RecheckPasses
<1>2. PICK expires \in {clock + RecheckTTL} \cup {s.expires : s \in signed} :
        /\ expires <= clock + RecheckTTL
        /\ \A s \in signed : expires <= s.expires
        /\ rechecks' = {k \in rechecks : k.prep # prep.id} \cup {Recheck(expires)}
  BY DEF FinalRecheck
<1>3. signed \in SUBSET Statements /\ \A s \in signed : s.expires \in Nat
  BY DualFacts DEF TowerInv
<1>4. clock \in 0..MaxClock /\ clock \in Nat /\ expires \in Nat
  BY <1>2, <1>3, BoundFacts DEF TowerInv
<1>5. prep.id \in PrepIds
  BY DEF TowerInv, PrepsOK, Preps
<1> HIDE DEF signed
<1>6. /\ Recheck(expires) \in Rechecks /\ Recheck(expires).at = clock
      /\ Recheck(expires).prep = prep.id
  BY <1>3, <1>4, <1>5 DEF Rechecks
<1>7. SoundRecheck(Recheck(expires))
  BY <1>1, <1>2 DEF SoundRecheck
<1> HIDE DEF Recheck
<1>8. \A k \in rechecks' : RecheckGood(k) /\ k.at <= clock'
  BY <1>1, <1>2, <1>4, <1>6, <1>7 DEF GrantsInv, RecheckGood
<1>9. ApiGood'
  BY <1>1 DEF GrantsInv, ApiGood
<1> QED BY <1>1, <1>2, <1>6, <1>8, <1>9 DEF GrantsInv

LEMMA EarlierFacts ==
    ASSUME NEW s \in Nat, NEW t \in Nat
    PROVE  Earlier(s, t) \in Nat /\ Earlier(s, t) <= s /\ Earlier(s, t) <= t
BY DEF Earlier

LEMMA ManifestIsGood ==
    ASSUME TowerInv, GrantsInv, NEW recheck, NEW prep, IssueManifest(recheck, prep)
    PROVE  GrantsInv' /\ \A m \in manifests' : m \in manifests \/ m.recheck = recheck
<1> DEFINE manifest == [recheck |-> recheck, at |-> clock, expires |-> ManifestExpiry(recheck)]
<1>1. /\ recheck \in rechecks /\ UNCHANGED <<clock, rechecks, receipts, api>>
      /\ auths' \subseteq auths
      /\ manifests' = {m \in manifests : m.recheck # recheck} \cup {manifest}
  BY DEF IssueManifest
<1>2. RecheckGood(recheck) /\ recheck.at <= clock
  BY <1>1 DEF GrantsInv
<1>3. /\ clock \in 0..MaxClock /\ clock \in Nat /\ recheck.expires \in Nat
      /\ clock + ManifestTTL \in Nat
  BY <1>2, BoundFacts DEF TowerInv, RecheckGood, Rechecks
<1>4. /\ ManifestExpiry(recheck) \in Nat /\ ManifestExpiry(recheck) <= recheck.expires
      /\ ManifestExpiry(recheck) <= clock + ManifestTTL
  BY <1>3, EarlierFacts DEF ManifestExpiry
<1>5. manifest \in Manifests
  BY <1>2, <1>3, <1>4 DEF Manifests, RecheckGood
<1>6. /\ manifest.recheck = recheck /\ manifest.at = clock
      /\ manifest.expires = ManifestExpiry(recheck)
  OBVIOUS
<1> HIDE DEF manifest
<1>7. ManifestGood(manifest) /\ manifest.at <= clock
  BY <1>2, <1>3, <1>4, <1>5, <1>6 DEF ManifestGood
<1>8. ApiGood'
  BY <1>1 DEF GrantsInv, ApiGood
<1> QED BY <1>1, <1>6, <1>7, <1>8 DEF GrantsInv

LEMMA AuthorizeReadIsGood ==
    ASSUME TowerInv, GrantsInv, NEW manifest \in manifests, NEW prep \in preps,
           AuthorizeRead(manifest, prep)
    PROVE  GrantsInv'
<1>1. /\ api' = [pc |-> "Count", manifest |-> manifest, prep |-> prep, now |-> clock]
      /\ UNCHANGED <<clock, rechecks, manifests, auths, receipts>>
  BY DEF AuthorizeRead, gateVars
<1>2. ManifestGood(manifest) /\ manifest.at <= clock
  BY DEF GrantsInv
<1>3. prep \in Preps /\ clock \in 0..MaxClock /\ clock <= clock
  BY BoundFacts DEF TowerInv, PrepsOK
<1>4. api' \in ApiStates
  BY <1>1, <1>2, <1>3 DEF ApiStates, ManifestGood
<1>5. ApiGood'
  BY <1>1, <1>2, <1>3, <1>4 DEF ApiGood
<1> QED BY <1>1, <1>5 DEF GrantsInv

LEMMA AuthorizeCountIsGood == GrantsInv /\ AuthorizeCount => GrantsInv'
<1> SUFFICES ASSUME GrantsInv, AuthorizeCount
             PROVE  GrantsInv'
  OBVIOUS
<1>1. /\ \/ api' = [pc |-> "Issue", manifest |-> api.manifest, now |-> api.now]
         \/ api' = [pc |-> "Idle"]
      /\ api.pc = "Count"
      /\ UNCHANGED <<clock, rechecks, manifests, auths, receipts>>
  BY DEF AuthorizeCount, gateVars
<1>2. ApiGood'
  <2>1. CASE api' = [pc |-> "Idle"]
    BY <2>1 DEF ApiGood, ApiStates
  <2>2. CASE api' = [pc |-> "Issue", manifest |-> api.manifest, now |-> api.now]
    <3>1. api.manifest \in Manifests /\ api.now \in 0..MaxClock
      BY <1>1 DEF GrantsInv, ApiGood, ApiStates
    <3>2. api' \in ApiStates
      BY <2>2, <3>1 DEF ApiStates
    <3> QED BY <1>1, <2>2, <3>2 DEF GrantsInv, ApiGood
  <2> QED BY <1>1, <2>1, <2>2
<1> QED BY <1>1, <1>2 DEF GrantsInv

LEMMA AuthorizeIssueIsGood == GrantsInv /\ AuthorizeIssue => GrantsInv'
<1> SUFFICES ASSUME GrantsInv, AuthorizeIssue
             PROVE  GrantsInv'
  OBVIOUS
<1> DEFINE auth == [ manifest |-> api.manifest, at |-> api.now,
                     expires |-> Earlier(api.now + AuthTTL, api.manifest.expires) ]
<1>1. /\ api.pc = "Issue" /\ api' = [pc |-> "Idle"]
      /\ auths' \subseteq auths \cup {auth}
      /\ UNCHANGED <<clock, rechecks, manifests, receipts>>
  BY DEF AuthorizeIssue
<1>2. /\ ManifestGood(api.manifest) /\ api.manifest.at <= api.now /\ api.now <= clock
      /\ api.manifest \in Manifests /\ api.now \in 0..MaxClock
  BY <1>1 DEF GrantsInv, ApiGood, ManifestGood, ApiStates
<1>3. api.now + AuthTTL \in Nat /\ api.manifest.expires \in Nat
  BY <1>2, BoundFacts DEF Manifests
<1>4. /\ Earlier(api.now + AuthTTL, api.manifest.expires) \in Nat
      /\ Earlier(api.now + AuthTTL, api.manifest.expires) <= api.now + AuthTTL
      /\ Earlier(api.now + AuthTTL, api.manifest.expires) <= api.manifest.expires
  BY <1>3, EarlierFacts
<1>5. /\ auth \in Auths /\ auth.manifest = api.manifest /\ auth.at = api.now
      /\ auth.expires = Earlier(api.now + AuthTTL, api.manifest.expires)
  BY <1>2, <1>4 DEF Auths
<1> HIDE DEF auth
<1>6. AuthGood(auth) /\ auth.at <= clock
  BY <1>2, <1>4, <1>5 DEF AuthGood
<1>7. ApiGood'
  BY <1>1 DEF ApiGood, ApiStates
<1> QED BY <1>1, <1>6, <1>7 DEF GrantsInv

LEMMA SimulateReadIsGood ==
    ASSUME TowerInv, GrantsInv, NEW auth \in auths, NEW nonce \in SubmissionNonces,
           SimulateRead(auth, nonce)
    PROVE  GrantsInv'
<1>1. UNCHANGED <<clock, rechecks, manifests, receipts>> /\ auths' \subseteq auths
  BY DEF SimulateRead
<1>2. CASE ~Submittable(auth)
  <2>1. api' = api
    BY <1>2 DEF SimulateRead
  <2> QED BY <1>1, <2>1, GrantsShrink, TowerFacts
<1>3. CASE Submittable(auth)
  <2>1. api' = [pc |-> "Submit", auth |-> auth, nonce |-> nonce, now |-> clock]
    BY <1>3 DEF SimulateRead
  <2>2. AuthGood(auth) /\ auth.at <= clock /\ clock < auth.expires
    BY <1>3 DEF GrantsInv, Submittable
  <2>3. clock \in 0..MaxClock /\ clock <= clock
    BY BoundFacts DEF TowerInv
  <2>4. api' \in ApiStates
    BY <2>1, <2>2, <2>3 DEF ApiStates, AuthGood
  <2>5. ApiGood'
    BY <1>1, <2>1, <2>2, <2>3, <2>4 DEF ApiGood
  <2> QED BY <1>1, <2>5 DEF GrantsInv
<1> QED BY <1>2, <1>3

LEMMA SimulateCommitIsGood == GrantsInv /\ SimulateCommit => GrantsInv'
<1> SUFFICES ASSUME GrantsInv, SimulateCommit
             PROVE  GrantsInv'
  OBVIOUS
<1> DEFINE receipt == [auth |-> api.auth, nonce |-> api.nonce, at |-> api.now]
<1>1. /\ api.pc = "Submit" /\ api' = [pc |-> "Idle"]
      /\ auths' \subseteq auths /\ receipts' \subseteq receipts \cup {receipt}
      /\ UNCHANGED <<clock, rechecks, manifests>>
  BY DEF SimulateCommit
<1>2. /\ AuthGood(api.auth) /\ api.auth.at <= api.now /\ api.now < api.auth.expires
      /\ api.nonce \in SubmissionNonces /\ api.now \in 0..MaxClock
  BY <1>1 DEF GrantsInv, ApiGood, ApiStates
<1>3. ReceiptGood(receipt)
  <2>1. receipt \in Receipts
    BY <1>2 DEF Receipts, AuthGood
  <2> QED BY <1>2, <2>1 DEF ReceiptGood
<1>4. ApiGood'
  BY <1>1 DEF ApiGood, ApiStates
<1> HIDE DEF receipt
<1> QED BY <1>1, <1>3, <1>4 DEF GrantsInv

-----------------------------------------------------------------------------
(* What is granted is current                                              *)

LEMMA CurrentShrinks ==
    ASSUME CurrentInv, Ids' = Ids, rechecks' \subseteq rechecks, manifests' \subseteq manifests,
           api'.pc = "Submit" => api' = api /\ auths' \subseteq auths
    PROVE  CurrentInv'
BY DEF CurrentInv

\* A rebuilt preparation takes what was granted for the former one with it.
LEMMA RebuildIsCurrent ==
    ASSUME TowerInv, CurrentInv, NEW obs, PrepareOfflineChallenge(obs)
    PROVE  CurrentInv'
<1> DEFINE coin == CoinId(obs.path)
           Ends(id) == CoinId(id.path) = coin
<1>1. \E new : preps' = (preps \ PrepsOf(coin)) \cup {new}
  BY DEF PrepareOfflineChallenge
<1>2. /\ rechecks' = {k \in rechecks : ~Ends(k.prep)}
      /\ manifests' = {m \in manifests : ~Ends(m.recheck.prep)}
      /\ auths' = {a \in auths : ~Ends(a.manifest.recheck.prep)}
      /\ api' = api
  BY DEF PrepareOfflineChallenge, RebuildEnds, EndGates
<1>3. ASSUME NEW id \in Ids, ~Ends(id)
      PROVE  id \in Ids'
  <2>1. PICK prep \in preps : prep.id = id
    BY <1>3 DEF Ids
  <2>2. prep \notin PrepsOf(coin)
    BY <1>3, <2>1 DEF PrepsOf
  <2> HIDE DEF coin
  <2> QED BY <1>1, <2>1, <2>2 DEF Ids
<1> HIDE DEF Ends
<1> QED BY <1>2, <1>3 DEF CurrentInv

LEMMA SimulateReadIsCurrent ==
    ASSUME CurrentInv, NEW auth \in auths, NEW nonce, SimulateRead(auth, nonce)
    PROVE  CurrentInv'
<1>1. UNCHANGED <<preps, rechecks, manifests>> /\ auths' \subseteq auths
  BY DEF SimulateRead
<1>2. Ids' = Ids
  BY <1>1 DEF Ids
<1>3. CASE ~Submittable(auth)
  <2>1. api' = api
    BY <1>3 DEF SimulateRead
  <2> QED BY <1>1, <1>2, <2>1, CurrentShrinks
<1>4. CASE Submittable(auth)
  <2>1. api' = [pc |-> "Submit", auth |-> auth, nonce |-> nonce, now |-> clock]
    BY <1>4 DEF SimulateRead
  <2>2. auth.manifest.recheck.prep \in Ids
    BY <1>4 DEF CurrentInv, Submittable
  <2> QED BY <1>1, <1>2, <2>1, <2>2 DEF CurrentInv
<1> QED BY <1>3, <1>4

-----------------------------------------------------------------------------
(* The tables of the tower                                                 *)

\* What a step must keep if it leaves chain, clock and packages alone.
LEMMA TowerStays ==
    ASSUME TowerInv, UNCHANGED <<blocks, branch, clock, held>>,
           PlansOK', PrepsOK', RowsOK', MonitorOK'
    PROVE  TowerInv'
<1>1. ChainInv'
  BY ChainStep DEF TowerInv, chainVars
<1>2. (held \subseteq Packages /\ HasLatest(held))' /\ clock' \in 0..MaxClock
  BY DEF TowerInv, HasLatest
<1> QED BY <1>1, <1>2 DEF TowerInv

LEMMA TablesStay ==
    ASSUME TowerInv
    PROVE  /\ UNCHANGED plans => PlansOK'
           /\ UNCHANGED preps => PrepsOK' /\ Ids' = Ids
           /\ UNCHANGED approvals => RowsOK'
           /\ UNCHANGED monitor => MonitorOK'
<1>1. UNCHANGED plans => PlansOK'
  BY DEF TowerInv, PlansOK, CoinId
<1>2. UNCHANGED preps => PrepsOK' /\ Ids' = Ids
  BY DEF TowerInv, PrepsOK, CoinId, Ids
<1>3. UNCHANGED approvals => RowsOK'
  BY DEF TowerInv, RowsOK, Signed
<1>4. UNCHANGED monitor => MonitorOK'
  BY DEF TowerInv, MonitorOK
<1> QED BY <1>1, <1>2, <1>3, <1>4

\* A step of the chain, of the clock or of the packages.
LEMMA OutsideKeepsTower ==
    ASSUME TowerInv, [ChainNext]_chainVars, clock' \in 0..MaxClock,
           held' \subseteq Packages, HasLatest(held)',
           UNCHANGED <<plans, preps, approvals, monitor>>
    PROVE  TowerInv'
<1>1. ChainInv'
  BY ChainStep DEF TowerInv
<1> QED BY <1>1, TablesStay DEF TowerInv

LEMMA PollKeepsTower ==
    ASSUME TowerInv, NEW obs \in Observations, MonitorPoll(obs)
    PROVE  TowerInv' /\ Ids' = Ids
<1>1. UNCHANGED <<blocks, branch, clock, held, plans, preps, approvals>>
  BY DEF MonitorPoll
<1>2. \/ \E coin : \E to \in Withdrawn : monitor' = Withdraw(coin, to)
      \/ monitor' = [pc |-> "Plan", plan |-> [path |-> obs.path, target |-> Latest]]
      \/ monitor' = [pc |-> "Idle"]
  <2>1. "ChainRecheckRequired" \in Withdrawn /\ "Invalidated" \in Withdrawn
    BY DEF Withdrawn
  <2> QED BY <2>1 DEF MonitorPoll
<1>3. MonitorOK'
  <2>1. ASSUME NEW coin, NEW to \in Withdrawn, monitor' = Withdraw(coin, to)
        PROVE  MonitorOK'
    <3>1. \/ monitor' = [pc |-> "Preparations", coin |-> coin, to |-> to]
          \/ monitor' = [pc |-> "Idle"]
      BY <2>1 DEF Withdraw
    <3> QED BY <3>1 DEF MonitorOK
  <2>2. CASE monitor' = [pc |-> "Plan", plan |-> [path |-> obs.path, target |-> Latest]]
    BY <2>2, ObservationFacts, TowerFacts DEF MonitorOK
  <2>3. CASE monitor' = [pc |-> "Idle"]
    BY <2>3 DEF MonitorOK
  <2> QED BY <1>2, <2>1, <2>2, <2>3
<1> QED BY <1>1, <1>3, TowerStays, TablesStay

LEMMA StepKeepsMonitor ==
    ASSUME MonitorOK, NEW from, NEW to \in {"Gates", "Authorizations", "Idle"},
           monitor.pc \in {"Preparations", "Gates", "Authorizations", "Plan"},
           monitor.pc = "Plan" => to = "Idle",
           MonitorStep(from, to)
    PROVE  MonitorOK' /\ UNCHANGED <<blocks, branch, clock, held, receipts, api>>
<1>1. CASE to = "Idle"
  BY <1>1 DEF MonitorStep, MonitorOK
<1>2. CASE to # "Idle"
  <2>1. /\ monitor = [pc |-> monitor.pc, coin |-> monitor.coin, to |-> monitor.to]
        /\ monitor.to \in Withdrawn
    BY <1>2 DEF MonitorOK
  <2>2. monitor' = [pc |-> to, coin |-> monitor.coin, to |-> monitor.to]
    BY <1>2, <2>1 DEF MonitorStep
  <2> QED BY <1>2, <2>1, <2>2 DEF MonitorStep, MonitorOK
<1> QED BY <1>1, <1>2

LEMMA WithdrawPreparationsKeepsTower ==
    TowerInv /\ WithdrawPreparations => TowerInv' /\ Ids' = Ids
<1> SUFFICES ASSUME TowerInv, WithdrawPreparations
             PROVE  TowerInv' /\ Ids' = Ids
  OBVIOUS
<1> DEFINE Write(p) == IF InScope(p.id) /\ (monitor.coin = <<>> => p.status \notin Withdrawn)
                       THEN [p EXCEPT !.status = monitor.to] ELSE p
<1>1. /\ preps' = {Write(p) : p \in preps} /\ UNCHANGED <<plans, approvals>>
      /\ MonitorStep("Preparations", "Gates")
  BY DEF WithdrawPreparations
<1>2. monitor.pc = "Preparations" /\ monitor.to \in Withdrawn
  BY <1>1 DEF MonitorStep, TowerInv, MonitorOK
<1>3. MonitorOK' /\ UNCHANGED <<blocks, branch, clock, held, receipts, api>>
  BY <1>1, <1>2, StepKeepsMonitor DEF TowerInv
<1>4. \A p \in preps : Write(p) \in Preps /\ Write(p).id = p.id
  BY <1>2 DEF TowerInv, PrepsOK, Preps
<1> HIDE DEF Write
<1>5. PrepsOK'
  BY <1>1, <1>4 DEF TowerInv, PrepsOK, CoinId
<1>6. Ids' = Ids
  BY <1>1, <1>4 DEF Ids
<1> QED BY <1>1, <1>3, <1>5, <1>6, TowerStays, TablesStay

LEMMA WithdrawGatesKeepsTower ==
    TowerInv /\ WithdrawGates => TowerInv' /\ Ids' = Ids
<1> SUFFICES ASSUME TowerInv, WithdrawGates
             PROVE  TowerInv' /\ Ids' = Ids
  OBVIOUS
<1> DEFINE End(row) == [row EXCEPT !.active = row.active /\ ~InScope(row.prep)]
<1>1. /\ approvals' = {End(row) : row \in approvals} /\ UNCHANGED <<plans, preps>>
      /\ MonitorStep("Gates", "Authorizations")
  BY DEF WithdrawGates, RevokeApprovals
<1>2. MonitorOK' /\ UNCHANGED <<blocks, branch, clock, held, receipts, api>>
  <2>1. monitor.pc = "Gates"
    BY <1>1 DEF MonitorStep
  <2> QED BY <1>1, <2>1, StepKeepsMonitor DEF TowerInv
<1>3. \A row \in Rows : /\ End(row) \in Rows
                        /\ End(row).approver = row.approver /\ End(row).expires = row.expires
  BY DEF Rows
<1> HIDE DEF End
<1>4. RowsOK'
  BY <1>1, <1>3 DEF TowerInv, RowsOK, Signed
<1> QED BY <1>1, <1>2, <1>4, TowerStays, TablesStay

LEMMA WithdrawAuthorizationsKeepsTower ==
    TowerInv /\ WithdrawAuthorizations => TowerInv' /\ Ids' = Ids
<1> SUFFICES ASSUME TowerInv, WithdrawAuthorizations
             PROVE  TowerInv' /\ Ids' = Ids
  OBVIOUS
<1>1. UNCHANGED <<plans, preps, approvals>> /\ MonitorStep("Authorizations", "Idle")
  BY DEF WithdrawAuthorizations
<1>2. MonitorOK' /\ UNCHANGED <<blocks, branch, clock, held, receipts, api>>
  <2>1. monitor.pc = "Authorizations"
    BY <1>1 DEF MonitorStep
  <2> QED BY <1>1, <2>1, StepKeepsMonitor DEF TowerInv
<1> QED BY <1>1, <1>2, TowerStays, TablesStay

LEMMA PersistPlanKeepsTower ==
    TowerInv /\ PersistPlan => TowerInv' /\ Ids' = Ids
<1> SUFFICES ASSUME TowerInv, PersistPlan
             PROVE  TowerInv' /\ Ids' = Ids
  OBVIOUS
<1>1. UNCHANGED <<preps, approvals>> /\ MonitorStep("Plan", "Idle")
  BY DEF PersistPlan
<1>2. monitor.pc = "Plan"
  BY <1>1 DEF MonitorStep
<1>3. MonitorOK' /\ UNCHANGED <<blocks, branch, clock, held, receipts, api>>
  BY <1>1, <1>2, StepKeepsMonitor DEF TowerInv
<1>4. monitor.plan.path \in Seq(ClosingCoins) /\ monitor.plan.target \in Packages
  BY <1>2 DEF TowerInv, MonitorOK
<1>5. PlansOK'
  <2>1. CASE PlansOf(CoinId(monitor.plan.path)) # {}
    <3>1. plans' = plans
      BY <2>1 DEF PersistPlan
    <3> QED BY <3>1, TablesStay
  <2>2. CASE PlansOf(CoinId(monitor.plan.path)) = {}
    <3>1. plans' = plans \cup {monitor.plan}
      BY <2>2 DEF PersistPlan
    <3>2. \A plan \in plans : CoinId(plan.path) # CoinId(monitor.plan.path)
      BY <2>2 DEF PlansOf
    <3> QED BY <1>4, <3>1, <3>2 DEF TowerInv, PlansOK, CoinId
  <2> QED BY <2>1, <2>2
<1> QED BY <1>1, <1>3, <1>5, TowerStays, TablesStay

LEMMA PrepareKeepsTower ==
    ASSUME TowerInv, NEW obs \in Observations, PrepareOfflineChallenge(obs)
    PROVE  TowerInv'
<1> DEFINE coin == CoinId(obs.path)
           New(epoch) == [ id |-> [path |-> obs.path, target |-> Latest, peak |-> obs.peak,
                                   epoch |-> epoch],
                           status |-> "AwaitingApproval" ]
<1>1. PICK epoch \in 0..MaxClock : preps' = (preps \ PrepsOf(coin)) \cup {New(epoch)}
  BY DEF PrepareOfflineChallenge
<1>2. /\ UNCHANGED <<blocks, branch, clock, held, plans, monitor>>
      /\ approvals' \subseteq approvals /\ obs.path # <<>>
  BY DEF PrepareOfflineChallenge
<1>3. New(epoch) \in Preps /\ New(epoch).id.path = obs.path
  <2>1. /\ obs.path \in Seq(ClosingCoins) /\ Latest \in Packages
        /\ obs.peak \in [height : 1..MaxHeight, branch : 0..MaxReorgs]
    BY <1>2, ObservationFacts, TowerFacts
  <2> QED BY <2>1 DEF Preps, PrepIds
<1> HIDE DEF New
<1>4. ASSUME NEW p \in preps', NEW q \in preps', CoinId(p.id.path) = CoinId(q.id.path)
      PROVE  p = q
  <2>1. \A old \in preps \ PrepsOf(coin) : CoinId(old.id.path) # CoinId(New(epoch).id.path)
    BY <1>3 DEF PrepsOf
  <2> HIDE DEF coin
  <2> QED BY <1>1, <1>4, <2>1 DEF TowerInv, PrepsOK
<1>5. PrepsOK'
  <2>1. preps' \subseteq Preps
    BY <1>1, <1>3 DEF TowerInv, PrepsOK
  <2> QED BY <1>4, <2>1 DEF PrepsOK, CoinId
<1>6. RowsOK'
  BY <1>2 DEF TowerInv, RowsOK, Signed
<1> QED BY <1>2, <1>5, <1>6, TowerStays, TablesStay

\* approval_status, which most commands call, keeps the tables.
LEMMA ReadKeepsTower ==
    ASSUME TowerInv, NEW prep, ReadApprovals(prep),
           UNCHANGED <<blocks, branch, clock, held, plans, monitor>>
    PROVE  TowerInv' /\ Ids' = Ids
<1>1. /\ approvals' = Expire(prep.id, approvals)
      /\ preps' = WithStatus(prep, ApprovalOf(prep.id, approvals))
  BY DEF ReadApprovals
<1>2. approvals' \subseteq Rows /\ Signed(approvals)' \subseteq Signed(approvals)
  BY <1>1, ExpireKeeps DEF TowerInv, RowsOK, Signed
<1>3. RowsOK'
  BY <1>2, EndedRows DEF TowerInv
<1>4. ApprovalOf(prep.id, approvals) \in Statuses
  BY ApprovalOfFacts
<1>5. PrepsOK' /\ Ids' = Ids
  BY <1>1, <1>4, StatusKeeps DEF TowerInv
<1> QED BY <1>3, <1>5, TowerStays, TablesStay

LEMMA SubmitKeepsTower ==
    ASSUME TowerInv, NEW prep \in preps, NEW s \in Statements,
           SubmitApproval(prep, s.approver, s.expires)
    PROVE  TowerInv' /\ Ids' = Ids
<1> DEFINE row == [prep |-> prep.id, approver |-> s.approver, expires |-> s.expires, active |-> TRUE]
<1>1. /\ approvals' = Expire(prep.id, approvals) \cup {row}
      /\ preps' = WithStatus(prep, ApprovalOf(prep.id, approvals'))
      /\ UNCHANGED <<blocks, branch, clock, held, plans, monitor>>
  BY DEF SubmitApproval
<1>2. /\ s \in ApprovalStatements /\ s = [approver |-> s.approver, expires |-> s.expires]
      /\ prep.id \in PrepIds
  BY GatesAssumption DEF ApprovalStatements, TowerInv, PrepsOK, Preps
<1>3. /\ row \in Rows /\ row.approver = s.approver /\ row.expires = s.expires
  BY <1>2 DEF Rows, ApprovalStatements
<1> HIDE DEF row
<1>4. /\ Expire(prep.id, approvals) \subseteq Rows
      /\ Signed(Expire(prep.id, approvals)) \subseteq Signed(approvals)
  BY ExpireKeeps DEF TowerInv, RowsOK
<1>5. RowsOK'
  <2>1. approvals' \subseteq Rows
    BY <1>1, <1>3, <1>4
  <2>2. Signed(approvals') \subseteq Signed(approvals) \cup {s}
    BY <1>1, <1>2, <1>3, <1>4 DEF Signed
  <2> QED BY <2>1, <2>2 DEF TowerInv, RowsOK, Signed
<1>6. PrepsOK' /\ Ids' = Ids
  BY <1>1, ApprovalOfFacts, StatusKeeps DEF TowerInv
<1> QED BY <1>1, <1>5, <1>6, TowerStays, TablesStay

LEMMA RecheckFailureKeepsTower ==
    ASSUME TowerInv, NEW obs, FinalRecheckFails(obs)
    PROVE  TowerInv' /\ Ids' = Ids
<1> DEFINE Write(p) == IF p.status \in Withdrawn THEN p
                       ELSE [p EXCEPT !.status = "ChainRecheckRequired"]
           End(row) == [row EXCEPT !.active = FALSE]
<1>1. /\ preps' = {Write(p) : p \in preps} /\ approvals' = {End(row) : row \in approvals}
      /\ UNCHANGED <<blocks, branch, clock, held, plans, monitor>>
  BY DEF FinalRecheckFails
<1>2. \A p \in preps : Write(p) \in Preps /\ Write(p).id = p.id
  BY DEF TowerInv, PrepsOK, Preps, Withdrawn
<1>3. \A row \in Rows : /\ End(row) \in Rows
                        /\ End(row).approver = row.approver /\ End(row).expires = row.expires
  BY DEF Rows
<1> HIDE DEF Write, End
<1>4. PrepsOK'
  BY <1>1, <1>2 DEF TowerInv, PrepsOK, CoinId
<1>5. Ids' = Ids
  BY <1>1, <1>2 DEF Ids
<1>6. RowsOK'
  BY <1>1, <1>3 DEF TowerInv, RowsOK, Signed
<1> QED BY <1>1, <1>4, <1>5, <1>6, TowerStays, TablesStay

LEMMA CountKeepsTower ==
    TowerInv /\ AuthorizeCount => TowerInv' /\ Ids' = Ids
<1> SUFFICES ASSUME TowerInv, AuthorizeCount
             PROVE  TowerInv' /\ Ids' = Ids
  OBVIOUS
<1> DEFINE End(r) ==
             [r EXCEPT !.active = r.active /\ ~(r.prep = api.prep.id /\ r.expires <= api.now)]
<1>1. /\ approvals' = {End(r) : r \in approvals}
      /\ UNCHANGED <<blocks, branch, clock, held, plans, monitor>>
  BY DEF AuthorizeCount
<1>2. \E status \in Statuses : preps' = WithStatus(api.prep, status)
  <2>1. \E two, one \in BOOLEAN :
          preps' = WithStatus(api.prep, IF two THEN "DualApproved"
                                        ELSE IF one THEN "PartiallyApproved"
                                        ELSE "AwaitingApproval")
    BY DEF AuthorizeCount
  <2>2. \A two, one \in BOOLEAN :
          (IF two THEN "DualApproved" ELSE IF one THEN "PartiallyApproved" ELSE "AwaitingApproval")
            \in Statuses
    BY DEF Statuses
  <2> QED BY <2>1, <2>2
<1>3. PrepsOK' /\ Ids' = Ids
  BY <1>2, StatusKeeps DEF TowerInv
<1>4. \A row \in Rows : /\ End(row) \in Rows
                        /\ End(row).approver = row.approver /\ End(row).expires = row.expires
  BY DEF Rows
<1> HIDE DEF End
<1>5. RowsOK'
  BY <1>1, <1>4 DEF TowerInv, RowsOK, Signed
<1> QED BY <1>1, <1>3, <1>5, TowerStays, TablesStay

-----------------------------------------------------------------------------
(* The invariant                                                           *)

\* A step that leaves chain, packages and preparations alone, adds no grant and
\* does not begin or end a request, other than by dying.
LEMMA TowerStep ==
    ASSUME GatesInv, TowerInv', UNCHANGED <<blocks, branch, clock, held>>, Ids' = Ids,
           rechecks' \subseteq rechecks, manifests' \subseteq manifests, auths' \subseteq auths,
           receipts' = receipts, api' = api \/ api' = [pc |-> "Idle"]
    PROVE  GatesInv'
<1>1. PreparedInv'
  BY PreparedStays DEF GatesInv, chainVars
<1>2. GrantsInv'
  <2>1. clock \in Nat /\ clock' = clock /\ clock <= clock
    BY TowerFacts DEF GatesInv
  <2> QED BY <2>1, GrantsShrink DEF GatesInv
<1>3. CurrentInv'
  BY CurrentShrinks DEF GatesInv
<1> QED BY <1>1, <1>2, <1>3 DEF GatesInv

LEMMA TickStep == GatesInv /\ Tick => GatesInv'
<1> SUFFICES ASSUME GatesInv, Tick
             PROVE  GatesInv'
  OBVIOUS
<1>1. /\ clock < MaxClock /\ clock' = clock + 1
      /\ UNCHANGED <<blocks, branch, held, plans, preps, approvals, receipts, monitor, api>>
      /\ rechecks' \subseteq rechecks /\ manifests' \subseteq manifests /\ auths' \subseteq auths
  BY DEF Tick, LiveRechecks, LiveManifests, LiveAuths
<1>2. clock' \in 0..MaxClock /\ clock \in Nat /\ clock' \in Nat /\ clock <= clock'
  BY <1>1, BoundFacts DEF GatesInv, TowerInv
<1>3. (held \subseteq Packages /\ HasLatest(held))'
  BY <1>1 DEF GatesInv, TowerInv, HasLatest
<1>4. TowerInv' /\ Ids' = Ids
  BY <1>1, <1>2, <1>3, OutsideKeepsTower DEF GatesInv, chainVars, Ids
<1>5. PreparedInv'
  BY <1>1, <1>4, PreparedStays DEF GatesInv, chainVars
<1>6. GrantsInv'
  BY <1>1, <1>2, GrantsShrink DEF GatesInv
<1>7. CurrentInv'
  BY <1>1, <1>4, CurrentShrinks DEF GatesInv
<1> QED BY <1>4, <1>5, <1>6, <1>7 DEF GatesInv

LEMMA OutsideStep ==
    ASSUME GatesInv, Chain \/ \E p \in Packages : AcceptPackage(p)
    PROVE  GatesInv'
<1>1. /\ UNCHANGED <<clock, plans, preps, approvals, monitor>>
      /\ UNCHANGED <<rechecks, manifests, auths, receipts, api>>
  BY DEF Chain, AcceptPackage, gateVars
<1>2. /\ [ChainNext]_chainVars /\ held' \subseteq Packages /\ HasLatest(held)'
      /\ held \subseteq held'
  <2>1. CASE Chain
    BY <2>1 DEF Chain, GatesInv, TowerInv, HasLatest
  <2>2. ASSUME NEW p \in Packages, AcceptPackage(p)
        PROVE  /\ [ChainNext]_chainVars /\ held' \subseteq Packages /\ HasLatest(held)'
               /\ held \subseteq held'
    <3>1. held' = held \cup {p} /\ UNCHANGED <<blocks, branch>>
      BY <2>2 DEF AcceptPackage
    <3>2. HasLatest(held \cup {p}) /\ held \subseteq Packages
      BY LatestGrows DEF GatesInv, TowerInv
    <3> QED BY <3>1, <3>2 DEF HasLatest, chainVars
  <2> QED BY <2>1, <2>2
<1>3. clock \in Nat /\ clock' \in 0..MaxClock /\ clock' = clock /\ clock <= clock
  BY <1>1, TowerFacts DEF GatesInv, TowerInv
<1>4. TowerInv' /\ Ids' = Ids
  BY <1>1, <1>2, <1>3, OutsideKeepsTower DEF GatesInv, Ids
<1>5. PreparedInv'
  <2>1. CASE Chain
    BY <2>1, <1>1, PreparedMoves DEF Chain, GatesInv
  <2>2. CASE \E p \in Packages : AcceptPackage(p)
    <3>1. UNCHANGED chainVars
      BY <2>2 DEF AcceptPackage, chainVars
    <3> QED BY <3>1, <1>2, <1>4, PreparedStays DEF GatesInv
  <2> QED BY <2>1, <2>2
<1>6. GrantsInv'
  BY <1>1, <1>3, GrantsShrink DEF GatesInv
<1>7. CurrentInv'
  BY <1>1, <1>4, CurrentShrinks DEF GatesInv
<1> QED BY <1>4, <1>5, <1>6, <1>7 DEF GatesInv

LEMMA PollStep == GatesInv /\ MonitorNext => GatesInv'
<1> SUFFICES ASSUME GatesInv, MonitorNext
             PROVE  GatesInv'
  OBVIOUS
<1>1. ASSUME NEW obs \in Observations, MonitorPoll(obs)
      PROVE  GatesInv'
  <2>1. UNCHANGED <<blocks, branch, clock, held, rechecks, manifests, auths, receipts, api>>
    BY <1>1 DEF MonitorPoll, gateVars
  <2> QED BY <1>1, <2>1, PollKeepsTower, TowerStep DEF GatesInv
<1>2. CASE WithdrawPreparations
  <2>1. UNCHANGED <<blocks, branch, clock, held, rechecks, manifests, auths, receipts, api>>
    BY <1>2 DEF WithdrawPreparations, MonitorStep, gateVars
  <2> QED BY <1>2, <2>1, WithdrawPreparationsKeepsTower, TowerStep DEF GatesInv
<1>3. CASE WithdrawGates
  <2>1. /\ UNCHANGED <<blocks, branch, clock, held, auths, receipts, api>>
        /\ rechecks' \subseteq rechecks /\ manifests' \subseteq manifests
    BY <1>3 DEF WithdrawGates, MonitorStep, InvalidateRechecks, InvalidateManifests
  <2> QED BY <1>3, <2>1, WithdrawGatesKeepsTower, TowerStep DEF GatesInv
<1>4. CASE WithdrawAuthorizations
  <2>1. /\ UNCHANGED <<blocks, branch, clock, held, rechecks, manifests, receipts, api>>
        /\ auths' \subseteq auths
    BY <1>4 DEF WithdrawAuthorizations, MonitorStep
  <2> QED BY <1>4, <2>1, WithdrawAuthorizationsKeepsTower, TowerStep DEF GatesInv
<1>5. CASE PersistPlan
  <2>1. UNCHANGED <<blocks, branch, clock, held, rechecks, manifests, auths, receipts, api>>
    BY <1>5 DEF PersistPlan, MonitorStep, gateVars
  <2> QED BY <1>5, <2>1, PersistPlanKeepsTower, TowerStep DEF GatesInv
<1>6. CASE MonitorDies
  <2>1. /\ UNCHANGED <<blocks, branch, clock, held, rechecks, manifests, auths, receipts, api>>
        /\ UNCHANGED <<plans, preps, approvals>> /\ monitor' = [pc |-> "Idle"]
    BY <1>6 DEF MonitorDies, gateVars
  <2>2. MonitorOK'
    BY <2>1 DEF MonitorOK
  <2>3. TowerInv' /\ Ids' = Ids
    BY <2>1, <2>2, TowerStays, TablesStay DEF GatesInv
  <2> QED BY <2>1, <2>3, TowerStep
<1> QED BY <1>1, <1>2, <1>3, <1>4, <1>5, <1>6 DEF MonitorNext

LEMMA OperatorStep == GatesInv /\ OperatorNext => GatesInv'
<1> SUFFICES ASSUME GatesInv, OperatorNext
             PROVE  GatesInv'
  OBVIOUS
<1>1. ASSUME NEW obs \in Observations, PrepareOfflineChallenge(obs)
      PROVE  GatesInv'
  <2>1. /\ UNCHANGED <<clock, receipts, api>>
        /\ rechecks' \subseteq rechecks /\ manifests' \subseteq manifests /\ auths' \subseteq auths
    BY <1>1 DEF PrepareOfflineChallenge, RebuildEnds, EndGates
  <2>2. GrantsInv'
    <3>1. clock \in Nat /\ clock' = clock /\ clock <= clock
      BY <2>1, TowerFacts DEF GatesInv
    <3> QED BY <2>1, <3>1, GrantsShrink DEF GatesInv
  <2> QED BY <1>1, <2>2, PrepareKeepsTower, PrepareIsGood, RebuildIsCurrent DEF GatesInv
<1>2. ASSUME NEW obs \in Observations, FinalRecheckFails(obs)
      PROVE  GatesInv'
  <2>1. /\ UNCHANGED <<blocks, branch, clock, held, receipts, api>>
        /\ rechecks' \subseteq rechecks /\ manifests' \subseteq manifests /\ auths' \subseteq auths
    BY <1>2 DEF FinalRecheckFails, EndGates
  <2> QED BY <1>2, <2>1, RecheckFailureKeepsTower, TowerStep DEF GatesInv
<1>3. ASSUME NEW prep \in preps, NEW s \in Statements,
             SubmitApproval(prep, s.approver, s.expires)
      PROVE  GatesInv'
  <2>1. UNCHANGED <<blocks, branch, clock, held, rechecks, manifests, auths, receipts, api>>
    BY <1>3 DEF SubmitApproval, gateVars
  <2> QED BY <1>3, <2>1, SubmitKeepsTower, TowerStep DEF GatesInv
<1>4. ASSUME NEW prep \in preps, ApprovalStatus(prep)
      PROVE  GatesInv'
  <2>1. /\ UNCHANGED <<blocks, branch, clock, held, rechecks, manifests, auths, receipts, api>>
        /\ UNCHANGED <<plans, monitor>> /\ ReadApprovals(prep)
    BY <1>4 DEF ApprovalStatus, gateVars
  <2> QED BY <2>1, ReadKeepsTower, TowerStep DEF GatesInv
<1>5. ASSUME NEW prep \in preps, NEW obs \in Observations, FinalRecheck(prep, obs)
      PROVE  GatesInv'
  <2>1. /\ UNCHANGED <<blocks, branch, clock, held, plans, monitor, receipts, api>>
        /\ ReadApprovals(prep)
        /\ manifests' \subseteq manifests /\ auths' \subseteq auths
    BY <1>5 DEF FinalRecheck
  <2>2. TowerInv' /\ Ids' = Ids
    BY <2>1, ReadKeepsTower DEF GatesInv
  <2>3. PreparedInv'
    BY <2>1, <2>2, PreparedStays DEF GatesInv, chainVars
  <2>4. GrantsInv' /\ \A k \in rechecks' : k \in rechecks \/ k.prep = prep.id
    BY <1>5, RecheckIsGood DEF GatesInv
  <2>5. prep.id \in Ids
    BY DEF Ids
  <2>6. CurrentInv'
    BY <2>1, <2>2, <2>4, <2>5 DEF GatesInv, CurrentInv
  <2> QED BY <2>2, <2>3, <2>4, <2>6 DEF GatesInv
<1>6. ASSUME NEW prep \in preps, NEW recheck \in rechecks, IssueManifest(recheck, prep)
      PROVE  GatesInv'
  <2>1. /\ UNCHANGED <<blocks, branch, clock, held, plans, monitor, rechecks, receipts, api>>
        /\ ReadApprovals(prep) /\ auths' \subseteq auths
    BY <1>6 DEF IssueManifest
  <2>2. TowerInv' /\ Ids' = Ids
    BY <2>1, ReadKeepsTower DEF GatesInv
  <2>3. PreparedInv'
    BY <2>1, <2>2, PreparedStays DEF GatesInv, chainVars
  <2>4. GrantsInv' /\ \A m \in manifests' : m \in manifests \/ m.recheck = recheck
    BY <1>6, ManifestIsGood DEF GatesInv
  <2>5. recheck.prep \in Ids
    BY DEF GatesInv, CurrentInv
  <2>6. CurrentInv'
    BY <2>1, <2>2, <2>4, <2>5 DEF GatesInv, CurrentInv
  <2> QED BY <2>2, <2>3, <2>4, <2>6 DEF GatesInv
<1> QED BY <1>1, <1>2, <1>3, <1>4, <1>5, <1>6 DEF OperatorNext

\* A request of the API, between its statements.
LEMMA ApiStep == GatesInv /\ ApiNext => GatesInv'
<1> SUFFICES ASSUME GatesInv, ApiNext
             PROVE  GatesInv'
  OBVIOUS
<1> DEFINE Quiet == /\ UNCHANGED <<blocks, branch, clock, held, plans, preps, approvals, monitor>>
                    /\ UNCHANGED <<rechecks, manifests>>
<1>1. ASSUME Quiet
      PROVE  TowerInv' /\ PreparedInv' /\ Ids' = Ids
  <2>1. TowerInv' /\ Ids' = Ids
    BY <1>1, TowerStays, TablesStay DEF GatesInv
  <2> QED BY <1>1, <2>1, PreparedStays DEF GatesInv, chainVars
<1>2. ASSUME NEW prep \in preps, NEW manifest \in manifests, AuthorizeRead(manifest, prep)
      PROVE  GatesInv'
  <2>1. Quiet /\ api'.pc = "Count"
    BY <1>2 DEF AuthorizeRead, gateVars
  <2>2. TowerInv' /\ PreparedInv' /\ Ids' = Ids
    BY <1>1, <2>1
  <2>3. GrantsInv'
    BY <1>2, AuthorizeReadIsGood DEF GatesInv
  <2>4. CurrentInv'
    BY <2>1, <2>2, CurrentShrinks DEF GatesInv
  <2> QED BY <2>2, <2>3, <2>4 DEF GatesInv
<1>3. CASE AuthorizeCount
  <2>1. /\ UNCHANGED <<blocks, branch, held, rechecks, manifests>>
        /\ api'.pc # "Submit"
    BY <1>3 DEF AuthorizeCount, gateVars
  <2>2. TowerInv' /\ Ids' = Ids
    BY <1>3, CountKeepsTower DEF GatesInv
  <2>3. PreparedInv'
    BY <2>1, <2>2, PreparedStays DEF GatesInv, chainVars
  <2>4. GrantsInv'
    BY <1>3, AuthorizeCountIsGood DEF GatesInv
  <2>5. CurrentInv'
    BY <2>1, <2>2, CurrentShrinks DEF GatesInv
  <2> QED BY <2>2, <2>3, <2>4, <2>5 DEF GatesInv
<1>4. CASE AuthorizeIssue
  <2>1. Quiet /\ api'.pc = "Idle"
    BY <1>4 DEF AuthorizeIssue
  <2>2. TowerInv' /\ PreparedInv' /\ Ids' = Ids
    BY <1>1, <2>1
  <2>3. GrantsInv'
    BY <1>4, AuthorizeIssueIsGood DEF GatesInv
  <2>4. CurrentInv'
    BY <2>1, <2>2, CurrentShrinks DEF GatesInv
  <2> QED BY <2>2, <2>3, <2>4 DEF GatesInv
<1>5. ASSUME NEW auth \in auths, NEW nonce \in SubmissionNonces, SimulateRead(auth, nonce)
      PROVE  GatesInv'
  <2>1. Quiet
    BY <1>5 DEF SimulateRead
  <2>2. TowerInv' /\ PreparedInv'
    BY <1>1, <2>1
  <2> QED BY <1>5, <2>2, SimulateReadIsGood, SimulateReadIsCurrent DEF GatesInv
<1>6. CASE SimulateCommit
  <2>1. Quiet /\ api'.pc = "Idle"
    BY <1>6 DEF SimulateCommit
  <2>2. TowerInv' /\ PreparedInv' /\ Ids' = Ids
    BY <1>1, <2>1
  <2>3. GrantsInv'
    BY <1>6, SimulateCommitIsGood DEF GatesInv
  <2>4. CurrentInv'
    BY <2>1, <2>2, CurrentShrinks DEF GatesInv
  <2> QED BY <2>2, <2>3, <2>4 DEF GatesInv
<1>7. CASE ApiDies
  <2>1. Quiet /\ auths' = auths /\ receipts' = receipts /\ api' = [pc |-> "Idle"]
    BY <1>7 DEF ApiDies, gateVars
  <2>2. TowerInv' /\ Ids' = Ids
    BY <1>1, <2>1
  <2> QED BY <2>1, <2>2, TowerStep
<1> QED BY <1>2, <1>3, <1>4, <1>5, <1>6, <1>7 DEF ApiNext

LEMMA GatesStart == Init => GatesInv
<1> SUFFICES ASSUME Init
             PROVE  GatesInv
  OBVIOUS
<1>1. /\ ChainInit /\ clock = 0 /\ held = {FirstPackage}
      /\ plans = {} /\ preps = {} /\ approvals = {}
      /\ rechecks = {} /\ manifests = {} /\ auths = {} /\ receipts = {}
      /\ monitor = [pc |-> "Idle"] /\ api = [pc |-> "Idle"]
  BY DEF Init
<1>2. HasLatest(held) /\ held \subseteq Packages
  <2>1. FirstPackage.seq \in Nat
    BY BoundFacts, PackagesAssumption DEF PackageValid
  <2> QED BY <1>1, <2>1, BoundFacts DEF HasLatest
<1>3. TowerInv
  <2>1. PlansOK /\ PrepsOK /\ RowsOK /\ MonitorOK
    BY <1>1 DEF PlansOK, PrepsOK, RowsOK, Signed, MonitorOK
  <2>2. clock \in 0..MaxClock
    BY <1>1, BoundFacts
  <2> QED BY <1>1, <1>2, <2>1, <2>2, ChainStarts DEF TowerInv
<1>4. PreparedInv
  <2>1. \A i \in DOMAIN blocks : blocks[i].branch <= branch
    BY <1>1 DEF ChainInit
  <2> QED BY <1>1, <2>1 DEF PreparedInv, Ids
<1>5. GrantsInv /\ CurrentInv
  BY <1>1 DEF GrantsInv, CurrentInv, ApiGood, ApiStates
<1> QED BY <1>3, <1>4, <1>5 DEF GatesInv

LEMMA GatesStep == GatesInv /\ [Next]_vars => GatesInv'
<1> SUFFICES ASSUME GatesInv, [Next]_vars
             PROVE  GatesInv'
  OBVIOUS
<1>1. CASE UNCHANGED vars
  <2>1. UNCHANGED <<blocks, branch, clock, held, plans, preps, approvals, monitor>>
    BY <1>1 DEF vars
  <2>2. TowerInv' /\ Ids' = Ids
    BY <2>1, TowerStays, TablesStay DEF GatesInv
  <2>3. UNCHANGED <<rechecks, manifests, auths, receipts, api>>
    BY <1>1 DEF vars
  <2> QED BY <2>1, <2>2, <2>3, TowerStep
<1> QED BY <1>1, TickStep, OutsideStep, PollStep, OperatorStep, ApiStep DEF Next

-----------------------------------------------------------------------------
(* Plans                                                                   *)

\* Every preparation has its plan.
PlannedInv == \A id \in Ids : \E plan \in plans : SameChallenge(plan, id)

LEMMA PlansOnlyGrow == [Next]_vars => plans \subseteq plans'
<1> SUFFICES ASSUME [Next]_vars
             PROVE  plans \subseteq plans'
  OBVIOUS
<1>1. (UNCHANGED vars \/ Tick \/ Chain \/ \E p \in Packages : AcceptPackage(p))
        => plans' = plans
  BY DEF vars, Tick, Chain, AcceptPackage
<1>2. MonitorNext => plans \subseteq plans'
  BY DEF MonitorNext, MonitorPoll, WithdrawPreparations, WithdrawGates,
         WithdrawAuthorizations, PersistPlan, MonitorDies
<1>3. OperatorNext => plans' = plans
  BY DEF OperatorNext, PrepareOfflineChallenge, FinalRecheckFails, SubmitApproval,
         ApprovalStatus, FinalRecheck, IssueManifest
<1>4. ApiNext => plans' = plans
  BY DEF ApiNext, AuthorizeRead, AuthorizeCount, AuthorizeIssue, SimulateRead,
         SimulateCommit, ApiDies
<1> QED BY <1>1, <1>2, <1>3, <1>4 DEF Next

\* Only a rebuilt preparation brings an id that was not there.
LEMMA IdsStay ==
    ASSUME TowerInv, [Next]_vars,
           ~ \E obs \in Observations : PrepareOfflineChallenge(obs)
    PROVE  Ids' = Ids
<1>1. ASSUME UNCHANGED preps
      PROVE  Ids' = Ids
  BY <1>1 DEF Ids
<1>2. CASE UNCHANGED vars \/ Tick \/ Chain \/ \E p \in Packages : AcceptPackage(p)
  BY <1>1, <1>2 DEF vars, Tick, Chain, AcceptPackage
<1>3. CASE MonitorNext
  <2>1. CASE MonitorDies
    BY <1>1, <2>1 DEF MonitorDies
  <2> QED BY <1>3, <2>1, PollKeepsTower, WithdrawPreparationsKeepsTower,
             WithdrawGatesKeepsTower, WithdrawAuthorizationsKeepsTower,
             PersistPlanKeepsTower DEF MonitorNext
<1>4. CASE OperatorNext
  <2>1. ASSUME NEW obs \in Observations, FinalRecheckFails(obs)
        PROVE  Ids' = Ids
    BY <2>1, RecheckFailureKeepsTower
  <2>2. ASSUME NEW prep \in preps, NEW s \in Statements,
               SubmitApproval(prep, s.approver, s.expires)
        PROVE  Ids' = Ids
    BY <2>2, SubmitKeepsTower
  <2>3. ASSUME NEW prep \in preps, ReadApprovals(prep),
               UNCHANGED <<blocks, branch, clock, held, plans, monitor>>
        PROVE  Ids' = Ids
    BY <2>3, ReadKeepsTower
  <2>4. ASSUME NEW prep \in preps, ApprovalStatus(prep)
        PROVE  Ids' = Ids
    BY <2>3, <2>4 DEF ApprovalStatus
  <2>5. ASSUME NEW prep \in preps, NEW obs \in Observations, FinalRecheck(prep, obs)
        PROVE  Ids' = Ids
    BY <2>3, <2>5 DEF FinalRecheck
  <2>6. ASSUME NEW prep \in preps, NEW recheck \in rechecks, IssueManifest(recheck, prep)
        PROVE  Ids' = Ids
    BY <2>3, <2>6 DEF IssueManifest
  <2> QED BY <1>4, <2>1, <2>2, <2>4, <2>5, <2>6 DEF OperatorNext
<1>5. CASE ApiNext
  <2>1. CASE AuthorizeCount
    BY <2>1, CountKeepsTower
  <2>2. CASE ~AuthorizeCount
    <3>1. preps' = preps
      BY <1>5, <2>2 DEF ApiNext, AuthorizeRead, AuthorizeIssue, SimulateRead,
                        SimulateCommit, ApiDies
    <3> QED BY <1>1, <3>1
  <2> QED BY <2>1, <2>2
<1> QED BY <1>2, <1>3, <1>4, <1>5 DEF Next

LEMMA PlannedStep == TowerInv /\ PlannedInv /\ [Next]_vars => PlannedInv'
<1> SUFFICES ASSUME TowerInv, PlannedInv, [Next]_vars
             PROVE  PlannedInv'
  OBVIOUS
<1>1. plans \subseteq plans'
  BY PlansOnlyGrow
<1>2. \A plan, id : SameChallenge(plan, id)' <=> SameChallenge(plan, id)
  BY DEF SameChallenge, CoinId
<1>3. CASE ~ \E obs \in Observations : PrepareOfflineChallenge(obs)
  <2>1. Ids' = Ids
    BY <1>3, IdsStay
  <2> QED BY <1>1, <1>2, <2>1 DEF PlannedInv
<1>4. ASSUME NEW obs \in Observations, PrepareOfflineChallenge(obs)
      PROVE  PlannedInv'
  <2> DEFINE coin == CoinId(obs.path)
             New(epoch) == [path |-> obs.path, target |-> Latest, peak |-> obs.peak, epoch |-> epoch]
  <2>1. PICK epoch \in 0..MaxClock :
          preps' = (preps \ PrepsOf(coin)) \cup {[id |-> New(epoch), status |-> "AwaitingApproval"]}
    BY <1>4 DEF PrepareOfflineChallenge
  <2>2. PICK plan \in PlansOf(coin) : Matches(plan, obs) /\ plan.target = Latest
    BY <1>4 DEF PrepareOfflineChallenge
  <2>3. plan \in plans /\ CoinId(plan.path) = coin
    BY <2>2 DEF PlansOf
  <2>4. SameChallenge(plan, New(epoch))
    BY <2>2, <2>3 DEF SameChallenge, Matches
  <2> HIDE DEF New, coin
  <2>5. Ids' \subseteq Ids \cup {New(epoch)}
    BY <2>1 DEF Ids
  <2> QED BY <1>1, <1>2, <2>3, <2>4, <2>5 DEF PlannedInv
<1> QED BY <1>3, <1>4

-----------------------------------------------------------------------------
(* Receipts                                                                *)

\* Only the API's last statement records a submission.
LEMMA OnlyCommitRecords == [Next]_vars => SimulateCommit \/ receipts' = receipts
<1> SUFFICES ASSUME [Next]_vars, ~SimulateCommit
             PROVE  receipts' = receipts
  OBVIOUS
<1>1. (UNCHANGED vars \/ Tick \/ Chain \/ \E p \in Packages : AcceptPackage(p))
        => receipts' = receipts
  BY DEF vars, Tick, Chain, AcceptPackage
<1>2. MonitorNext => receipts' = receipts
  BY DEF MonitorNext, MonitorPoll, WithdrawPreparations, WithdrawGates,
         WithdrawAuthorizations, PersistPlan, MonitorDies, MonitorStep
<1>3. OperatorNext => receipts' = receipts
  BY DEF OperatorNext, PrepareOfflineChallenge, FinalRecheckFails, SubmitApproval,
         ApprovalStatus, FinalRecheck, IssueManifest
<1>4. ApiNext => receipts' = receipts
  BY DEF ApiNext, AuthorizeRead, AuthorizeCount, AuthorizeIssue, SimulateRead, ApiDies
<1> QED BY <1>1, <1>2, <1>3, <1>4 DEF Next

\* Only its first statement about a submission begins one, of a manifest and a
\* nonce that no receipt has.
LEMMA OnlyReadBegins ==
    ASSUME [Next]_vars, api'.pc = "Submit"
    PROVE  \/ api' = api
           \/ /\ ~Consumed(api'.auth.manifest)
              /\ \A r \in receipts : r.nonce # api'.nonce
<1>1. (UNCHANGED vars \/ Tick \/ Chain \/ \E p \in Packages : AcceptPackage(p))
        => api' = api
  BY DEF vars, Tick, Chain, AcceptPackage
<1>2. MonitorNext => api' = api
  BY DEF MonitorNext, MonitorPoll, WithdrawPreparations, WithdrawGates,
         WithdrawAuthorizations, PersistPlan, MonitorDies, MonitorStep
<1>3. OperatorNext => api' = api
  BY DEF OperatorNext, PrepareOfflineChallenge, FinalRecheckFails, SubmitApproval,
         ApprovalStatus, FinalRecheck, IssueManifest
<1>4. ASSUME NEW auth \in auths, NEW nonce \in SubmissionNonces, SimulateRead(auth, nonce)
      PROVE  \/ api' = api
             \/ /\ ~Consumed(api'.auth.manifest)
                /\ \A r \in receipts : r.nonce # api'.nonce
  <2>1. ~Consumed(auth.manifest) /\ \A r \in receipts : r.nonce # nonce
    BY <1>4 DEF SimulateRead
  <2>2. api' = api \/ api' = [pc |-> "Submit", auth |-> auth, nonce |-> nonce, now |-> clock]
    BY <1>4 DEF SimulateRead
  <2> QED BY <2>1, <2>2
<1>5. ~(\/ \E prep \in preps, manifest \in manifests : AuthorizeRead(manifest, prep)
        \/ AuthorizeCount \/ AuthorizeIssue \/ SimulateCommit \/ ApiDies)
  BY DEF AuthorizeRead, AuthorizeCount, AuthorizeIssue, SimulateCommit, ApiDies
<1> QED BY <1>1, <1>2, <1>3, <1>4, <1>5 DEF Next, ApiNext

\* A manifest is consumed by one submission and a nonce is used for one.
SubmittedOnce ==
    \A r, s \in receipts : r.nonce = s.nonce \/ r.auth.manifest = s.auth.manifest => r = s

SubmittingOnce ==
    api.pc = "Submit" => /\ ~Consumed(api.auth.manifest)
                         /\ \A r \in receipts : r.nonce # api.nonce

LEMMA OnceStep ==
    SubmittedOnce /\ SubmittingOnce /\ [Next]_vars => SubmittedOnce' /\ SubmittingOnce'
<1> SUFFICES ASSUME SubmittedOnce, SubmittingOnce, [Next]_vars
             PROVE  SubmittedOnce' /\ SubmittingOnce'
  OBVIOUS
<1>1. CASE SimulateCommit
  <2> DEFINE new == [auth |-> api.auth, nonce |-> api.nonce, at |-> api.now]
  <2>1. /\ api.pc = "Submit" /\ api'.pc = "Idle"
        /\ receipts' \subseteq receipts \cup {new}
    BY <1>1 DEF SimulateCommit
  <2>2. \A r \in receipts : r.nonce # new.nonce /\ r.auth.manifest # new.auth.manifest
    BY <2>1 DEF SubmittingOnce, Consumed
  <2> HIDE DEF new
  <2>3. SubmittedOnce'
    BY <2>1, <2>2 DEF SubmittedOnce
  <2> QED BY <2>1, <2>3 DEF SubmittingOnce
<1>2. CASE receipts' = receipts
  <2>1. SubmittedOnce'
    BY <1>2 DEF SubmittedOnce
  <2>2. SubmittingOnce'
    BY <1>2, OnlyReadBegins DEF SubmittingOnce, Consumed
  <2> QED BY <2>1, <2>2
<1> QED BY <1>1, <1>2, OnlyCommitRecords

-----------------------------------------------------------------------------
(* What follows                                                            *)

\* Tables, gates and requests stay as the invariant says, in every interleaving
\* of monitor, API and operator.
THEOREM GatesInvariant == Spec => []GatesInv
<1>1. Init => GatesInv
  BY GatesStart
<1>2. GatesInv /\ [Next]_vars => GatesInv'
  BY GatesStep
<1> QED BY <1>1, <1>2, PTL DEF Spec

\* Every table holds rows of its own kind, and a Closing Coin has one plan and
\* one preparation.
THEOREM GatesTypeCorrect == Spec => []GatesTypeOK
<1>1. GatesInv => GatesTypeOK
  <2> SUFFICES ASSUME GatesInv
               PROVE  GatesTypeOK
    OBVIOUS
  <2>1. ClosingTypeOK
    BY DEF GatesInv, TowerInv, ChainInv
  <2>2. held \subseteq Packages /\ held # {} /\ clock \in 0..MaxClock
    BY DEF GatesInv, TowerInv, HasLatest
  <2>3. PlansOK /\ PrepsOK /\ RowsOK
    BY DEF GatesInv, TowerInv
  <2>4. /\ rechecks \subseteq Rechecks /\ manifests \subseteq Manifests
        /\ auths \subseteq Auths /\ receipts \subseteq Receipts /\ api \in ApiStates
    BY DEF GatesInv, GrantsInv, RecheckGood, ManifestGood, AuthGood, ReceiptGood, ApiGood
  <2> QED BY <2>1, <2>2, <2>3, <2>4 DEF GatesTypeOK, PlansOK, PrepsOK, RowsOK
<1> QED BY <1>1, GatesInvariant, PTL

\* Every submission was recorded inside every window it was granted in.
THEOREM SubmissionsAreFresh == Spec => []SubmissionIsFresh
<1>1. GatesInv => SubmissionIsFresh
  BY DEF GatesInv, GrantsInv, ReceiptGood, AuthGood, ManifestGood, RecheckGood, SubmissionIsFresh
<1> QED BY <1>1, GatesInvariant, PTL

\* Every preparation is for what its Closing Coin's one plan says.
THEOREM PreparedArePlanned == Spec => []PlannedInv
<1>1. Init => PlannedInv
  BY DEF Init, PlannedInv, Ids
<1>2. GatesInv /\ PlannedInv /\ [Next]_vars => PlannedInv'
  BY PlannedStep DEF GatesInv
<1> QED BY <1>1, <1>2, GatesInvariant, PTL DEF Spec

\* A plan stays as it is, whatever the chain, the packages and the processes do
\* (INSERT OR IGNORE): what a tower plans for a Closing Coin is planned for good.
THEOREM PlansAreForGood == Spec => [][plans \subseteq plans']_vars
<1>1. [Next]_vars => [plans \subseteq plans']_vars
  BY PlansOnlyGrow
<1> QED BY <1>1, PTL DEF Spec

\* The chain takes the CHALLENGE that was prepared, as long as its tip is the
\* block it was prepared from; and it is the one that was planned.
THEOREM PreparedAreAccepted == Spec => []PreparedIsAccepted
<1>1. GatesInv /\ PlannedInv => PreparedIsAccepted
  <2> SUFFICES ASSUME GatesInv, PlannedInv, NEW prep \in preps
               PROVE  /\ prep.id.target \in held
                      /\ \E plan \in plans : SameChallenge(plan, prep.id)
                      /\ prep.id.peak = Peak =>
                            /\ Here.path = prep.id.path /\ ~Here.done
                            /\ Challengeable(Here.path, prep.id.target)
    BY DEF PreparedIsAccepted
  <2>1. IdGood(prep.id)
    BY DEF GatesInv, PreparedInv, Ids
  <2>2. Height \in Nat /\ Height \in DOMAIN blocks
    BY BlockFacts, PeriodFacts DEF GatesInv, TowerInv
  <2>3. ASSUME prep.id.peak = Peak
        PROVE  /\ Here.path = prep.id.path /\ ~Here.done
               /\ Challengeable(Here.path, prep.id.target)
    <3>1. prep.id.peak.height = Height /\ prep.id.peak.branch = Here.branch
      BY <2>3 DEF Peak
    <3>2. Here.path = prep.id.path /\ ~Here.done
      BY <2>1, <2>2, <3>1 DEF IdGood, Here
    <3> QED BY <2>1, <3>1, <3>2 DEF IdGood, Challengeable
  <2>4. \E plan \in plans : SameChallenge(plan, prep.id)
    BY DEF PlannedInv, Ids
  <2> QED BY <2>1, <2>3, <2>4 DEF IdGood
<1> QED BY <1>1, GatesInvariant, PreparedArePlanned, PTL

\* A submission is recorded for the preparation that its Closing Coin has then.
THEOREM OnlyCurrentAreSubmitted == Spec => OnlyCurrentSubmitted
<1> DEFINE Recorded == \A r \in receipts' \ receipts :
                          \E prep \in preps' : prep.id = r.auth.manifest.recheck.prep
<1>1. GatesInv /\ [Next]_vars => [Recorded]_vars
  <2> SUFFICES ASSUME GatesInv, [Next]_vars
               PROVE  Recorded
    OBVIOUS
  <2>1. CASE SimulateCommit
    <3> SUFFICES ASSUME NEW r \in receipts' \ receipts
                 PROVE  \E prep \in preps' : prep.id = r.auth.manifest.recheck.prep
      OBVIOUS
    <3>1. api.pc = "Submit" /\ api.auth \in auths /\ r.auth = api.auth /\ preps' = preps
      BY <2>1 DEF SimulateCommit
    <3>2. r.auth.manifest.recheck.prep \in Ids
      BY <3>1 DEF GatesInv, CurrentInv
    <3> QED BY <3>1, <3>2 DEF Ids
  <2>2. CASE receipts' = receipts
    BY <2>2
  <2> QED BY <2>1, <2>2, OnlyCommitRecords
<1> QED BY <1>1, GatesInvariant, PTL DEF Spec, OnlyCurrentSubmitted

\* No manifest is consumed twice and no nonce used twice, although the API looks
\* for receipts in one statement and records in another and may die between
\* them (authorization.rs: the request holds the service's mutex).
THEOREM SubmissionsAreOnce == Spec => []SubmittedOnce
<1>1. Init => SubmittedOnce /\ SubmittingOnce
  BY DEF Init, SubmittedOnce, SubmittingOnce
<1>2. SubmittedOnce /\ SubmittingOnce /\ [Next]_vars => SubmittedOnce' /\ SubmittingOnce'
  BY OnceStep
<1> QED BY <1>1, <1>2, PTL DEF Spec

\* What the tower's processes do is nothing to the chain: beside them the
\* channel behaves as the chain alone lets it.
THEOREM GatesImplementChain == Spec => ChainSpec
<1>1. Init => ChainInit
  BY DEF Init
<1>2. [Next]_vars => [ChainNext]_chainVars
  <2> SUFFICES ASSUME [Next]_vars, ~Chain
               PROVE  UNCHANGED chainVars
    BY DEF Chain
  <2>1. (UNCHANGED vars \/ Tick \/ \E p \in Packages : AcceptPackage(p)) => UNCHANGED chainVars
    BY DEF vars, Tick, AcceptPackage, chainVars
  <2>2. MonitorNext => UNCHANGED chainVars
    BY DEF MonitorNext, MonitorPoll, WithdrawPreparations, WithdrawGates,
           WithdrawAuthorizations, PersistPlan, MonitorDies, MonitorStep, chainVars
  <2>3. OperatorNext => UNCHANGED chainVars
    BY DEF OperatorNext, PrepareOfflineChallenge, FinalRecheckFails, SubmitApproval,
           ApprovalStatus, FinalRecheck, IssueManifest, chainVars
  <2>4. ApiNext => UNCHANGED chainVars
    BY DEF ApiNext, AuthorizeRead, AuthorizeCount, AuthorizeIssue, SimulateRead,
           SimulateCommit, ApiDies, chainVars
  <2> QED BY <2>1, <2>2, <2>3, <2>4 DEF Next
<1> QED BY <1>1, <1>2, PTL DEF Spec, ChainSpec

\* So a settlement keeps to its one window beside a tower's gates as well.
THEOREM GatesKeepWindow == Spec => []SettlementKeepsWindow
BY GatesImplementChain, WindowIsKept, PTL
=============================================================================
