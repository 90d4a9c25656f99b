---------------------------- MODULE ClosingProofs ----------------------------
(***************************************************************************)
(* How a channel settles, for every amount, period, set of claims and      *)
(* chain: the invariant of the blocks that ChainInit and ChainNext keep.   *)
(* MonitorProofs and GatesProofs use it, and what else they share.         *)
(***************************************************************************)
EXTENDS ChainMonitor, TLAPS

-----------------------------------------------------------------------------
(* The inductive invariant                                                 *)

\* A lineage keeps to its window and hands its deadline on.
LineageGood(path, height) ==
    path # <<>> =>
       /\ WindowKept(path, height)
       /\ DeadlineOf(path) = path[1].birth + ChallengeBlocks

PaidGood(block, height) ==
    block.path # <<>> /\ block.done =>
       /\ height > block.path[1].birth + ChallengeBlocks
       /\ PaidOut(Last(block.path).claim) = FundingAmount

\* A block's lineage carries on those of the blocks before it.
ForwardInv ==
    \A height \in DOMAIN blocks :
        /\ blocks[height].done => blocks[height].path # <<>>
        /\ \A lower \in 1..height : CarriesOn(blocks[lower], blocks[height])

ChainInv ==
    /\ ClosingTypeOK
    /\ \A height \in DOMAIN blocks :
          /\ LineageGood(blocks[height].path, height)
          /\ PaidGood(blocks[height], height)

-----------------------------------------------------------------------------
(* Values                                                                  *)

\* The function that the fold over nothing is defined by exists.
LEMMA NothingSumsToZero == EntriesSum(<<>>) = 0
<1> DEFINE some(s) == CHOOSE i \in s : TRUE
           step(sum) == [ s \in SUBSET (DOMAIN <<>>) |->
                            IF s = {} THEN 0
                            ELSE <<>>[some(s)].amount + sum[s \ {some(s)}] ]
           none == [s \in SUBSET (DOMAIN <<>>) |-> 0]
           sums == CHOOSE sum : sum = step(sum)
<1>1. DOMAIN <<>> = {}
  OBVIOUS
<1>2. EntriesSum(<<>>) = sums[DOMAIN <<>>]
  BY Zenon DEF EntriesSum, FoldFunction, FoldFunctionOnSet, MapThenFoldSet
<1>3. none = step(none)
  BY <1>1
<1>4. sums = step(sums)
  <2> HIDE DEF step, none
  <2> QED BY <1>3
<1>5. step(sums)[DOMAIN <<>>] = 0
  <2> HIDE DEF sums
  <2> QED BY <1>1
<1> HIDE DEF step, sums
<1> QED BY <1>2, <1>4, <1>5

\* FINALIZE of an acceptable state pays out all of it.
LEMMA AcceptablePaysAll ==
    ASSUME NEW claim \in Claims, Acceptable(claim)
    PROVE  PaidOut(claim) = FundingAmount
<1>1. claim.reserved \in Int /\ claim.remainder \in Int /\ FundingAmount \in Nat
  BY ClaimsAssumption, ClosingAssumption DEF States, ChannelTermsValid
<1>2. /\ claim.remainder >= 0
      /\ claim.reserved + claim.remainder = FundingAmount
      /\ claim.seq = 0 => claim.reserved = 0 /\ claim.entries = <<>>
      /\ claim.seq # 0 => claim.reserved = EntriesSum(claim.entries)
  BY DEF Acceptable, StateValid
<1>3. EntriesSum(claim.entries) = claim.reserved
  BY <1>2, NothingSumsToZero
<1> HIDE DEF EntriesSum
<1> QED BY <1>1, <1>2, <1>3 DEF PaidOut

LEMMA PeriodFacts ==
    /\ CloseDelay \in Nat /\ CloseDelay > 0
    /\ ChallengeBlocks \in Nat /\ ChallengeBlocks > 0
    /\ MaxHeight \in Nat /\ MaxHeight > 0 /\ MaxReorgs \in Nat
BY ClosingAssumption DEF ChannelTermsValid

LEMMA SeqFacts ==
    ASSUME NEW S, NEW s \in Seq(S)
    PROVE  /\ Len(s) \in Nat /\ DOMAIN s = 1..Len(s)
           /\ s # <<>> => Len(s) >= 1
           /\ \A i \in DOMAIN s : s[i] \in S
OBVIOUS

LEMMA CoinFacts ==
    ASSUME NEW coin \in ClosingCoins
    PROVE  /\ coin.birth \in Nat /\ coin.birth <= MaxHeight
           /\ coin.claim \in Claims /\ coin.claim.seq \in Nat
<1>1. coin.claim \in Claims /\ coin.birth \in 1..MaxHeight
  BY DEF ClosingCoins
<1>2. coin.claim.seq \in Nat
  BY <1>1, ClaimsAssumption DEF States
<1> QED BY <1>1, <1>2, PeriodFacts

LEMMA PathFacts ==
    ASSUME NEW path \in Seq(ClosingCoins), path # <<>>
    PROVE  /\ Len(path) \in Nat /\ Len(path) >= 1
           /\ 1 \in DOMAIN path /\ Len(path) \in DOMAIN path
           /\ Last(path) = path[Len(path)] /\ Last(path) \in ClosingCoins
           /\ \A i \in DOMAIN path :
                 /\ path[i] \in ClosingCoins
                 /\ path[i].birth \in Nat /\ path[i].birth <= MaxHeight
                 /\ path[i].claim \in Claims /\ path[i].claim.seq \in Nat
<1>1. /\ Len(path) \in Nat /\ Len(path) >= 1 /\ DOMAIN path = 1..Len(path)
      /\ \A i \in DOMAIN path : path[i] \in ClosingCoins
  BY SeqFacts
<1> QED BY <1>1, CoinFacts DEF Last

LEMMA BlockFacts ==
    ASSUME ChainInv
    PROVE  /\ Height \in Nat /\ Height \in 1..MaxHeight
           /\ DOMAIN blocks = 1..Height
           /\ Here.path \in Seq(ClosingCoins) /\ Here.done \in BOOLEAN
           /\ LineageGood(Here.path, Height) /\ PaidGood(Here, Height)
           /\ \A i \in DOMAIN blocks :
                 /\ blocks[i].path \in Seq(ClosingCoins)
                 /\ blocks[i].done \in BOOLEAN /\ blocks[i].branch \in 0..MaxReorgs
<1> DEFINE Blocks == [branch : 0..MaxReorgs, path : Seq(ClosingCoins), done : BOOLEAN]
<1>1. blocks \in Seq(Blocks) /\ Height \in 1..MaxHeight
  BY DEF ChainInv, ClosingTypeOK
<1>2. \A block \in Blocks : /\ block.path \in Seq(ClosingCoins)
                            /\ block.done \in BOOLEAN /\ block.branch \in 0..MaxReorgs
  OBVIOUS
<1> HIDE DEF Blocks
<1>3. /\ DOMAIN blocks = 1..Height /\ Height \in DOMAIN blocks /\ Height \in Nat
      /\ \A i \in DOMAIN blocks : blocks[i] \in Blocks
  BY <1>1, SeqFacts DEF Height
<1>4. LineageGood(Here.path, Height) /\ PaidGood(Here, Height)
  BY <1>3 DEF ChainInv, Here
<1> QED BY <1>1, <1>2, <1>3, <1>4 DEF Here

-----------------------------------------------------------------------------
(* Packages                                                                *)

HasLatest(held) == \E p \in held : \A q \in held : q.seq <= p.seq

LEMMA LatestFacts ==
    ASSUME NEW held, held \subseteq Packages, HasLatest(held)
    PROVE  /\ LatestOf(held) \in held /\ LatestOf(held).seq \in Nat
           /\ \A p \in held : p.seq \in Nat /\ p.seq <= LatestOf(held).seq
           /\ Acceptable(LatestOf(held))
<1>1. \A p \in held : p.seq \in Nat /\ Acceptable(p)
  BY PackagesAssumption DEF PackageValid
<1>2. LatestOf(held) \in held /\ \A q \in held : q.seq <= LatestOf(held).seq
  BY DEF HasLatest, LatestOf
<1> QED BY <1>1, <1>2

LEMMA LatestGrows ==
    ASSUME NEW held, held \subseteq Packages, HasLatest(held), NEW p \in Packages
    PROVE  HasLatest(held \cup {p})
<1>1. PICK m \in held : \A q \in held : q.seq <= m.seq
  BY DEF HasLatest
<1>2. m.seq \in Nat /\ p.seq \in Nat /\ \A q \in held : q.seq \in Nat
  BY PackagesAssumption DEF PackageValid
<1>3. CASE p.seq <= m.seq
  BY <1>1, <1>2, <1>3 DEF HasLatest
<1>4. CASE m.seq <= p.seq
  <2>1. \A q \in held \cup {p} : q.seq <= p.seq
    BY <1>1, <1>2, <1>4
  <2> QED BY <2>1 DEF HasLatest
<1> QED BY <1>2, <1>3, <1>4

-----------------------------------------------------------------------------
(* A lineage that goes on                                                  *)

LEMMA LineageAges ==
    ASSUME NEW path \in Seq(ClosingCoins), NEW height \in Nat, LineageGood(path, height)
    PROVE  LineageGood(path, height + 1)
<1> SUFFICES ASSUME path # <<>>
             PROVE  WindowKept(path, height + 1)
  BY DEF LineageGood
<1>1. \A i \in DOMAIN path : path[i].birth \in Nat
  BY PathFacts
<1> QED BY <1>1 DEF LineageGood, WindowKept

LEMMA FirstIsGood ==
    ASSUME NEW claim \in Claims, Acceptable(claim),
           NEW height \in Nat, height >= 1 + CloseDelay, height < MaxHeight
    PROVE  /\ <<InitialCoin(claim, height + 1)>> \in Seq(ClosingCoins)
           /\ LineageGood(<<InitialCoin(claim, height + 1)>>, height + 1)
<1> DEFINE coin == InitialCoin(claim, height + 1)
<1>1. coin \in ClosingCoins /\ coin.birth = height + 1 /\ coin.claim = claim
  BY PeriodFacts DEF InitialCoin, ClosingCoins
<1> HIDE DEF coin
<1>2. /\ DOMAIN <<coin>> = {1} /\ <<coin>>[1] = coin /\ Len(<<coin>>) = 1
  OBVIOUS
<1>3. WindowKept(<<coin>>, height + 1)
  BY <1>1, <1>2, PeriodFacts DEF WindowKept
<1>4. DeadlineOf(<<coin>>) = <<coin>>[1].birth + ChallengeBlocks
  BY <1>2 DEF DeadlineOf, IsInitial, Last
<1>5. <<coin>> \in Seq(ClosingCoins)
  BY <1>1
<1> QED BY <1>3, <1>4, <1>5 DEF LineageGood, coin

\* The coin that a CHALLENGE creates.
Challenger(path, claim, birth) ==
    [claim |-> claim, birth |-> birth, deadline |-> DeadlineOf(path)]

LEMMA ChallengeIsGood ==
    ASSUME ChainInv, Here.path # <<>>, Height < MaxHeight,
           NEW claim \in Claims, Challengeable(Here.path, claim)
    PROVE  LET path == Append(Here.path, Challenger(Here.path, claim, Height + 1))
           IN  path \in Seq(ClosingCoins) /\ LineageGood(path, Height + 1)
<1> DEFINE old == Here.path
           n == Len(old)
           coin == Challenger(old, claim, Height + 1)
           path == Append(old, coin)
<1>1. /\ Height \in Nat /\ old \in Seq(ClosingCoins) /\ LineageGood(old, Height)
  BY BlockFacts
<1>2. /\ n \in Nat /\ n >= 1 /\ DOMAIN old = 1..n
      /\ Last(old) = old[n] /\ Last(old) \in ClosingCoins
      /\ \A i \in 1..n : /\ old[i].birth \in Nat /\ old[i].birth <= MaxHeight
                         /\ old[i].claim.seq \in Nat
  BY <1>1, PathFacts
<1>3. DeadlineOf(old) = old[1].birth + ChallengeBlocks /\ WindowKept(old, Height)
  BY <1>1 DEF LineageGood
<1>4. /\ Acceptable(claim) /\ claim.seq > old[n].claim.seq
      /\ Height < old[1].birth + ChallengeBlocks
  BY <1>2, <1>3 DEF Challengeable
<1>5. /\ coin.claim = claim /\ coin.birth = Height + 1
      /\ coin.deadline = old[1].birth + ChallengeBlocks
  BY <1>3 DEF Challenger
<1>6. coin \in ClosingCoins
  <2>1. coin = [claim |-> claim, birth |-> Height + 1, deadline |-> old[1].birth + ChallengeBlocks]
    BY <1>3 DEF Challenger
  <2>2. old[1].birth \in Nat /\ old[1].birth <= MaxHeight
    BY <1>2
  <2> HIDE DEF coin, old
  <2> QED BY <1>1, <2>1, <2>2, PeriodFacts DEF ClosingCoins
<1> HIDE DEF coin, old
<1>7. /\ path \in Seq(ClosingCoins) /\ path # <<>> /\ Len(path) = n + 1
      /\ DOMAIN path = 1..(n + 1)
      /\ \A i \in 1..n : path[i] = old[i]
      /\ path[n + 1] = coin
  BY <1>1, <1>2, <1>6
<1> HIDE DEF path, n
<1>8. claim.seq \in Nat
  BY ClaimsAssumption DEF States
<1>9. \A i \in 1..n : old[i].claim.seq <= old[n].claim.seq /\ old[i].birth <= Height
  <2> SUFFICES ASSUME NEW i \in 1..n
               PROVE  old[i].claim.seq <= old[n].claim.seq /\ old[i].birth <= Height
    OBVIOUS
  <2>1. i \in DOMAIN old /\ n \in DOMAIN old /\ (i = n \/ i < n)
    BY <1>2
  <2>2. /\ old[i].birth <= Height
        /\ i < n => old[i].claim.seq < old[n].claim.seq
    BY <1>3, <2>1 DEF WindowKept
  <2> QED BY <1>2, <2>1, <2>2
<1>10. WindowKept(path, Height + 1)
  <2>1. path[1] = old[1]
    BY <1>2, <1>7
  <2>2. old[1].birth >= 2 + CloseDelay
    BY <1>3 DEF WindowKept
  <2>3. ASSUME NEW i \in 1..n
        PROVE  /\ path[i].birth <= path[1].birth + ChallengeBlocks
               /\ path[i].birth <= Height + 1
               /\ Acceptable(path[i].claim)
               /\ path[i].claim.seq < path[n + 1].claim.seq
               /\ path[i].birth < path[n + 1].birth
    <3>1. /\ old[i].birth <= old[1].birth + ChallengeBlocks /\ old[i].birth <= Height
          /\ Acceptable(old[i].claim)
      BY <1>2, <1>3 DEF WindowKept
    <3>2. old[i].claim.seq < claim.seq
      BY <1>2, <1>4, <1>8, <1>9
    <3>3. path[i] = old[i] /\ path[n + 1] = coin
      BY <1>7
    <3>4. /\ old[i].birth \in Nat /\ old[1].birth \in Nat
          /\ old[i].claim.seq \in Nat /\ Height \in Nat
      BY <1>1, <1>2
    <3>5. old[i].birth <= Height + 1 /\ old[i].birth < Height + 1
      BY <3>1, <3>4
    <3> QED BY <1>5, <2>1, <3>1, <3>2, <3>3, <3>5
  <2>4. /\ path[n + 1].birth <= path[1].birth + ChallengeBlocks
        /\ path[n + 1].birth <= Height + 1
        /\ Acceptable(path[n + 1].claim)
    BY <1>1, <1>2, <1>4, <1>5, <1>7, <2>1, PeriodFacts
  <2>5. \A i, j \in 1..n : i < j => /\ path[i].claim.seq < path[j].claim.seq
                                    /\ path[i].birth < path[j].birth
    BY <1>2, <1>3, <1>7 DEF WindowKept
  <2>6. 1..(n + 1) = (1..n) \cup {n + 1} /\ \A i \in 1..n : ~(n + 1 < i)
    BY <1>2
  <2>7. ~(n + 1 < n + 1)
    BY <1>2
  <2> QED BY <1>7, <2>1, <2>2, <2>3, <2>4, <2>5, <2>6, <2>7, ZenonT(30) DEF WindowKept
<1>11. DeadlineOf(path) = path[1].birth + ChallengeBlocks
  BY <1>2, <1>5, <1>7 DEF DeadlineOf, IsInitial, Last
<1> QED BY <1>7, <1>10, <1>11 DEF LineageGood, path, coin, old

-----------------------------------------------------------------------------
(* The chain                                                               *)

LEMMA GrowKeeps ==
    ASSUME ChainInv, NEW path \in Seq(ClosingCoins), NEW done \in BOOLEAN,
           Grow(path, done),
           LineageGood(path, Height + 1),
           PaidGood([branch |-> branch, path |-> path, done |-> done], Height + 1)
    PROVE  ChainInv'
<1> DEFINE Blocks == [branch : 0..MaxReorgs, path : Seq(ClosingCoins), done : BOOLEAN]
           block == [branch |-> branch, path |-> path, done |-> done]
<1>1. /\ blocks \in Seq(Blocks) /\ Height \in Nat /\ branch \in 0..MaxReorgs
      /\ DOMAIN blocks = 1..Height
  BY BlockFacts DEF ChainInv, ClosingTypeOK
<1>2. block \in Blocks /\ block.path = path
  BY <1>1
<1>3. blocks' = Append(blocks, block) /\ branch' = branch /\ Height < MaxHeight
  BY DEF Grow
<1>4. PaidGood(block, Height + 1)
  OBVIOUS
<1>5. \A height \in DOMAIN blocks : /\ LineageGood(blocks[height].path, height)
                                    /\ PaidGood(blocks[height], height)
  BY DEF ChainInv
<1> HIDE DEF Blocks, block
<1>6. /\ blocks' \in Seq(Blocks) /\ Len(blocks') = Height + 1
      /\ DOMAIN blocks' = 1..(Height + 1)
      /\ \A i \in 1..Height : blocks'[i] = blocks[i]
      /\ blocks'[Height + 1] = block
  BY <1>1, <1>2, <1>3 DEF Height
<1>7. ClosingTypeOK'
  BY <1>1, <1>3, <1>6, PeriodFacts DEF ClosingTypeOK, Height, Blocks
<1>8. 1..(Height + 1) = (1..Height) \cup {Height + 1}
  BY <1>1
<1>9. \A height \in DOMAIN blocks' : /\ LineageGood(blocks'[height].path, height)
                                     /\ PaidGood(blocks'[height], height)
  BY <1>1, <1>2, <1>4, <1>5, <1>6, <1>8
<1>10. (\A height \in DOMAIN blocks : /\ LineageGood(blocks[height].path, height)
                                      /\ PaidGood(blocks[height], height))'
  BY <1>9 DEF LineageGood, PaidGood, WindowKept, DeadlineOf
<1> QED BY <1>7, <1>10 DEF ChainInv

LEMMA ChallengeKeeps ==
    ASSUME ChainInv, NEW claim \in Claims,
           ChallengeInitial(claim) \/ ChallengeSubsequent(claim)
    PROVE  ChainInv'
<1> DEFINE path == Append(Here.path, Challenger(Here.path, claim, Height + 1))
<1>1. /\ Here.path # <<>> /\ Challengeable(Here.path, claim)
      /\ Grow(path, FALSE)
  BY DEF ChallengeInitial, ChallengeSubsequent, Challenger
<1>2. path \in Seq(ClosingCoins) /\ LineageGood(path, Height + 1)
  BY <1>1, ChallengeIsGood DEF Grow
<1>3. PaidGood([branch |-> branch, path |-> path, done |-> FALSE], Height + 1)
  BY DEF PaidGood
<1> HIDE DEF path
<1> QED BY <1>1, <1>2, <1>3, GrowKeeps

LEMMA ReorganiseKeeps ==
    ASSUME ChainInv, NEW height \in 1..MaxHeight, Reorganise(height)
    PROVE  ChainInv'
<1> DEFINE Blocks == [branch : 0..MaxReorgs, path : Seq(ClosingCoins), done : BOOLEAN]
<1>1. /\ blocks \in Seq(Blocks) /\ Height \in Nat /\ branch \in 0..MaxReorgs
      /\ DOMAIN blocks = 1..Height /\ Height \in 1..MaxHeight
  BY BlockFacts DEF ChainInv, ClosingTypeOK
<1>2. /\ branch < MaxReorgs /\ branch' = branch + 1
      /\ height < Height /\ blocks' = SubSeq(blocks, 1, height)
  BY DEF Reorganise
<1> HIDE DEF Blocks
<1>3. /\ blocks' \in Seq(Blocks) /\ Len(blocks') = height
      /\ DOMAIN blocks' = 1..height
      /\ \A i \in 1..height : i \in 1..Height /\ blocks'[i] = blocks[i]
  BY <1>1, <1>2 DEF Height
<1>4. ClosingTypeOK'
  BY <1>1, <1>2, <1>3, PeriodFacts DEF ClosingTypeOK, Height, Blocks
<1>5. \A i \in DOMAIN blocks' : LineageGood(blocks'[i].path, i) /\ PaidGood(blocks'[i], i)
  BY <1>1, <1>3 DEF ChainInv
<1> QED BY <1>4, <1>5 DEF ChainInv

LEMMA ChainStep == ChainInv /\ [ChainNext]_chainVars => ChainInv'
<1> SUFFICES ASSUME ChainInv, [ChainNext]_chainVars
             PROVE  ChainInv'
  OBVIOUS
<1>1. /\ Height \in Nat /\ Here.path \in Seq(ClosingCoins) /\ Here.done \in BOOLEAN
      /\ LineageGood(Here.path, Height) /\ PaidGood(Here, Height)
  BY BlockFacts
<1>2. LineageGood(Here.path, Height + 1)
  BY <1>1, LineageAges
<1>3. ASSUME Here.path # <<>>
      PROVE  /\ Here.path[1].birth \in Nat
             /\ DeadlineOf(Here.path) = Here.path[1].birth + ChallengeBlocks
             /\ Last(Here.path).claim \in Claims /\ Acceptable(Last(Here.path).claim)
  <2>1. /\ Here.path[1].birth \in Nat /\ Len(Here.path) \in DOMAIN Here.path
        /\ Last(Here.path) = Here.path[Len(Here.path)] /\ Last(Here.path).claim \in Claims
    BY <1>1, <1>3, PathFacts
  <2> QED BY <1>1, <1>3, <2>1 DEF LineageGood, WindowKept
<1>4. CASE EmptyBlock
  <2>1. PaidGood([branch |-> branch, path |-> Here.path, done |-> Here.done], Height + 1)
    BY <1>1, <1>3, PeriodFacts DEF PaidGood
  <2> QED BY <1>1, <1>2, <1>4, <2>1, GrowKeeps DEF EmptyBlock
<1>5. ASSUME NEW claim \in Claims, StartClose(claim)
      PROVE  ChainInv'
  <2> DEFINE path == <<InitialCoin(claim, Height + 1)>>
  <2>1. Grow(path, FALSE) /\ Acceptable(claim) /\ Height >= 1 + CloseDelay /\ Height < MaxHeight
    BY <1>5 DEF StartClose, Grow
  <2>2. path \in Seq(ClosingCoins) /\ LineageGood(path, Height + 1)
    BY <1>1, <2>1, FirstIsGood
  <2>3. PaidGood([branch |-> branch, path |-> path, done |-> FALSE], Height + 1)
    BY DEF PaidGood
  <2> HIDE DEF path
  <2> QED BY <2>1, <2>2, <2>3, GrowKeeps
<1>6. ASSUME NEW claim \in Claims, ChallengeInitial(claim) \/ ChallengeSubsequent(claim)
      PROVE  ChainInv'
  BY <1>6, ChallengeKeeps
<1>7. CASE Finalize
  <2>1. Here.path # <<>> /\ Height >= DeadlineOf(Here.path) /\ Grow(Here.path, TRUE)
    BY <1>7 DEF Finalize
  <2>2. PaidGood([branch |-> branch, path |-> Here.path, done |-> TRUE], Height + 1)
    BY <1>1, <1>3, <2>1, AcceptablePaysAll, PeriodFacts DEF PaidGood
  <2> QED BY <1>1, <1>2, <2>1, <2>2, GrowKeeps
<1>8. ASSUME NEW height \in 1..MaxHeight, Reorganise(height)
      PROVE  ChainInv'
  BY <1>8, ReorganiseKeeps
<1>9. CASE UNCHANGED chainVars
  BY <1>9 DEF chainVars, ChainInv, ClosingTypeOK, Height
<1> QED BY <1>4, <1>5, <1>6, <1>7, <1>8, <1>9 DEF ChainNext

LEMMA ChainStarts == ChainInit => ChainInv
<1> SUFFICES ASSUME ChainInit
             PROVE  ChainInv
  OBVIOUS
<1> DEFINE Blocks == [branch : 0..MaxReorgs, path : Seq(ClosingCoins), done : BOOLEAN]
           block == [branch |-> 0, path |-> <<>>, done |-> FALSE]
<1>1. blocks = <<block>> /\ branch = 0
  BY DEF ChainInit
<1>2. <<>> \in Seq(ClosingCoins)
  OBVIOUS
<1>3. block \in Blocks
  BY <1>2, PeriodFacts
<1>4. LineageGood(block.path, 1) /\ PaidGood(block, 1)
  BY DEF LineageGood, PaidGood
<1> HIDE DEF Blocks, block
<1>5. /\ blocks \in Seq(Blocks) /\ Len(blocks) = 1 /\ DOMAIN blocks = {1} /\ blocks[1] = block
  BY <1>1, <1>3
<1>6. ClosingTypeOK
  BY <1>1, <1>5, PeriodFacts DEF ClosingTypeOK, Height, Blocks
<1> QED BY <1>4, <1>5, <1>6 DEF ChainInv

-----------------------------------------------------------------------------
(* A chain only goes forward                                               *)

LEMMA PrefixPoints ==
    ASSUME NEW S, NEW s \in Seq(S), NEW t \in Seq(S)
    PROVE  IsPrefix(s, t) <=> /\ Len(s) <= Len(t)
                              /\ \A i \in 1..Len(s) : s[i] = t[i]
<1>1. SUFFICES ASSUME Len(s) <= Len(t)
               PROVE  SubSeq(s, 1, Len(s)) = SubSeq(t, 1, Len(s))
                      <=> \A i \in 1..Len(s) : s[i] = t[i]
  BY DEF IsPrefix
<1>2. /\ Len(s) \in Nat
      /\ SubSeq(s, 1, Len(s)) = [i \in 1..Len(s) |-> s[i]]
      /\ SubSeq(t, 1, Len(s)) = [i \in 1..Len(s) |-> t[i]]
  BY <1>1
<1> QED BY <1>2

LEMMA CarriesOnTransitive ==
    ASSUME NEW one, NEW two, NEW three,
           one.path \in Seq(ClosingCoins), two.path \in Seq(ClosingCoins),
           three.path \in Seq(ClosingCoins),
           CarriesOn(one, two), CarriesOn(two, three)
    PROVE  CarriesOn(one, three)
<1>1. IsPrefix(one.path, three.path)
  <2>1. /\ Len(one.path) \in Nat /\ Len(two.path) \in Nat /\ Len(three.path) \in Nat
        /\ IsPrefix(one.path, two.path) /\ IsPrefix(two.path, three.path)
    BY DEF CarriesOn
  <2>2. /\ Len(one.path) <= Len(two.path) /\ Len(two.path) <= Len(three.path)
        /\ \A i \in 1..Len(one.path) : one.path[i] = two.path[i]
        /\ \A i \in 1..Len(two.path) : two.path[i] = three.path[i]
    BY <2>1, PrefixPoints
  <2>3. /\ Len(one.path) <= Len(three.path)
        /\ \A i \in 1..Len(one.path) : one.path[i] = three.path[i]
    BY <2>1, <2>2
  <2> QED BY <2>3, PrefixPoints
<1> QED BY <1>1 DEF CarriesOn

LEMMA CarriesOnItself ==
    ASSUME NEW block, block.path \in Seq(ClosingCoins)
    PROVE  CarriesOn(block, block)
BY PrefixPoints DEF CarriesOn

\* A new block carries on the one below it.
LEMMA GrowsForward ==
    ASSUME ChainInv, ForwardInv, NEW path \in Seq(ClosingCoins), NEW done \in BOOLEAN,
           Grow(path, done), done => path # <<>>,
           IsPrefix(Here.path, path), Here.done => done /\ path = Here.path
    PROVE  ForwardInv'
<1> DEFINE block == [branch |-> branch, path |-> path, done |-> done]
<1>1. /\ Height \in Nat /\ Height >= 1 /\ DOMAIN blocks = 1..Height /\ Height = Len(blocks)
      /\ \A i \in 1..Height : blocks[i].path \in Seq(ClosingCoins)
      /\ Here = blocks[Height]
  BY BlockFacts DEF Here, Height
<1>2. block.path = path /\ block.done = done
  OBVIOUS
<1>3. CarriesOn(Here, block)
  BY DEF CarriesOn
<1>4. blocks' = Append(blocks, block)
  BY DEF Grow
<1> HIDE DEF block
<1>5. blocks \in Seq([branch : 0..MaxReorgs, path : Seq(ClosingCoins), done : BOOLEAN])
  BY DEF ChainInv, ClosingTypeOK
<1>6. /\ DOMAIN blocks' = 1..(Height + 1)
      /\ \A i \in 1..Height : blocks'[i] = blocks[i]
      /\ blocks'[Height + 1] = block
  BY <1>1, <1>4, <1>5
<1>7. ASSUME NEW lower \in 1..Height
      PROVE  CarriesOn(blocks[lower], block)
  <2>1. CarriesOn(blocks[lower], Here)
    BY <1>1 DEF ForwardInv
  <2> QED BY <1>1, <1>2, <1>3, <2>1, CarriesOnTransitive
<1>8. CarriesOn(block, block)
  BY <1>2, CarriesOnItself
<1>9. ASSUME NEW height \in 1..(Height + 1)
      PROVE  /\ blocks'[height].done => blocks'[height].path # <<>>
             /\ \A lower \in 1..height : CarriesOn(blocks'[lower], blocks'[height])
  <2>1. CASE height \in 1..Height
    <3>1. \A lower \in 1..height : lower \in 1..Height
      BY <1>1, <2>1
    <3>2. blocks'[height] = blocks[height] /\ \A lower \in 1..height : blocks'[lower] = blocks[lower]
      BY <1>6, <2>1, <3>1
    <3> QED BY <1>1, <2>1, <3>2 DEF ForwardInv
  <2>2. CASE height = Height + 1
    <3>1. \A lower \in 1..height : lower \in 1..Height \/ lower = Height + 1
      BY <1>1, <2>2
    <3> QED BY <1>2, <1>6, <1>7, <1>8, <2>2, <3>1
  <2> QED BY <1>1, <2>1, <2>2
<1> QED BY <1>6, <1>9 DEF ForwardInv, CarriesOn

LEMMA ForwardStep == ChainInv /\ ForwardInv /\ [ChainNext]_chainVars => ForwardInv'
<1> SUFFICES ASSUME ChainInv, ForwardInv, [ChainNext]_chainVars
             PROVE  ForwardInv'
  OBVIOUS
<1>1. /\ Height \in Nat /\ Here.path \in Seq(ClosingCoins) /\ Here.done \in BOOLEAN
      /\ IsPrefix(Here.path, Here.path)
      /\ Here.done => Here.path # <<>>
  BY BlockFacts, PrefixPoints DEF ForwardInv, Here, Height
<1>2. CASE EmptyBlock
  BY <1>1, <1>2, GrowsForward DEF EmptyBlock
<1>3. ASSUME NEW claim \in Claims, StartClose(claim)
      PROVE  ForwardInv'
  <2> DEFINE path == <<InitialCoin(claim, Height + 1)>>
  <2>1. /\ Grow(path, FALSE) /\ Acceptable(claim) /\ Height >= 1 + CloseDelay
        /\ Height < MaxHeight /\ Here.path = <<>> /\ ~Here.done
    BY <1>1, <1>3 DEF StartClose, Grow
  <2>2. path \in Seq(ClosingCoins)
    BY <1>1, <2>1, FirstIsGood
  <2> HIDE DEF path
  <2>3. IsPrefix(<<>>, path)
    <3>1. <<>> \in Seq(ClosingCoins) /\ Len(<<>>) = 0 /\ Len(path) \in Nat
      BY <2>2
    <3>2. Len(<<>>) <= Len(path) /\ \A i \in 1..Len(<<>>) : <<>>[i] = path[i]
      BY <3>1
    <3> QED BY <2>2, <3>1, <3>2, PrefixPoints, Zenon
  <2> QED BY <2>1, <2>2, <2>3, GrowsForward
<1>4. ASSUME NEW claim \in Claims, ChallengeInitial(claim) \/ ChallengeSubsequent(claim)
      PROVE  ForwardInv'
  <2> DEFINE path == Append(Here.path, Challenger(Here.path, claim, Height + 1))
  <2>1. /\ Here.path # <<>> /\ ~Here.done /\ Challengeable(Here.path, claim)
        /\ Grow(path, FALSE)
    BY <1>4 DEF ChallengeInitial, ChallengeSubsequent, Challenger
  <2>2. path \in Seq(ClosingCoins)
    BY <2>1, ChallengeIsGood DEF Grow
  <2>3. /\ Len(path) = Len(Here.path) + 1 /\ Len(Here.path) \in Nat
        /\ \A i \in 1..Len(Here.path) : path[i] = Here.path[i]
    BY <1>1
  <2> HIDE DEF path
  <2>4. IsPrefix(Here.path, path)
    BY <1>1, <2>2, <2>3, PrefixPoints
  <2> QED BY <2>1, <2>2, <2>4, GrowsForward
<1>5. CASE Finalize
  <2>1. Here.path # <<>> /\ Grow(Here.path, TRUE)
    BY <1>5 DEF Finalize
  <2> QED BY <1>1, <2>1, GrowsForward
<1>6. ASSUME NEW height \in 1..MaxHeight, Reorganise(height)
      PROVE  ForwardInv'
  <2>1. /\ blocks \in Seq([branch : 0..MaxReorgs, path : Seq(ClosingCoins), done : BOOLEAN])
        /\ DOMAIN blocks = 1..Height
    BY BlockFacts DEF ChainInv, ClosingTypeOK
  <2>2. height < Height /\ blocks' = SubSeq(blocks, 1, height) /\ Height = Len(blocks)
    BY <1>6 DEF Reorganise, Height
  <2>3. /\ DOMAIN blocks' = 1..height
        /\ \A i \in 1..height : i \in 1..Height /\ blocks'[i] = blocks[i]
    BY <1>1, <2>1, <2>2
  <2>4. \A i \in 1..height : \A lower \in 1..i : lower \in 1..height
    OBVIOUS
  <2>5. ASSUME NEW i \in 1..height
        PROVE  /\ blocks'[i].done => blocks'[i].path # <<>>
               /\ \A lower \in 1..i : CarriesOn(blocks'[lower], blocks'[i])
    BY <2>1, <2>3, <2>4 DEF ForwardInv
  <2> QED BY <2>3, <2>5 DEF ForwardInv, CarriesOn
<1>7. CASE UNCHANGED chainVars
  BY <1>7 DEF chainVars, ForwardInv
<1> QED BY <1>2, <1>3, <1>4, <1>5, <1>6, <1>7 DEF ChainNext

LEMMA ForwardStarts == ChainInit => ForwardInv
<1> SUFFICES ASSUME ChainInit
             PROVE  ForwardInv
  OBVIOUS
<1> DEFINE block == [branch |-> 0, path |-> <<>>, done |-> FALSE]
<1>1. blocks = <<block>> /\ block.path = <<>> /\ ~block.done
  BY DEF ChainInit
<1>2. block.path \in Seq(ClosingCoins)
  BY <1>1
<1> HIDE DEF block
<1>3. CarriesOn(block, block)
  BY <1>2, CarriesOnItself
<1>4. DOMAIN blocks = {1} /\ blocks[1] = block /\ \A lower \in 1..1 : lower = 1
  BY <1>1
<1> QED BY <1>1, <1>3, <1>4 DEF ForwardInv

\* The invariants say what SettlementKeepsWindow does.
LEMMA ChainKeepsWindow == ChainInv /\ ForwardInv => SettlementKeepsWindow
<1> SUFFICES ASSUME ChainInv, ForwardInv
             PROVE  SettlementKeepsWindow
  OBVIOUS
<1>1. ASSUME NEW height \in DOMAIN blocks, height > 1
      PROVE  CarriesOn(blocks[height - 1], blocks[height])
  <2>1. height \in 1..Height
    BY BlockFacts
  <2>2. height - 1 \in 1..height
    BY <1>1, <2>1, BlockFacts
  <2> QED BY <2>2 DEF ForwardInv
<1> QED BY <1>1, Zenon
        DEF ChainInv, SettlementKeepsWindow, LineageGood, PaidGood

-----------------------------------------------------------------------------
(* What follows for a chain                                                *)

THEOREM ChainInvariant == ChainSpec => [](ChainInv /\ ForwardInv)
<1>1. ChainInit => ChainInv /\ ForwardInv
  BY ChainStarts, ForwardStarts
<1>2. ChainInv /\ ForwardInv /\ [ChainNext]_chainVars => ChainInv' /\ ForwardInv'
  BY ChainStep, ForwardStep
<1> QED BY <1>1, <1>2, PTL DEF ChainSpec

\* However often a Closing Coin is challenged and wherever the chain is cut, a
\* settlement keeps to one challenge window, goes only forward and pays out
\* all of the channel.
THEOREM WindowIsKept == ChainSpec => []SettlementKeepsWindow
BY ChainInvariant, ChainKeepsWindow, PTL

\* The state that a CHALLENGE has committed to is paid, or a later one, unless
\* its block is reorganised away: nobody goes back to an older state.
Settled(height) == blocks[height].path # <<>>

THEOREM CommitmentsOnlyRise ==
    ChainSpec =>
      [](\A lower, height \in DOMAIN blocks :
            lower <= height /\ Settled(lower) =>
              /\ Settled(height)
              /\ Last(blocks[height].path).claim.seq >= Last(blocks[lower].path).claim.seq)
<1> DEFINE Rise == \A lower, height \in DOMAIN blocks :
                      lower <= height /\ Settled(lower) =>
                        /\ Settled(height)
                        /\ Last(blocks[height].path).claim.seq
                             >= Last(blocks[lower].path).claim.seq
<1>1. ChainInv /\ ForwardInv => Rise
  <2> SUFFICES ASSUME ChainInv, ForwardInv, NEW lower \in DOMAIN blocks,
                      NEW height \in DOMAIN blocks, lower <= height, Settled(lower)
               PROVE  /\ Settled(height)
                      /\ Last(blocks[height].path).claim.seq
                           >= Last(blocks[lower].path).claim.seq
    OBVIOUS
  <2> DEFINE old == blocks[lower].path
             new == blocks[height].path
  <2>1. /\ old \in Seq(ClosingCoins) /\ new \in Seq(ClosingCoins) /\ old # <<>>
        /\ lower \in 1..height /\ LineageGood(new, height)
    BY BlockFacts DEF Settled, ChainInv
  <2>2. IsPrefix(old, new)
    BY <2>1 DEF ForwardInv, CarriesOn
  <2> HIDE DEF old, new
  <2>3. /\ Len(old) \in Nat /\ Len(old) >= 1 /\ Len(new) \in Nat /\ Len(old) <= Len(new)
        /\ DOMAIN new = 1..Len(new) /\ \A i \in 1..Len(old) : old[i] = new[i]
    BY <2>1, <2>2, PrefixPoints, SeqFacts
  <2>4. new # <<>> /\ Last(old) = new[Len(old)] /\ Last(new) = new[Len(new)]
    BY <2>3 DEF Last
  <2>5. WindowKept(new, height)
    BY <2>1, <2>4 DEF LineageGood
  <2>6. \A i \in DOMAIN new : new[i].claim.seq \in Nat
    BY <2>1, <2>4, PathFacts
  <2>7. CASE Len(old) = Len(new)
    BY <2>3, <2>4, <2>6, <2>7 DEF Settled, old, new
  <2>8. CASE Len(old) < Len(new)
    <3>1. new[Len(old)].claim.seq < new[Len(new)].claim.seq
      BY <2>3, <2>5, <2>8 DEF WindowKept
    <3>2. Last(new).claim.seq >= Last(old).claim.seq
      BY <2>3, <2>4, <2>6, <3>1
    <3> QED BY <2>4, <3>2 DEF Settled, old, new
  <2> QED BY <2>3, <2>7, <2>8
<1> QED BY <1>1, ChainInvariant, PTL
-----------------------------------------------------------------------------
(* The wallet's simulation                                                 *)

\* The wallet can simulate the closing of exactly the acceptable states after
\* State 0 that leave the user something: a state that reserves the whole Funding
\* amount closes on the chain and is refused by simulate_recovery_closing, which
\* counts on the remainder's coin (closing.rs 406-408 and 464-471).
THEOREM SimulationNeedsRemainder ==
    ASSUME NEW claim \in States, Acceptable(claim), claim.seq # 0,
           NEW start \in Nat \ {0}
    PROVE  SimulatesClosing(claim, start) <=> claim.remainder > 0
<1> DEFINE payments == [i \in DOMAIN claim.entries |-> claim.entries[i].amount]
           n == Len(claim.entries)
<1>1. /\ claim.entries \in Seq([nonce : Nat, amount : Nat])
      /\ claim.remainder \in Int /\ n \in Nat
  BY SeqFacts DEF States
<1>2. DOMAIN claim.entries = 1..n /\ \A i \in 1..n : claim.entries[i].amount \in Int
  <2> DEFINE Entry == [nonce : Nat, amount : Nat]
  <2>1. DOMAIN claim.entries = 1..n /\ \A i \in DOMAIN claim.entries : claim.entries[i] \in Entry
    BY <1>1, SeqFacts, Zenon
  <2>2. \A entry \in Entry : entry.amount \in Int
    OBVIOUS
  <2> QED BY <2>1, <2>2, Zenon
<1>3. payments \in Seq(Int) /\ Len(payments) = n
  BY <1>1, <1>2
<1> HIDE DEF payments, n
<1>4. CASE claim.remainder > 0
  <2> DEFINE all == payments \o <<claim.remainder>>
  <2>1. all \in Seq(Int) /\ Len(all) = n + 1 /\ all[n + 1] = claim.remainder
    <3>1. \A list, x : list \in Seq(Int) /\ x \in Int =>
             /\ list \o <<x>> = Append(list, x)
             /\ Len(Append(list, x)) = Len(list) + 1
             /\ Append(list, x)[Len(list) + 1] = x
             /\ Append(list, x) \in Seq(Int)
      OBVIOUS
    <3> QED BY <1>1, <1>3, <3>1
  <2>2. FinalizeOutputs(claim) = all
    BY <1>4 DEF FinalizeOutputs, payments
  <2> HIDE DEF all
  <2>3. Last(FinalizeOutputs(claim)) = claim.remainder
    BY <2>1, <2>2 DEF Last
  <2> QED BY <1>4, <2>1, <2>2, <2>3 DEF SimulatesClosing, n
<1>5. CASE ~(claim.remainder > 0)
  <2>1. FinalizeOutputs(claim) = payments \o <<>>
    BY <1>5 DEF FinalizeOutputs, payments
  <2>2. Len(payments \o <<>>) = n
    BY <1>3
  <2>3. Len(FinalizeOutputs(claim)) # n + 1
    BY <1>1, <2>1, <2>2
  <2> QED BY <1>5, <2>3 DEF SimulatesClosing, n
<1> QED BY <1>4, <1>5
=============================================================================
