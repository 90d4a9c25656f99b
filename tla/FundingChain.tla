---------------------------- MODULE FundingChain ----------------------------
(***************************************************************************)
(* The part of the Chia chain that the HUB asks its full node about: the   *)
(* canonical chain's peak and where the Funding Coins are in it.           *)
(*                                                                         *)
(* The chain is not code of the repository.  It is modelled from what the  *)
(* code reads of it: ChainPeak, FundingCoinState and ChainSnapshot of      *)
(* hub-v3_6/src/chain.rs, and from the condition the Funding puzzle puts   *)
(* on the first spend.  A reorganisation drops the blocks above a height   *)
(* and lets the chain grow again with blocks of a new branch, so the peak  *)
(* may go down, a coin may vanish, and it may come back at another height. *)
(***************************************************************************)
EXTENDS ChannelTerms

CONSTANTS
    MaxHeight,      \* bound: the chain grows no higher
    MaxReorgs       \* bound: how many reorganisations happen

ASSUME ChainAssumption == MaxHeight \in Nat /\ MaxReorgs \in Nat

VARIABLES
    blocks,     \* the canonical chain: the branch each of its blocks is of
    branch,     \* the branch that grows: reorganisations so far
    born,       \* height at which a Funding Coin was created, 0 if it was not
    spent       \* height at which a Funding Coin was spent, 0 if it was not

chainVars == <<blocks, branch, born, spent>>

Height == Len(blocks)

\* A header hash stands for the branch that a block of this height is of.
Tip == [height |-> Height, hash |-> IF Height = 0 THEN 0 ELSE blocks[Height]]

NoPeak == [height |-> -1, hash |-> 0]
Peaks == [height : 0..MaxHeight, hash : 0..MaxReorgs] \cup {NoPeak}

FundingCoinStates ==
    [kind : {"Missing", "Confirmed", "Spent"}, birth : 0..MaxHeight]

FundingCoin(c) ==
    [ kind |-> CASE born[c] = 0  -> "Missing"
                 [] spent[c] > 0 -> "Spent"
                 [] OTHER        -> "Confirmed",
      birth |-> born[c] ]

ChainTypeOK ==
    /\ blocks \in Seq(0..MaxReorgs)
    /\ Height <= MaxHeight
    /\ branch \in 0..MaxReorgs
    /\ born \in [Coins -> 0..MaxHeight]
    /\ spent \in [Coins -> 0..MaxHeight]

ChainInit ==
    /\ blocks = <<>>
    /\ branch = 0
    /\ born = [c \in Coins |-> 0]
    /\ spent = [c \in Coins |-> 0]

\* ASSERT_HEIGHT_RELATIVE(CLOSE_DELAY_BLOCKS) of the Funding puzzle: the
\* previous block must be that far above the coin's birth.
CanBeSpent(c) ==
    /\ born[c] > 0
    /\ spent[c] = 0
    /\ Height >= born[c] + CloseDelay

\* A block is added; it may create Funding Coins and spend some.
Grow(created, closed) ==
    /\ Height < MaxHeight
    /\ \A c \in created : born[c] = 0
    /\ \A c \in closed : CanBeSpent(c)
    /\ blocks' = Append(blocks, branch)
    /\ born' = [c \in Coins |-> IF c \in created THEN Height + 1 ELSE born[c]]
    /\ spent' = [c \in Coins |-> IF c \in closed THEN Height + 1 ELSE spent[c]]
    /\ UNCHANGED branch

\* The blocks above a height stop being canonical.
Reorganise(height) ==
    /\ branch < MaxReorgs
    /\ height < Height
    /\ blocks' = SubSeq(blocks, 1, height)
    /\ branch' = branch + 1
    /\ born' = [c \in Coins |-> IF born[c] > height THEN 0 ELSE born[c]]
    /\ spent' = [c \in Coins |-> IF spent[c] > height THEN 0 ELSE spent[c]]

ChainNext ==
    \/ \E created, closed \in SUBSET Coins : Grow(created, closed)
    \/ \E height \in 0..MaxHeight : Reorganise(height)
=============================================================================
