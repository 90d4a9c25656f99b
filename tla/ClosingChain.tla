---------------------------- MODULE ClosingChain ----------------------------
(***************************************************************************)
(* How a V3.6 channel settles on the chain.                                *)
(*                                                                         *)
(* The puzzles of puzzles-v3_6 are the code here.  The Funding Coin can be *)
(* spent, CloseDelay blocks after its birth, into an Initial Closing Coin  *)
(* that commits to a state; a CHALLENGE spends a Closing Coin into a       *)
(* Subsequent Closing Coin that commits to a later state and to the        *)
(* deadline; after the deadline FINALIZE pays the state last committed to. *)
(*                                                                         *)
(* The chain around them is external: a block has the branch it is of and  *)
(* what the channel looks like after it, so a reorganisation only cuts the *)
(* sequence of blocks.  Height conditions look at the block before the one *)
(* a spend is in.  A claim is what a spender reveals of a state; hashes    *)
(* and curried arguments are abstracted to the values they commit to.      *)
(***************************************************************************)
EXTENDS Integers, Sequences, SequencesExt

CONSTANTS
    FundingAmount,      \* funding_amount
    MaxEntries,         \* MAX_LEDGER_ENTRIES_CONST
    CloseDelay,         \* close_delay_blocks
    ChallengeBlocks,    \* challenge_blocks
    Claims,             \* what spenders may reveal, valid or not
    MaxHeight,          \* bound: the chain grows no higher
    MaxReorgs           \* bound: how many reorganisations happen

\* Without them no spend of the channel is valid.
ChannelTermsValid ==
    /\ FundingAmount \in Nat \ {0} /\ MaxEntries \in Nat
    /\ CloseDelay \in Nat \ {0} /\ ChallengeBlocks \in Nat \ {0}

ASSUME ClosingAssumption ==
    ChannelTermsValid /\ MaxHeight \in Nat \ {0} /\ MaxReorgs \in Nat

\* An entry has an index only through its place.  signed says whether the HUB
\* signed the checkpoint and the user every authorization in it.
States == [ seq : Nat,
            entries : Seq([nonce : Nat, amount : Nat]),
            reserved : Int,
            remainder : Int,
            signed : BOOLEAN ]

ASSUME ClaimsAssumption == Claims \subseteq States

VARIABLES
    blocks,     \* the canonical chain; block 1 creates the Funding Coin
    branch      \* the branch that grows: reorganisations so far

chainVars == <<blocks, branch>>

-----------------------------------------------------------------------------
(* The state a claim stands for.                                           *)

EntriesSum(entries) ==
    FoldFunction(LAMBDA entry, total : entry.amount + total, 0, entries)

EntriesValid(entries) ==
    /\ Len(entries) <= MaxEntries
    /\ \A i \in DOMAIN entries :
          /\ entries[i].amount > 0
          /\ \A j \in DOMAIN entries : entries[i].nonce = entries[j].nonce => i = j

StateValid(claim) ==
    /\ claim.reserved >= 0
    /\ claim.remainder >= 0
    /\ claim.reserved + claim.remainder = FundingAmount
    /\ IF claim.seq = 0
       THEN claim.reserved = 0 /\ claim.entries = <<>>
       ELSE EntriesValid(claim.entries) /\ claim.reserved = EntriesSum(claim.entries)

\* The signatures a spend asks for: none for State 0.
SignaturesVerify(claim) == claim.seq = 0 \/ claim.signed

Acceptable(claim) == StateValid(claim) /\ SignaturesVerify(claim)

-----------------------------------------------------------------------------
(* The Closing Coins.                                                      *)

\* A Closing Coin's puzzle commits to a claim and a deadline; the Initial one
\* commits to none and finds it from its own birth.
InitialCoin(claim, birth) == [claim |-> claim, birth |-> birth, deadline |-> 0]

\* The lineage of Closing Coins since the Funding Coin was spent.
IsInitial(path) == Len(path) = 1

DeadlineOfNewest(path) == Last(path).birth + ChallengeBlocks       \* mutant

DeadlineOf(path) ==
    IF IsInitial(path) THEN Last(path).birth + ChallengeBlocks
                       ELSE Last(path).deadline

\* A coin id hashes the parent's id, the puzzle and the amount, so it tells
\* the lineage's commitments but not when its coins were born.
CoinId(path) == [i \in DOMAIN path |-> <<path[i].claim, path[i].deadline>>]

\* What FINALIZE creates: a payment for each entry, and the remainder if any.
PaidOut(claim) ==
    EntriesSum(claim.entries) + (IF claim.remainder > 0 THEN claim.remainder ELSE 0)

\* The same as a list, in the order of its CREATE_COIN conditions.
FinalizeOutputs(claim) ==
    [i \in DOMAIN claim.entries |-> claim.entries[i].amount]
        \o (IF claim.remainder > 0 THEN <<claim.remainder>> ELSE <<>>)

\* simulate_recovery_closing: the wallet runs START_CLOSE and FINALIZE of its own
\* package, and expects a signature for each entry and one for the checkpoint, a
\* payment for each entry, and then the remainder.
SimulatesClosing(claim, start) ==
    /\ start > 0
    /\ Acceptable(claim)
    /\ claim.seq # 0
    /\ Len(FinalizeOutputs(claim)) = Len(claim.entries) + 1
    /\ Last(FinalizeOutputs(claim)) = claim.remainder

-----------------------------------------------------------------------------
Height == Len(blocks)
Here == blocks[Height]
Peak == [height |-> Height, branch |-> Here.branch]

Grow(path, done) ==
    /\ Height < MaxHeight
    /\ blocks' = Append(blocks, [branch |-> branch, path |-> path, done |-> done])
    /\ UNCHANGED branch

\* A block without a transition of this channel.
EmptyBlock == Grow(Here.path, Here.done)

\* START_CLOSE: the Funding Coin is spent.
StartClose(claim) ==
    /\ Here.path = <<>>
    /\ Acceptable(claim)
    /\ Height >= 1 + CloseDelay
    /\ Grow(<<InitialCoin(claim, Height + 1)>>, FALSE)

AnyLaterClaim(path, claim) == Acceptable(claim) /\ Height < DeadlineOf(path)     \* mutant

Challengeable(path, claim) ==
    /\ Acceptable(claim)
    /\ claim.seq > Last(path).claim.seq
    /\ Height < DeadlineOf(path)

\* CHALLENGE of an Initial Closing Coin fixes the deadline in its child.
ChallengeInitial(claim) ==
    /\ Here.path # <<>> /\ ~Here.done /\ IsInitial(Here.path)
    /\ Challengeable(Here.path, claim)
    /\ Grow(Append(Here.path, [ claim |-> claim, birth |-> Height + 1,
                                deadline |-> DeadlineOf(Here.path) ]), FALSE)

\* CHALLENGE of a Subsequent Closing Coin hands the deadline on.
ChallengeSubsequent(claim) ==
    /\ Here.path # <<>> /\ ~Here.done /\ ~IsInitial(Here.path)
    /\ Challengeable(Here.path, claim)
    /\ Grow(Append(Here.path, [ claim |-> claim, birth |-> Height + 1,
                                deadline |-> DeadlineOf(Here.path) ]), FALSE)

FinalizeAnyTime == Here.path # <<>> /\ ~Here.done /\ Grow(Here.path, TRUE)       \* mutant

\* FINALIZE pays out the state last committed to.
Finalize ==
    /\ Here.path # <<>> /\ ~Here.done
    /\ Height >= DeadlineOf(Here.path)
    /\ Grow(Here.path, TRUE)

\* The blocks above a height stop being canonical; the Funding Coin stays.
Reorganise(height) ==
    /\ branch < MaxReorgs
    /\ height < Height
    /\ blocks' = SubSeq(blocks, 1, height)
    /\ branch' = branch + 1

ChainInit ==
    /\ blocks = <<[branch |-> 0, path |-> <<>>, done |-> FALSE]>>
    /\ branch = 0

ChainNext ==
    \/ EmptyBlock
    \/ \E claim \in Claims :
          StartClose(claim) \/ ChallengeInitial(claim) \/ ChallengeSubsequent(claim)
    \/ Finalize
    \/ \E height \in 1..MaxHeight : Reorganise(height)

ChainSpec == ChainInit /\ [][ChainNext]_chainVars

-----------------------------------------------------------------------------
ClosingCoins == [claim : Claims, birth : 1..MaxHeight, deadline : 0..(MaxHeight + ChallengeBlocks)]

\* Every block says what the channel looks like after it.
ClosingTypeOK ==
    /\ blocks \in Seq([branch : 0..MaxReorgs, path : Seq(ClosingCoins), done : BOOLEAN])
    /\ Height \in 1..MaxHeight
    /\ branch \in 0..MaxReorgs

WindowKept(path, height) ==
    /\ path[1].birth >= 2 + CloseDelay
    /\ \A i \in DOMAIN path :
          /\ path[i].birth <= path[1].birth + ChallengeBlocks
          /\ path[i].birth <= height
          /\ Acceptable(path[i].claim)
          /\ \A j \in DOMAIN path :
                i < j => /\ path[i].claim.seq < path[j].claim.seq
                         /\ path[i].birth < path[j].birth

\* What came after a block of the same chain carries on from it.
CarriesOn(earlier, later) ==
    /\ IsPrefix(earlier.path, later.path)
    /\ earlier.done => later.done /\ later.path = earlier.path

\* A settlement keeps to one challenge window, counted from the first Closing
\* Coin however often it is challenged and wherever the chain is cut: every
\* later coin of the lineage commits to a strictly later acceptable state and
\* is born within the window, and FINALIZE comes only after the whole window
\* and pays out the whole Funding amount.  From block to block it only goes
\* on: none drops or replaces a Closing Coin of those before, and after FINALIZE
\* there is nothing (xhub_initial_closing_v3_6.clsp,
\* xhub_subsequent_closing_v3_6.clsp).
SettlementKeepsWindow ==
    \A height \in DOMAIN blocks :
        LET here == blocks[height]
        IN  /\ height > 1 => CarriesOn(blocks[height - 1], here)
            /\ here.path # <<>> =>
               /\ WindowKept(here.path, height)
               /\ DeadlineOf(here.path) = here.path[1].birth + ChallengeBlocks
               /\ here.done => /\ height > here.path[1].birth + ChallengeBlocks
                               /\ PaidOut(Last(here.path).claim) = FundingAmount
=============================================================================
