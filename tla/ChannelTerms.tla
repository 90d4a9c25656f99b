---------------------------- MODULE ChannelTerms ----------------------------
(***************************************************************************)
(* What the parties of a V3.6 channel agree on when its Funding Coin is    *)
(* created, and the ledger those terms limit.                              *)
(*                                                                         *)
(* The heights are those of protocol-v3_6/src/types.rs ChannelTerms: a     *)
(* channel takes reservations for AcceptanceBlocks after the birth of its  *)
(* coin, is frozen for FreezeBlocks, and may then be closed.  A request is *)
(* a ledger entry with the user's signature: the merchant, its keys and    *)
(* the bytes signed are abstracted to the nonce, the amount and whether    *)
(* the signature verifies.                                                 *)
(***************************************************************************)
EXTENDS Integers, Sequences, SequencesExt

CONSTANTS
    Coins,              \* funding_coin_id: one channel for each coin
    Nonces,             \* reservation_nonce
    Amounts,            \* what a ledger entry can reserve
    Auths,              \* whether the user's signature verifies
    FundingAmount,      \* funding_amount of every channel
    MaxEntries,         \* MAX_LEDGER_ENTRIES
    MaxU64,             \* MAX_PROTOCOL_U64
    AcceptanceBlocks,   \* acceptance_blocks
    FreezeBlocks        \* freeze_blocks

\* ChannelTerms::validate refuses zero periods and a funding amount that is
\* zero or too large, LedgerEntry::validate a zero amount.
ASSUME TermsAssumption ==
    /\ Coins # {} /\ Nonces # {} /\ Amounts # {} /\ Auths # {}
    /\ Amounts \subseteq Nat \ {0}
    /\ Auths \subseteq BOOLEAN
    /\ MaxU64 \in Nat
    /\ FundingAmount \in 1..MaxU64
    /\ MaxEntries \in Nat \ {0}
    /\ AcceptanceBlocks \in Nat \ {0}
    /\ FreezeBlocks \in Nat \ {0}

\* close_delay_blocks: ChannelTerms::new computes it and validate insists on it.
CloseDelay == AcceptanceBlocks + FreezeBlocks

\* A ledger entry and the user's signature of it, which is what
\* ReservationRequest::fingerprint covers (the request_id is not in it).
Requests == [nonce : Nonces, amount : Amounts, auth : Auths]

\* A ledger is the sequence of its entries.
Ledgers == Seq(Requests)

\* reserved_total of a ledger.
ReservedTotal(ledger) ==
    FoldFunction(LAMBDA entry, total : entry.amount + total, 0, ledger)

\* Ledger::validate, by the error it returns.
LedgerFull(ledger) == Len(ledger) > MaxEntries
OverdrawnByOne(ledger) == Last(ledger).amount > FundingAmount    \* mutant
Overdrawn(ledger) == ReservedTotal(ledger) > FundingAmount
TooLarge(ledger) == ReservedTotal(ledger) > MaxU64
NoncesDiffer(ledger) ==
    \A i, j \in DOMAIN ledger : ledger[i].nonce = ledger[j].nonce => i = j

LedgerValid(ledger) ==
    /\ ~LedgerFull(ledger)
    /\ NoncesDiffer(ledger)
    /\ ~Overdrawn(ledger)
=============================================================================
