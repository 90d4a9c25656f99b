------------------------------ MODULE HubLedger -----------------------------
(***************************************************************************)
(* What the HUB promises of its ledgers, whatever its processes, their     *)
(* crashes and the chain do: a reservation nonce gets one answer, an       *)
(* accepted request is the next entry of its channel's ledger at the very  *)
(* instant of that answer, and a ledger never loses, changes or reorders   *)
(* an entry nor grows beyond what the channel funds (protocol-v3_6.md      *)
(* section 9 and section 12.3).                                            *)
(***************************************************************************)
EXTENDS ChannelTerms

VARIABLES
    ledger,     \* the official ledger of each channel
    answer      \* the answer each nonce of a channel was given

ledgerVars == <<ledger, answer>>

Answers == {"none", "signed", "refused"}

LedgerInit ==
    /\ ledger = [c \in Coins |-> <<>>]
    /\ answer = [c \in Coins |-> [n \in Nonces |-> "none"]]

\* The request becomes the next entry of the ledger and is answered so.
Accept(c, request) ==
    /\ answer[c][request.nonce] = "none"
    /\ request.auth
    /\ LedgerValid(Append(ledger[c], request))
    /\ ledger' = [ledger EXCEPT ![c] = Append(@, request)]
    /\ answer' = [answer EXCEPT ![c][request.nonce] = "signed"]

\* The request is refused for good; the ledger is left alone.
Refuse(c, nonce) ==
    /\ answer[c][nonce] = "none"
    /\ answer' = [answer EXCEPT ![c][nonce] = "refused"]
    /\ UNCHANGED ledger

LedgerNext ==
    \E c \in Coins :
        \/ \E request \in Requests : Accept(c, request)
        \/ \E nonce \in Nonces : Refuse(c, nonce)

LedgerSpec == LedgerInit /\ [][LedgerNext]_ledgerVars
=============================================================================
