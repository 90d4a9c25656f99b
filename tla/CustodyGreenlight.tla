-------------------------- MODULE CustodyGreenlight -------------------------
(***************************************************************************)
(* When a payment may be relied on: the merchant's DeliveryConfirmation    *)
(* and the watchtowers' CustodyAttestations (watchtower-v3_6/src/lib.rs    *)
(* and custody.rs), on top of the packages each tower holds.               *)
(*                                                                         *)
(* Both are signatures over a binding: a package's content and the index   *)
(* of one of its entries.  They are made where the package is held,        *)
(* carried by anyone, and recorded at any tower that knows the signer.     *)
(* Every operation is one call under the store's mutex, and every write is *)
(* one INSERT OR IGNORE.                                                   *)
(***************************************************************************)
EXTENDS PackageStore

CONSTANTS
    Confirmers,     \* signer_id of v36_watchtower_confirmers
    Attesters,      \* attester_id of v36_custody_attesters
    ReceiptKey,     \* merchant_receipt_public_key of each entry
    ConfirmerKey,   \* signer_public_key
    AttesterKey,    \* attester_public_key
    Domain,         \* failure_domain of each attester
    Custodian       \* the tower an attester's key belongs to

\* main.rs registers the identities when it starts, and nothing changes
\* them: register_custody_attester refuses a key under two identities.
ASSUME IdentityAssumption ==
    /\ IsFiniteSet(Attesters)
    /\ Custodian \in [Attesters -> Towers]
    /\ \A a, b \in Attesters : AttesterKey[a] = AttesterKey[b] => a = b

VARIABLES
    confirmSigs,    \* every DeliveryConfirmation signed, and by whom
    confirmations,  \* v36_delivery_confirmations of each tower
    attestSigs,     \* every CustodyAttestation signed, and by whom
    attestations    \* v36_custody_attestations of each tower

custodyVars == <<confirmSigs, confirmations, attestSigs, attestations>>
vars == <<storeVars, custodyVars>>

\* DeliveryConfirmation, and CustodyAttestation: the latter adds the hash of
\* the former.  indexes count from 1.
Bindings == UNION {[package : {p}, index : DOMAIN p.entries] : p \in Packages}

Init ==
    /\ StoreInit
    /\ confirmSigs = {}
    /\ confirmations = [w \in Towers |-> {}]
    /\ attestSigs = {}
    /\ attestations = [w \in Towers |-> {}]

-----------------------------------------------------------------------------
(* The merchant's confirmation                                             *)

\* confirmation_for of the stored package.
Confirmable(w, b) == b.package \in held[w]

\* receipt_public_key: of the merchant that the entry pays.
FirstReceiptKey(b) == ReceiptKey[Head(b.package.entries)]            \* mutant
ReceiptKeyOf(b) == ReceiptKey[b.package.entries[b.index]]

SignConfirmation(w, b, s) ==
    /\ Confirmable(w, b)
    /\ ConfirmerKey[s] = ReceiptKeyOf(b)
    /\ confirmSigs' = confirmSigs \cup {<<s, b>>}
    /\ UNCHANGED <<storeVars, confirmations, attestSigs, attestations>>

\* The primary key of v36_delivery_confirmations has no content: a second
\* confirmation of other content would be ignored.
RecordConfirmation(w, b, s) ==
    /\ <<s, b>> \in confirmSigs
    /\ Confirmable(w, b)
    /\ ConfirmerKey[s] = ReceiptKeyOf(b)
    /\ confirmations' = [confirmations EXCEPT ![w] = @ \cup {<<s, b>>}]
    /\ UNCHANGED <<storeVars, confirmSigs, attestSigs, attestations>>

HasMerchantConfirmation(w, b) == \E s \in Confirmers : <<s, b>> \in confirmations[w]

-----------------------------------------------------------------------------
(* The towers' attestations                                                *)

Attestable(w, b) == Confirmable(w, b) /\ HasMerchantConfirmation(w, b)

SignCustodyAttestation(b, a) ==
    /\ Attestable(Custodian[a], b)
    /\ attestSigs' = attestSigs \cup {<<a, b>>}
    /\ UNCHANGED <<storeVars, confirmSigs, confirmations, attestations>>

RecordAny(w, b, a) == \E c \in Bindings :                            \* mutant
    /\ <<a, c>> \in attestSigs
    /\ c.index = b.index /\ c.package.seq = b.package.seq
    /\ Attestable(w, b)
    /\ attestations' = [attestations EXCEPT ![w] = @ \cup {<<a, b>>}]
    /\ UNCHANGED <<storeVars, confirmSigs, confirmations, attestSigs>>

RecordCustodyAttestation(w, b, a) ==
    /\ <<a, b>> \in attestSigs
    /\ Attestable(w, b)
    /\ attestations' = [attestations EXCEPT ![w] = @ \cup {<<a, b>>}]
    /\ UNCHANGED <<storeVars, confirmSigs, confirmations, attestSigs>>

AttestersOf(w, b) == {a \in Attesters : <<a, b>> \in attestations[w]}

\* production_ready of production_greenlight_status.
ReadyByKeys(w, b, threshold) ==                                      \* mutant
    /\ HasMerchantConfirmation(w, b)
    /\ Cardinality({AttesterKey[a] : a \in AttestersOf(w, b)}) >= threshold

ProductionReady(w, b, threshold) ==
    /\ b.package \in held[w]
    /\ HasMerchantConfirmation(w, b)
    /\ Cardinality({AttesterKey[a] : a \in AttestersOf(w, b)}) >= threshold
    /\ Cardinality({Domain[a] : a \in AttestersOf(w, b)}) >= threshold

-----------------------------------------------------------------------------
(* Specification                                                           *)

Next ==
    \/ StoreNext /\ UNCHANGED custodyVars
    \/ \E b \in Bindings :
         \/ \E w \in Towers, s \in Confirmers :
              SignConfirmation(w, b, s) \/ RecordConfirmation(w, b, s)
         \/ \E a \in Attesters :
              \/ SignCustodyAttestation(b, a)
              \/ \E w \in Towers : RecordCustodyAttestation(w, b, a)

Spec == Init /\ [][Next]_vars

-----------------------------------------------------------------------------
(* Properties                                                              *)

\* custody_threshold is 1, 2 or 3.
Thresholds == 1..3

\* Rows are of what they name.  A confirmation, above all, is recorded only
\* beside the package it confirms, and only of the merchant that the very
\* entry it names pays: a ledger has entries of many merchants.
CustodyTypeOK ==
    /\ StoreTypeOK
    /\ confirmSigs \subseteq Confirmers \X Bindings
    /\ confirmations \in [Towers -> SUBSET (Confirmers \X Bindings)]
    /\ \A w \in Towers, s \in Confirmers, b \in Bindings :
         <<s, b>> \in confirmations[w] =>
            /\ b.package \in held[w]
            /\ ConfirmerKey[s] = ReceiptKey[b.package.entries[b.index]]
    /\ attestSigs \subseteq Attesters \X Bindings
    /\ attestations \in [Towers -> SUBSET (Attesters \X Bindings)]

\* A green light shown by one tower is custody by that many: attesters of
\* that many failure domains whose own towers hold the very package, and
\* have the merchant's confirmation of it.
GreenlightIsCustody ==
    \A w \in Towers, b \in Bindings, t \in Thresholds :
        ProductionReady(w, b, t) =>
            Cardinality({Domain[a] :
                a \in {x \in Attesters : Attestable(Custodian[x], b)}}) >= t

\* Whatever conflicting packages reach the towers, two towers never show
\* green lights, each by more than half of the attesters, for packages that
\* are not of one ledger.
GreenlightsAreOneLedger ==
    \A v, w \in Towers, b, c \in Bindings, t \in Thresholds :
        ( /\ 2 * t > Cardinality(Attesters)
          /\ ProductionReady(v, b, t) /\ ProductionReady(w, c, t)
          /\ b.package.seq <= c.package.seq )
        => /\ b.package.seq = c.package.seq => b.package = c.package
           /\ IsPrefix(b.package.entries, c.package.entries)

\* A green light once shown stays: no later package, confirmation or
\* attestation takes it back.
GreenlightStands ==
    [][ \A w \in Towers, b \in Bindings, t \in Thresholds :
          ProductionReady(w, b, t) => ProductionReady(w, b, t)' ]_vars
=============================================================================
