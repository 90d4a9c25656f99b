---------------------------- MODULE CustodyProofs ---------------------------
(***************************************************************************)
(* What a production green light is worth, for any number of towers,       *)
(* attesters and packages, conflicting ones included.                      *)
(***************************************************************************)
EXTENDS CustodyGreenlight, PackageStoreProofs, FiniteSetTheorems

\* Signatures are only made, and only recorded, where the package is held.
CustodyInv ==
    /\ StoreInv
    /\ CustodyTypeOK
    /\ \A a \in Attesters, b \in Bindings :
         <<a, b>> \in attestSigs => Attestable(Custodian[a], b)
    /\ \A w \in Towers : attestations[w] \subseteq attestSigs

\* What a tower holds, confirms and records only grows.
Grows ==
    \A w \in Towers : /\ held[w] \subseteq held'[w]
                      /\ confirmations[w] \subseteq confirmations'[w]
                      /\ attestations[w] \subseteq attestations'[w]

-----------------------------------------------------------------------------
(* Counting                                                                *)

LEMMA ImageFinite ==
    ASSUME NEW S, IsFiniteSet(S), NEW f
    PROVE  /\ IsFiniteSet({f[x] : x \in S})
           /\ Cardinality({f[x] : x \in S}) \in Nat
           /\ Cardinality({f[x] : x \in S}) <= Cardinality(S)
<1> DEFINE T == {f[x] : x \in S}
           g == [x \in S |-> f[x]]
<1>1. g \in Surjection(S, T)
  BY DEF Surjection
<1>2. IsFiniteSet(T) /\ Cardinality(T) <= Cardinality(S)
  BY <1>1, FS_Surjection
<1>3. Cardinality(T) \in Nat
  BY <1>2, FS_CardinalityType
<1> QED BY <1>2, <1>3

LEMMA ImageGrows ==
    ASSUME NEW S, NEW U, IsFiniteSet(U), S \subseteq U, NEW f
    PROVE  /\ Cardinality({f[x] : x \in S}) <= Cardinality({f[x] : x \in U})
           /\ Cardinality({f[x] : x \in S}) \in Nat
           /\ Cardinality({f[x] : x \in U}) \in Nat
<1>1. IsFiniteSet(S)
  BY FS_Subset
<1>2. {f[x] : x \in S} \subseteq {f[x] : x \in U}
  OBVIOUS
<1>3. Cardinality({f[x] : x \in S}) <= Cardinality({f[x] : x \in U})
  BY <1>2, ImageFinite, FS_Subset
<1> QED BY <1>1, <1>3, ImageFinite

LEMMA AttestersFinite ==
    ASSUME NEW w, NEW b
    PROVE  /\ IsFiniteSet(Attesters)
           /\ AttestersOf(w, b) \subseteq Attesters
           /\ IsFiniteSet(AttestersOf(w, b))
<1>1. IsFiniteSet(Attesters) /\ AttestersOf(w, b) \subseteq Attesters
  BY IdentityAssumption DEF AttestersOf
<1> QED BY <1>1, FS_Subset

-----------------------------------------------------------------------------
(* The invariant                                                           *)

LEMMA BindingFacts ==
    ASSUME NEW b \in Bindings
    PROVE  b.package \in Packages
BY DEF Bindings

LEMMA CustodyTypes ==
    ASSUME CustodyTypeOK, StoreInv, [Next]_vars
    PROVE  CustodyTypeOK' /\ StoreInv' /\ Grows
<1> USE DEF CustodyTypeOK
<1>1. CASE StoreNext /\ UNCHANGED custodyVars
  <2>1. StoreInv'
    BY <1>1, StoreStepInv
  <2>2. \A w \in Towers : held[w] \subseteq held'[w]
    BY <1>1, HeldGrows DEF StoreNext
  <2> QED BY <1>1, <2>1, <2>2 DEF custodyVars, Grows, StoreInv
<1>2. ASSUME UNCHANGED storeVars
      PROVE  StoreInv' /\ StoreTypeOK' /\ held' = held
  BY <1>2, StoreInvStutters DEF StoreInv, storeVars
<1>3. CASE UNCHANGED vars
  BY <1>2, <1>3 DEF vars, custodyVars, Grows
<1>4. ASSUME NEW b \in Bindings, NEW w \in Towers, NEW s \in Confirmers,
             SignConfirmation(w, b, s)
      PROVE  CustodyTypeOK' /\ StoreInv' /\ Grows
  BY <1>2, <1>4 DEF SignConfirmation, Grows
<1>5. ASSUME NEW b \in Bindings, NEW w \in Towers, NEW s \in Confirmers,
             RecordConfirmation(w, b, s)
      PROVE  CustodyTypeOK' /\ StoreInv' /\ Grows
  <2>1. /\ StoreInv' /\ StoreTypeOK' /\ held' = held
        /\ UNCHANGED <<confirmSigs, attestSigs, attestations>>
    BY <1>2, <1>5 DEF RecordConfirmation
  <2>2. /\ confirmations' \in [Towers -> SUBSET (Confirmers \X Bindings)]
        /\ \A v \in Towers : confirmations[v] \subseteq confirmations'[v]
    BY <1>5 DEF RecordConfirmation
  <2>3. ASSUME NEW v \in Towers, NEW t \in Confirmers, NEW c \in Bindings,
               <<t, c>> \in confirmations'[v]
        PROVE  /\ c.package \in held'[v]
               /\ ConfirmerKey[t] = ReceiptKey[c.package.entries[c.index]]
    <3>1. CASE <<t, c>> \in confirmations[v]
      BY <2>1, <3>1
    <3>2. CASE <<t, c>> \notin confirmations[v]
      <4>1. v = w /\ t = s /\ c = b
        BY <1>5, <2>3, <3>2 DEF RecordConfirmation
      <4> QED BY <1>5, <2>1, <4>1 DEF RecordConfirmation, Confirmable, ReceiptKeyOf
    <3> QED BY <3>1, <3>2
  <2> QED BY <2>1, <2>2, <2>3 DEF Grows
<1>6. ASSUME NEW b \in Bindings, NEW a \in Attesters, SignCustodyAttestation(b, a)
      PROVE  CustodyTypeOK' /\ StoreInv' /\ Grows
  BY <1>2, <1>6 DEF SignCustodyAttestation, Grows
<1>7. ASSUME NEW b \in Bindings, NEW a \in Attesters, NEW w \in Towers,
             RecordCustodyAttestation(w, b, a)
      PROVE  CustodyTypeOK' /\ StoreInv' /\ Grows
  BY <1>2, <1>7 DEF RecordCustodyAttestation, Grows
<1> QED BY <1>1, <1>3, <1>4, <1>5, <1>6, <1>7 DEF Next

LEMMA CustodyInit == Init => CustodyInv
BY StoreInitInv DEF Init, CustodyInv, CustodyTypeOK, StoreInv

\* What could be attested can be attested for ever.
LEMMA AttestableStays ==
    ASSUME Grows, NEW w \in Towers, NEW b, Attestable(w, b)
    PROVE  Attestable(w, b)'
BY DEF Grows, Attestable, Confirmable, HasMerchantConfirmation

LEMMA CustodyStep == CustodyInv /\ [Next]_vars => CustodyInv'
<1> SUFFICES ASSUME CustodyInv, [Next]_vars
             PROVE  CustodyInv'
  OBVIOUS
<1>1. CustodyTypeOK' /\ StoreInv' /\ Grows /\ CustodyTypeOK
  BY CustodyTypes DEF CustodyInv
<1>2. ASSUME NEW a \in Attesters, NEW b \in Bindings, <<a, b>> \in attestSigs'
      PROVE  Attestable(Custodian[a], b)'
  <2>1. Custodian[a] \in Towers
    BY IdentityAssumption
  <2>2. Attestable(Custodian[a], b) => Attestable(Custodian[a], b)'
    BY <1>1, <2>1, AttestableStays
  <2>3. Attestable(Custodian[a], b)
    <3>1. ASSUME NEW c \in Bindings, NEW d \in Attesters, SignCustodyAttestation(c, d),
                 <<a, b>> \notin attestSigs
          PROVE  Attestable(Custodian[a], b)
      BY <1>2, <3>1 DEF SignCustodyAttestation
    <3>2. (~\E c \in Bindings, d \in Attesters : SignCustodyAttestation(c, d))
          => attestSigs' = attestSigs
      BY DEF Next, vars, custodyVars, SignConfirmation, RecordConfirmation,
             RecordCustodyAttestation
    <3> QED BY <1>2, <3>1, <3>2 DEF CustodyInv
  <2> QED BY <2>2, <2>3
<1>3. ASSUME NEW w \in Towers
      PROVE  attestations'[w] \subseteq attestSigs'
  <2>1. attestations[w] \subseteq attestSigs
    BY DEF CustodyInv
  <2>2. CASE UNCHANGED <<attestSigs, attestations>>
    BY <2>1, <2>2
  <2>3. ASSUME NEW c \in Bindings, NEW d \in Attesters, SignCustodyAttestation(c, d)
        PROVE  attestations'[w] \subseteq attestSigs'
    BY <2>1, <2>3 DEF SignCustodyAttestation
  <2>4. ASSUME NEW c \in Bindings, NEW d \in Attesters, NEW v \in Towers,
               RecordCustodyAttestation(v, c, d)
        PROVE  attestations'[w] \subseteq attestSigs'
    BY <1>1, <2>1, <2>4 DEF RecordCustodyAttestation, CustodyTypeOK
  <2> QED BY <2>2, <2>3, <2>4
          DEF Next, vars, custodyVars, SignConfirmation, RecordConfirmation
<1> QED BY <1>1, <1>2, <1>3 DEF CustodyInv

-----------------------------------------------------------------------------
(* The theorems                                                            *)

\* Signatures and records are bound to what towers hold.
THEOREM CustodyInvariant == Spec => []CustodyInv
BY CustodyInit, CustodyStep, PTL DEF Spec

\* Confirmations, attestations and signatures are of bindings, and a recorded
\* confirmation is of a package the tower holds, by the merchant its entry pays.
THEOREM CustodyTypeCorrect == Spec => []CustodyTypeOK
<1>1. CustodyInv => CustodyTypeOK
  BY DEF CustodyInv
<1> QED BY <1>1, CustodyInvariant, PTL

LEMMA CountedHold ==
    ASSUME CustodyInv, NEW w \in Towers, NEW b \in Bindings, NEW a \in AttestersOf(w, b)
    PROVE  a \in Attesters /\ Attestable(Custodian[a], b)
BY DEF AttestersOf, CustodyInv

\* Confirmations and attestations leave the packages alone: every behaviour
\* is one of the package store, and has what was proved of that.
THEOREM CustodyImplementsStore == Spec => StoreSpec
<1>1. Init => StoreInit
  BY DEF Init
<1>2. [Next]_vars => [StoreNext]_storeVars
  BY DEF Next, vars, SignConfirmation, RecordConfirmation, SignCustodyAttestation,
         RecordCustodyAttestation
<1> QED BY <1>1, <1>2, PTL DEF Spec, StoreSpec

\* The packages under a green light are one ledger in every tower, and no
\* answer about them is ever contradicted.
THEOREM CustodyKeepsTowers ==
    Spec => []HeldIsOneLedger /\ []AnswersStand /\ LatestOnlyGrows
BY CustodyImplementsStore, HoldsOneLedger, AnswersAlwaysStand, LatestAlwaysGrows, PTL

\* production_ready counts towers that hold the package, in as many failure
\* domains as asked for.
THEOREM GreenlightAlwaysCustody == Spec => []GreenlightIsCustody
<1>1. CustodyInv => GreenlightIsCustody
  <2> SUFFICES ASSUME CustodyInv, NEW w \in Towers, NEW b \in Bindings,
                      NEW t \in Thresholds, ProductionReady(w, b, t)
               PROVE  Cardinality({Domain[a] :
                        a \in {x \in Attesters : Attestable(Custodian[x], b)}}) >= t
    BY DEF GreenlightIsCustody
  <2> DEFINE U == {x \in Attesters : Attestable(Custodian[x], b)}
  <2>1. IsFiniteSet(U) /\ AttestersOf(w, b) \subseteq U
    BY CountedHold, AttestersFinite, FS_Subset
  <2>2. Cardinality({Domain[a] : a \in AttestersOf(w, b)}) >= t /\ t \in Nat
    BY DEF ProductionReady, Thresholds
  <2> HIDE DEF U
  <2>3. /\ Cardinality({Domain[a] : a \in AttestersOf(w, b)})
           <= Cardinality({Domain[a] : a \in U})
        /\ Cardinality({Domain[a] : a \in AttestersOf(w, b)}) \in Nat
        /\ Cardinality({Domain[a] : a \in U}) \in Nat
    BY <2>1, ImageGrows
  <2>4. Cardinality({Domain[a] : a \in U}) >= t
    BY <2>2, <2>3
  <2> QED BY <2>4 DEF U
<1> QED BY <1>1, CustodyInvariant, PTL

\* Whatever packages a dishonest HUB signs, green lights by more than half of
\* the attesters are of one ledger: one tower counted for both holds both.
THEOREM GreenlightsAlwaysOneLedger == Spec => []GreenlightsAreOneLedger
<1>1. CustodyInv => GreenlightsAreOneLedger
  <2> SUFFICES ASSUME CustodyInv, NEW v \in Towers, NEW w \in Towers,
                      NEW b \in Bindings, NEW c \in Bindings, NEW t \in Thresholds,
                      2 * t > Cardinality(Attesters),
                      ProductionReady(v, b, t), ProductionReady(w, c, t),
                      b.package.seq <= c.package.seq
               PROVE  /\ b.package.seq = c.package.seq => b.package = c.package
                      /\ IsPrefix(b.package.entries, c.package.entries)
    BY DEF GreenlightsAreOneLedger
  <2>1. t \in Nat /\ Cardinality(Attesters) \in Nat
    BY AttestersFinite, FS_CardinalityType DEF Thresholds
  <2>2. ASSUME NEW u \in Towers, NEW d \in Bindings, ProductionReady(u, d, t)
        PROVE  /\ Cardinality(AttestersOf(u, d)) \in Nat
               /\ Cardinality(AttestersOf(u, d)) >= t
    <3>1. Cardinality({AttesterKey[a] : a \in AttestersOf(u, d)}) >= t
      BY <2>2 DEF ProductionReady
    <3>2. IsFiniteSet(AttestersOf(u, d))
      BY AttestersFinite
    <3>3. /\ Cardinality(AttestersOf(u, d)) \in Nat
          /\ Cardinality({AttesterKey[a] : a \in AttestersOf(u, d)}) \in Nat
          /\ Cardinality({AttesterKey[a] : a \in AttestersOf(u, d)})
             <= Cardinality(AttestersOf(u, d))
      BY <3>2, ImageFinite, FS_CardinalityType
    <3> QED BY <2>1, <3>1, <3>3
  <2>3. AttestersOf(v, b) \cap AttestersOf(w, c) # {}
    <3>1. Cardinality(AttestersOf(v, b)) + Cardinality(AttestersOf(w, c))
          > Cardinality(Attesters)
      BY <2>1, <2>2
    <3> QED BY <3>1, AttestersFinite, FS_MajoritiesIntersect
  <2>4. PICK a : a \in AttestersOf(v, b) /\ a \in AttestersOf(w, c)
    BY <2>3
  <2>5. /\ Custodian[a] \in Towers
        /\ b.package \in held[Custodian[a]] /\ c.package \in held[Custodian[a]]
    BY <2>4, CountedHold, IdentityAssumption DEF Attestable, Confirmable
  <2>6. /\ b.package \in Packages /\ c.package \in Packages
        /\ b.package.seq \in Nat /\ c.package.seq \in Nat
        /\ IsPrefix(b.package.entries, b.package.entries)
    BY BindingFacts, PackageAssumption, PrefixReflexive
  <2>7. b.package.seq = c.package.seq => b.package = c.package
    BY <2>5 DEF CustodyInv, StoreInv, HeldIsOneLedger
  <2>8. c.package.seq > b.package.seq
        => IsPrefix(b.package.entries, c.package.entries)
    BY <2>5 DEF CustodyInv, StoreInv, HeldIsOneLedger
  <2> QED BY <2>6, <2>7, <2>8
<1> QED BY <1>1, CustodyInvariant, PTL

\* A green light stays, whatever is sent to the tower that shows it.
THEOREM GreenlightAlwaysStands == Spec => GreenlightStands
<1>1. CustodyInv /\ [Next]_vars
      => [ \A w \in Towers, b \in Bindings, t \in Thresholds :
             ProductionReady(w, b, t) => ProductionReady(w, b, t)' ]_vars
  <2> SUFFICES ASSUME CustodyInv, [Next]_vars, NEW w \in Towers, NEW b \in Bindings,
                      NEW t \in Thresholds, ProductionReady(w, b, t)
               PROVE  ProductionReady(w, b, t)'
    OBVIOUS
  <2>1. Grows
    BY CustodyTypes DEF CustodyInv
  <2>2. /\ AttestersOf(w, b) \subseteq AttestersOf(w, b)'
        /\ IsFiniteSet(AttestersOf(w, b)')
    <3>1. AttestersOf(w, b)' \subseteq Attesters /\ IsFiniteSet(Attesters)
      BY AttestersFinite DEF AttestersOf
    <3>2. IsFiniteSet(AttestersOf(w, b)')
      BY <3>1, FS_Subset
    <3> QED BY <2>1, <3>2 DEF Grows, AttestersOf
  <2>3. /\ b.package \in held'[w] /\ HasMerchantConfirmation(w, b)'
    BY <2>1 DEF Grows, ProductionReady, HasMerchantConfirmation
  <2>4. t \in Nat
    BY DEF Thresholds
  <2>5. ASSUME NEW f, Cardinality({f[a] : a \in AttestersOf(w, b)}) >= t
        PROVE  Cardinality({f[a] : a \in AttestersOf(w, b)'}) >= t
    <3> DEFINE S == AttestersOf(w, b)
               U == AttestersOf(w, b)'
    <3>1. S \subseteq U /\ IsFiniteSet(U) /\ Cardinality({f[a] : a \in S}) >= t
      BY <2>2, <2>5
    <3> HIDE DEF S, U
    <3>2. /\ Cardinality({f[a] : a \in S}) <= Cardinality({f[a] : a \in U})
          /\ Cardinality({f[a] : a \in S}) \in Nat
          /\ Cardinality({f[a] : a \in U}) \in Nat
      BY <3>1, ImageGrows
    <3>3. Cardinality({f[a] : a \in U}) >= t
      BY <2>4, <3>1, <3>2
    <3> QED BY <3>3 DEF U
  <2> QED BY <2>3, <2>5 DEF ProductionReady
<1> QED BY <1>1, CustodyInvariant, PTL DEF Spec, GreenlightStands
=============================================================================
