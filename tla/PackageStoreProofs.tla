-------------------------- MODULE PackageStoreProofs ------------------------
(***************************************************************************)
(* What a watchtower's package store guarantees, whatever is sent to it    *)
(* and in whatever order.                                                  *)
(***************************************************************************)
EXTENDS PackageStore, SequenceTheorems, TLAPS

-----------------------------------------------------------------------------
(* Ledgers that carry on with each other                                   *)

LEMMA PrefixPointwise ==
    ASSUME NEW s \in Seq(Entries), NEW t \in Seq(Entries)
    PROVE  IsPrefix(s, t) <=> /\ Len(s) <= Len(t)
                              /\ \A i \in 1..Len(s) : s[i] = t[i]
<1>1. SUFFICES ASSUME Len(s) <= Len(t)
               PROVE  SubSeq(s, 1, Len(s)) = SubSeq(t, 1, Len(s))
                      <=> \A i \in 1..Len(s) : s[i] = t[i]
  BY DEF IsPrefix
<1>2. /\ Len(s) \in Nat
      /\ SubSeq(s, 1, Len(s)) = [i \in 1..Len(s) |-> s[i]]
      /\ SubSeq(t, 1, Len(s)) = [i \in 1..Len(s) |-> t[i]]
  BY <1>1
<1> QED BY <1>2

LEMMA PrefixReflexive ==
    ASSUME NEW s \in Seq(Entries)
    PROVE  IsPrefix(s, s)
BY PrefixPointwise

LEMMA PrefixTransitive ==
    ASSUME NEW s \in Seq(Entries), NEW t \in Seq(Entries), NEW u \in Seq(Entries),
           IsPrefix(s, t), IsPrefix(t, u)
    PROVE  IsPrefix(s, u)
<1>1. Len(s) \in Nat /\ Len(t) \in Nat /\ Len(u) \in Nat
  OBVIOUS
<1> QED BY <1>1, PrefixPointwise

\* Only the adjacent package is compared by its checkpoint hash, and that
\* is enough: carrying on is transitive over growing sequences.
LEMMA ExtendsTransitive ==
    ASSUME NEW q \in Packages, NEW p \in Packages, NEW r \in Packages,
           q.seq < p.seq, p.seq < r.seq, Extends(p, q), Extends(r, p)
    PROVE  Extends(r, q)
<1>1. /\ q.entries \in Seq(Entries) /\ q.seq \in Nat
      /\ p.entries \in Seq(Entries) /\ p.seq \in Nat
      /\ r.entries \in Seq(Entries) /\ r.seq \in Nat
  BY PackageAssumption
<1>2. IsPrefix(q.entries, r.entries)
  BY <1>1, PrefixTransitive DEF Extends
<1>3. r.seq # q.seq + 1
  BY <1>1
<1> QED BY <1>2, <1>3 DEF Extends

-----------------------------------------------------------------------------
(* The inductive invariant                                                 *)

HeldIsGood ==
    \A w \in Towers : \A p \in held[w] : p.valid /\ p.seq > 0

\* Why a tower still refuses what it once refused.
StillRefused(w, p) ==
    \/ ~p.valid
    \/ 0 < head[w] /\ p.seq <= head[w]
    \/ \E q \in HeldAt(w, head[w]) : ~Extends(p, q)

RefusalsStand ==
    \A w \in Towers : \A p \in quarantine[w] : p \notin held[w] /\ StillRefused(w, p)

\* A conflict, a stale package and a changed ledger are refused for a reason
\* that later packages only strengthen.
StoreInv ==
    /\ StoreTypeOK
    /\ HeldIsOneLedger
    /\ HeldIsGood
    /\ RefusalsStand

LEMMA StoreInitInv == StoreInit => StoreInv
BY DEF StoreInit, StoreInv, StoreTypeOK, HeldIsOneLedger, HeldIsGood,
       RefusalsStand, HeldAt

\* A tower stores only what is above its head and carries on with it.
LEMMA StoreAppends ==
    ASSUME StoreInv, NEW w \in Towers, NEW p \in Packages,
           p \notin held[w], ~Refused(w, p), Storable(p)
    PROVE  /\ p.seq > head[w]
           /\ \A q \in held[w] : q.seq < p.seq /\ Extends(p, q)
           /\ p \notin quarantine[w]
<1>1. /\ p.seq \in Nat /\ p.seq > 0 /\ p.valid
      /\ head[w] \in Nat /\ held[w] \subseteq Packages
  BY PackageAssumption DEF StoreInv, StoreTypeOK, Storable, Refused
<1>2. HeldAt(w, p.seq) = {}
  BY DEF Refused, StateConflict
<1>3. p.seq > head[w]
  BY <1>1, <1>2 DEF Refused, Stale
<1>4. \A h \in HeldAt(w, head[w]) : Extends(p, h)
  BY <1>3 DEF Refused, AppendOnlyViolation
<1>5. ASSUME NEW q \in held[w]
      PROVE  q.seq < p.seq /\ Extends(p, q)
  <2>1. q \in Packages /\ q.seq \in Nat /\ q.seq > 0 /\ q.seq <= head[w]
    BY <1>1, PackageAssumption DEF StoreInv, HeldIsOneLedger, HeldIsGood
  <2>2. PICK h \in HeldAt(w, head[w]) : TRUE
    BY <1>1, <2>1 DEF StoreInv, HeldIsOneLedger
  <2>3. h \in held[w] /\ h \in Packages /\ h.seq = head[w] /\ Extends(p, h)
    BY <1>1, <1>4, <2>2 DEF HeldAt
  <2>4. CASE q = h
    BY <1>3, <2>3, <2>4
  <2>5. CASE q # h
    <3>1. q.seq # h.seq
      BY <2>3, <2>5 DEF StoreInv, HeldIsOneLedger
    <3>2. q.seq < h.seq /\ h.seq \in Nat
      BY <1>1, <2>1, <2>3, <3>1
    <3>3. Extends(h, q)
      BY <2>3, <3>2, <2>1 DEF StoreInv, HeldIsOneLedger, Extends
    <3> QED BY <1>1, <1>3, <2>1, <2>3, <3>2, <3>3, ExtendsTransitive
  <2> QED BY <2>4, <2>5
<1>6. p \notin quarantine[w]
  <2>1. ~StillRefused(w, p)
    BY <1>1, <1>3, <1>4 DEF StillRefused
  <2> QED BY <2>1 DEF StoreInv, RefusalsStand
<1> QED BY <1>3, <1>5, <1>6

LEMMA StoreKeepsInv ==
    ASSUME StoreInv, NEW w \in Towers, NEW p \in Packages, Store(w, p)
    PROVE  StoreInv'
<1>1. /\ p.seq \in Nat /\ p.seq > 0 /\ p.valid
      /\ p \notin held[w] /\ ~Refused(w, p) /\ Storable(p)
  BY PackageAssumption DEF Store, Storable, Refused
<1>2. /\ held' = [held EXCEPT ![w] = @ \cup {p}]
      /\ head' = [head EXCEPT ![w] = p.seq]
      /\ quarantine' = quarantine
  BY DEF Store
<1>3. /\ held \in [Towers -> SUBSET Packages]
      /\ head \in [Towers -> Nat]
      /\ quarantine \in [Towers -> SUBSET Packages]
  BY DEF StoreInv, StoreTypeOK
<1>4. /\ held'[w] = held[w] \cup {p} /\ head'[w] = p.seq
      /\ \A v \in Towers : v # w => held'[v] = held[v] /\ head'[v] = head[v]
  BY <1>2, <1>3
<1>5. /\ p.seq > head[w]
      /\ \A q \in held[w] : q.seq < p.seq /\ Extends(p, q)
      /\ p \notin quarantine[w]
  BY <1>1, StoreAppends
<1>6. StoreTypeOK'
  BY <1>1, <1>2, <1>3 DEF StoreTypeOK
<1>7. HeldIsOneLedger'
  <2> SUFFICES ASSUME NEW v \in Towers
               PROVE  /\ \A r, q \in held'[v] :
                             /\ r.seq = q.seq => r = q
                             /\ r.seq > q.seq => IsPrefix(q.entries, r.entries)
                             /\ r.seq = q.seq + 1 => r.prev = Checkpoint(q)
                      /\ \A r \in held'[v] : r.seq <= head'[v]
                      /\ head'[v] > 0 => \E r \in held'[v] : r.seq = head'[v]
    BY DEF HeldIsOneLedger, HeldAt
  <2>1. CASE v # w
    BY <1>4, <2>1 DEF StoreInv, HeldIsOneLedger, HeldAt
  <2>2. CASE v = w
    <3>1. \A q \in held[w] : q \in Packages /\ q.seq \in Nat /\ q.seq < p.seq
                            /\ q.seq <= head[w] /\ Extends(p, q)
      BY <1>3, <1>5, PackageAssumption DEF StoreInv, HeldIsOneLedger
    <3>2. IsPrefix(p.entries, p.entries) /\ p.seq # p.seq + 1
      BY <1>1, PackageAssumption, PrefixReflexive
    <3>3. ASSUME NEW r \in held'[w], NEW q \in held'[w]
          PROVE  /\ r.seq = q.seq => r = q
                 /\ r.seq > q.seq => IsPrefix(q.entries, r.entries)
                 /\ r.seq = q.seq + 1 => r.prev = Checkpoint(q)
      <4>1. CASE r \in held[w] /\ q \in held[w]
        BY <4>1 DEF StoreInv, HeldIsOneLedger
      <4>2. CASE r = p /\ q \in held[w]
        BY <1>1, <3>1, <4>2 DEF Extends
      <4>3. CASE r \in held[w] /\ q = p
        BY <1>1, <3>1, <4>3
      <4>4. CASE r = p /\ q = p
        BY <3>2, <4>4
      <4> QED BY <1>4, <4>1, <4>2, <4>3, <4>4
    <3>4. \A r \in held'[w] : r.seq <= p.seq
      BY <1>1, <1>4, <3>1
    <3> QED BY <1>1, <1>4, <2>2, <3>3, <3>4
  <2> QED BY <2>1, <2>2
<1>8. HeldIsGood'
  BY <1>1, <1>4 DEF StoreInv, HeldIsGood
<1>9. RefusalsStand'
  <2> SUFFICES ASSUME NEW v \in Towers, NEW r \in quarantine[v]
               PROVE  /\ r \notin held'[v]
                      /\ \/ ~r.valid
                         \/ 0 < head'[v] /\ r.seq <= head'[v]
                         \/ \E q \in held'[v] : q.seq = head'[v] /\ ~Extends(r, q)
    BY <1>2 DEF RefusalsStand, StillRefused, HeldAt
  <2>1. r \notin held[v] /\ StillRefused(v, r)
    BY DEF StoreInv, RefusalsStand
  <2>2. CASE v # w
    BY <1>4, <2>1, <2>2 DEF StillRefused, HeldAt
  <2>3. CASE v = w
    <3>1. r \notin held'[w]
      BY <1>4, <1>5, <2>1, <2>3
    <3>2. r \in Packages /\ r.seq \in Nat
      BY <1>3, PackageAssumption
    <3>3. CASE ~r.valid
      BY <2>3, <3>1, <3>3
    <3>4. CASE r.seq <= p.seq
      BY <1>1, <1>4, <2>3, <3>1, <3>4
    <3>5. CASE r.valid /\ r.seq > p.seq
      <4>1. PICK q \in HeldAt(w, head[w]) : ~Extends(r, q)
        BY <1>1, <1>3, <1>5, <2>1, <2>3, <3>2, <3>5 DEF StillRefused
      <4>2. q \in held[w] /\ q \in Packages
        BY <1>3, <4>1 DEF HeldAt
      <4>3. ~Extends(r, p)
        BY <1>5, <3>2, <3>5, <4>1, <4>2, ExtendsTransitive
      <4> QED BY <1>4, <2>3, <3>1, <4>3
    <3> QED BY <1>1, <3>2, <3>3, <3>4, <3>5
  <2> QED BY <2>2, <2>3
<1> QED BY <1>6, <1>7, <1>8, <1>9 DEF StoreInv

LEMMA RefuseKeepsInv ==
    ASSUME StoreInv, NEW w \in Towers, NEW p \in Packages, Refuse(w, p)
    PROVE  StoreInv'
<1>1. /\ Refused(w, p)
      /\ quarantine' = [quarantine EXCEPT ![w] = @ \cup {p}]
      /\ held' = held /\ head' = head
  BY DEF Refuse
<1>2. /\ held[w] \subseteq Packages /\ head[w] \in Nat /\ p.seq \in Nat
      /\ quarantine \in [Towers -> SUBSET Packages]
  BY PackageAssumption DEF StoreInv, StoreTypeOK
<1>3. p \notin held[w]
  <2> SUFFICES ASSUME p \in held[w]
               PROVE  FALSE
    OBVIOUS
  <2>1. p.valid /\ p \in HeldAt(w, p.seq) /\ p.seq <= head[w]
    BY DEF StoreInv, HeldIsGood, HeldIsOneLedger, HeldAt
  <2> QED BY <1>1, <1>2, <2>1
          DEF Refused, StateConflict, Stale, AppendOnlyViolation
<1>4. StillRefused(w, p)
  <2>1. CASE ~p.valid
    BY <2>1 DEF StillRefused
  <2>2. CASE StateConflict(w, p)
    <3>1. PICK q \in held[w] : q.seq = p.seq
      BY <2>2 DEF StateConflict, HeldAt
    <3>2. q.seq > 0 /\ q.seq <= head[w]
      BY DEF StoreInv, HeldIsGood, HeldIsOneLedger
    <3> QED BY <1>2, <3>1, <3>2 DEF StillRefused
  <2>3. CASE Stale(w, p)
    BY <1>2, <2>3 DEF Stale, StillRefused
  <2>4. CASE AppendOnlyViolation(w, p)
    BY <2>4 DEF AppendOnlyViolation, StillRefused
  <2> QED BY <1>1, <2>1, <2>2, <2>3, <2>4 DEF Refused
<1>5. RefusalsStand'
  BY <1>1, <1>2, <1>3, <1>4
     DEF StoreInv, RefusalsStand, StillRefused, HeldAt
<1>6. (StoreTypeOK /\ HeldIsOneLedger /\ HeldIsGood)'
  BY <1>1, <1>2 DEF StoreInv, StoreTypeOK, HeldIsOneLedger, HeldIsGood, HeldAt
<1> QED BY <1>5, <1>6 DEF StoreInv

LEMMA StoreInvStutters ==
    ASSUME StoreInv, UNCHANGED storeVars
    PROVE  StoreInv'
BY DEF storeVars, StoreInv, StoreTypeOK, HeldIsOneLedger, HeldIsGood,
       RefusalsStand, StillRefused, HeldAt

LEMMA AnswerKeepsInv ==
    ASSUME StoreInv, NEW w \in Towers, NEW p \in Packages,
           AcceptPackage(w, p) \/ Refuse(w, p)
    PROVE  StoreInv'
BY StoreKeepsInv, RefuseKeepsInv, StoreInvStutters DEF AcceptPackage, Repeat

LEMMA StoreStepInv == StoreInv /\ [StoreNext]_storeVars => StoreInv'
BY AnswerKeepsInv, StoreInvStutters DEF StoreNext

-----------------------------------------------------------------------------
(* The theorems                                                            *)

THEOREM StoreInvariant == StoreSpec => []StoreInv
<1>1. StoreInit => StoreInv
  BY StoreInitInv
<1>2. StoreInv /\ [StoreNext]_storeVars => StoreInv'
  BY StoreStepInv
<1> QED BY <1>1, <1>2, PTL DEF StoreSpec

\* However packages arrive at accept_package, a tower holds one ledger.
THEOREM HoldsOneLedger == StoreSpec => []HeldIsOneLedger
<1>1. StoreInv => HeldIsOneLedger
  BY DEF StoreInv
<1> QED BY <1>1, StoreInvariant, PTL

\* What accept_package has accepted is never refused, and the reverse.
THEOREM AnswersAlwaysStand == StoreSpec => []AnswersStand
<1>1. StoreInv => AnswersStand
  BY DEF StoreInv, RefusalsStand, AnswersStand
<1> QED BY <1>1, StoreInvariant, PTL

\* What each tower holds only grows.
LEMMA HeldGrows ==
    ASSUME StoreInv, NEW w \in Towers, NEW p \in Packages,
           AcceptPackage(w, p) \/ Refuse(w, p)
    PROVE  \A v \in Towers : held[v] \subseteq held'[v]
BY DEF StoreInv, StoreTypeOK, AcceptPackage, Refuse, Repeat, Store, storeVars

\* One answer of a tower leaves what every tower would challenge with, or
\* extends it.
LEMMA AnswerExtendsLatest ==
    ASSUME StoreInv, NEW w \in Towers, NEW p \in Packages,
           AcceptPackage(w, p) \/ Refuse(w, p),
           NEW v \in Towers, NEW h \in HeldAt(v, head[v])
    PROVE  \E q \in held'[v] : /\ q.seq = head'[v] /\ q.seq >= h.seq
                               /\ IsPrefix(h.entries, q.entries)
<1>1. /\ h \in held[v] /\ h.seq = head[v] /\ h.seq \in Nat
      /\ IsPrefix(h.entries, h.entries)
  BY PackageAssumption, PrefixReflexive DEF StoreInv, StoreTypeOK, HeldAt
<1>2. CASE held'[v] = held[v] /\ head'[v] = head[v]
  BY <1>1, <1>2
<1>3. CASE Store(w, p) /\ v = w
  <2>1. /\ p \notin held[w] /\ ~Refused(w, p) /\ Storable(p)
        /\ p \in held'[w] /\ head'[w] = p.seq
    BY <1>3 DEF Store, StoreInv, StoreTypeOK
  <2>2. h.seq < p.seq /\ Extends(p, h) /\ p.seq \in Nat
    BY <1>1, <1>3, <2>1, StoreAppends, PackageAssumption
  <2> QED BY <1>1, <1>3, <2>1, <2>2 DEF Extends
<1>4. Store(w, p) /\ v # w => held'[v] = held[v] /\ head'[v] = head[v]
  BY DEF Store, StoreInv, StoreTypeOK
<1>5. Repeat(w, p) \/ Refuse(w, p) => held'[v] = held[v] /\ head'[v] = head[v]
  BY DEF Repeat, Refuse, storeVars
<1> QED BY <1>2, <1>3, <1>4, <1>5 DEF AcceptPackage

\* No call of accept_package takes the ledger a tower would challenge with
\* back or replaces it.
THEOREM LatestAlwaysGrows == StoreSpec => LatestOnlyGrows
<1>1. StoreInv /\ [StoreNext]_storeVars
      => [ \A w \in Towers :
             \A p \in HeldAt(w, head[w]) :
               \E q \in held'[w] :
                 q.seq = head'[w] /\ q.seq >= p.seq
                 /\ IsPrefix(p.entries, q.entries) ]_storeVars
  BY AnswerExtendsLatest DEF StoreNext
<1> QED BY <1>1, StoreInvariant, PTL DEF StoreSpec, LatestOnlyGrows
=============================================================================
