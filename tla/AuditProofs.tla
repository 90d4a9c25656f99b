----------------------------- MODULE AuditProofs -----------------------------
(***************************************************************************)
(* What audit chain, anchors and backups guarantee, for any number of      *)
(* packages, verifiers, backups and anchors, and any order of commands.    *)
(***************************************************************************)
EXTENDS AuditBackup, FiniteSetTheorems, TLAPS

-----------------------------------------------------------------------------
(* The inductive invariant                                                 *)

VerdictTypes == {"VERIFIED", "REJECTED"}
EventTypes == {"EXECUTION", "RECEIVED", "DRILL"} \cup VerdictTypes
Events == [at : Nat, type : EventTypes, id : Nat, packages : SUBSET Packages]

Handoffs == UNION {[ids -> {"RECEIVED"} \cup VerdictTypes] : ids \in SUBSET Nat}

Databases == [ packages : SUBSET Packages, audit : Seq(Events),
               handoffs : Handoffs, drilled : SUBSET Nat ]

\* A database in service or in a backup.
DatabaseGood(d) ==
    /\ d \in Databases
    /\ \A i \in DOMAIN d.audit : d.audit[i].packages \subseteq d.packages
    /\ \A i \in DOMAIN d.audit :
          d.audit[i].type \in VerdictTypes => d.audit[i].id \in DOMAIN d.handoffs
    /\ \A id \in DOMAIN d.handoffs : VerdictStands(id, d)
    /\ \A id \in d.drilled : id \in DOMAIN d.handoffs /\ d.handoffs[id] = "VERIFIED"

Artifacts == [content : Databases, head : Seq(Events), decayed : BOOLEAN]

FileGood(file) ==
    /\ file \in Artifacts
    /\ DatabaseGood(file.content)
    /\ IsPrefix(file.head, file.content.audit)

BackupOK ==
    \/ backup = Idle
    \/ /\ backup \in [pc : {"Check", "Vacuum"}, head : Seq(Events)]
       /\ IsPrefix(backup.head, db.audit)

Jobs == [pc : {"Look", "Write"}, id : Nat, verdict : VerdictTypes]

VerifyingOK ==
    /\ verifying \in [Verifiers -> {Idle} \cup Jobs]
    /\ \A v \in Verifiers : verifying[v] = Idle \/ verifying[v].id \in DOMAIN db.handoffs

Newer(id, ids) == {other \in ids : other > id}

\* Only what is not among the newest is removed, or waits to be.
KeptOK ==
    /\ made \subseteq 1..MaxTime /\ DOMAIN files \subseteq made
    /\ candidates \subseteq made
    /\ \A id \in candidates \cup (made \ DOMAIN files) : Cardinality(Newer(id, made)) >= KeepLatest

AuditInv ==
    /\ DatabaseGood(db)
    /\ time \in 1..MaxTime
    /\ anchors \subseteq Seq(Events)
    /\ files = [id \in DOMAIN files |-> files[id]]
    /\ \A id \in DOMAIN files : FileGood(files[id])
    /\ BackupOK /\ VerifyingOK /\ KeptOK
    /\ restoredTo.given => restoredTo.chain \in Seq(Events) /\ IsPrefix(restoredTo.chain, db.audit)

-----------------------------------------------------------------------------
(* Sequences                                                               *)

LEMMA SeqFacts ==
    ASSUME NEW s \in Seq(Events)
    PROVE  /\ Len(s) \in Nat /\ DOMAIN s = 1..Len(s)
           /\ s # <<>> => Len(s) >= 1
           /\ \A i \in DOMAIN s : s[i] \in Events
OBVIOUS

LEMMA AppendFacts ==
    ASSUME NEW s \in Seq(Events), NEW e \in Events
    PROVE  /\ Append(s, e) \in Seq(Events) /\ Len(Append(s, e)) = Len(s) + 1
           /\ DOMAIN Append(s, e) = 1..(Len(s) + 1)
           /\ Append(s, e)[Len(s) + 1] = e
           /\ \A i \in 1..Len(s) : Append(s, e)[i] = s[i]
OBVIOUS

LEMMA PrefixFacts ==
    ASSUME NEW s \in Seq(Events), NEW t \in Seq(Events)
    PROVE  IsPrefix(s, t) <=> /\ Len(s) <= Len(t)
                              /\ \A i \in 1..Len(s) : s[i] = t[i]
<1>1. SUFFICES ASSUME Len(s) <= Len(t)
               PROVE  SubSeq(s, 1, Len(s)) = SubSeq(t, 1, Len(s))
                      <=> \A i \in 1..Len(s) : s[i] = t[i]
  BY DEF IsPrefix
<1>2. /\ Len(s) \in Nat
      /\ SubSeq(s, 1, Len(s)) = [i \in 1..Len(s) |-> s[i]]
      /\ SubSeq(t, 1, Len(s)) = [i \in 1..Len(s) |-> t[i]]
  BY <1>1
<1> QED BY <1>2

\* A chain that passes an anchor has the anchored events.
LEMMA HeldAnchors ==
    ASSUME NEW s \in Seq(Events), NEW t \in Seq(Events), AnchorHolds(t, s)
    PROVE  IsPrefix(s, t)
<1>1. CASE t = s
  BY <1>1, PrefixFacts
<1>2. CASE t # s
  <2>1. Len(t) > Len(s) /\ SubSeq(t, 1, Len(s)) = s /\ Len(s) \in Nat /\ Len(t) \in Nat
    BY <1>2 DEF AnchorHolds
  <2>2. \A i \in 1..Len(s) : SubSeq(t, 1, Len(s))[i] = t[i]
    BY <2>1
  <2> QED BY <2>1, <2>2, PrefixFacts
<1> QED BY <1>1, <1>2

LEMMA PrefixGrows ==
    ASSUME NEW s \in Seq(Events), NEW t \in Seq(Events), NEW e \in Events, IsPrefix(s, t)
    PROVE  IsPrefix(s, Append(t, e))
<1>1. Len(s) <= Len(t) /\ \A i \in 1..Len(s) : s[i] = t[i]
  BY PrefixFacts
<1>2. Len(s) \in Nat /\ Len(t) \in Nat
  OBVIOUS
<1> DEFINE u == Append(t, e)
<1>3. u \in Seq(Events) /\ Len(u) = Len(t) + 1 /\ \A i \in 1..Len(t) : u[i] = t[i]
  BY AppendFacts
<1> HIDE DEF u
<1>4. IsPrefix(s, u)
  BY <1>1, <1>2, <1>3, PrefixFacts
<1> QED BY <1>4 DEF u

LEMMA PrefixTransitive ==
    ASSUME NEW s \in Seq(Events), NEW t \in Seq(Events), NEW u \in Seq(Events),
           IsPrefix(s, t), IsPrefix(t, u)
    PROVE  IsPrefix(s, u)
<1>1. Len(s) \in Nat /\ Len(t) \in Nat /\ Len(u) \in Nat
  OBVIOUS
<1> QED BY <1>1, PrefixFacts

LEMMA PrefixReflexive ==
    ASSUME NEW s \in Seq(Events)
    PROVE  IsPrefix(s, s)
BY PrefixFacts

-----------------------------------------------------------------------------
(* Databases                                                               *)

LEMMA HandoffFacts ==
    ASSUME NEW h \in Handoffs
    PROVE  /\ DOMAIN h \subseteq Nat
           /\ \A id \in DOMAIN h : h[id] \in {"RECEIVED"} \cup VerdictTypes
           /\ h = [id \in DOMAIN h |-> h[id]]
BY DEF Handoffs

\* An event that is no verdict, on whatever else changes.
LEMMA EventIsGood ==
    ASSUME NEW d, DatabaseGood(d), time \in Nat, NEW type \in EventTypes \ VerdictTypes,
           NEW id \in Nat
    PROVE  DatabaseGood(Appended(d, type, id)) /\ IsPrefix(d.audit, Appended(d, type, id).audit)
<1> DEFINE event == [at |-> time, type |-> type, id |-> id, packages |-> d.packages]
           e == Appended(d, type, id)
<1>1. /\ d \in Databases /\ event \in Events
      /\ d.audit \in Seq(Events) /\ d.packages \subseteq Packages
  BY DEF DatabaseGood, Databases, Events
<1>2. /\ e \in Databases /\ e.audit = Append(d.audit, event)
      /\ e.packages = d.packages /\ e.handoffs = d.handoffs /\ e.drilled = d.drilled
  BY <1>1, AppendFacts DEF Appended, Databases
<1>3. event.type \notin VerdictTypes /\ event.packages = d.packages
  OBVIOUS
<1> HIDE DEF event, e
<1>4. /\ DOMAIN e.audit = 1..(Len(d.audit) + 1) /\ DOMAIN d.audit = 1..Len(d.audit)
      /\ Len(d.audit) \in Nat
      /\ e.audit[Len(d.audit) + 1] = event
      /\ \A i \in DOMAIN d.audit : e.audit[i] = d.audit[i]
  BY <1>1, <1>2, AppendFacts, SeqFacts
<1>5. \A i \in DOMAIN e.audit : i \in DOMAIN d.audit \/ e.audit[i] = event
  BY <1>4
<1>6. \A i \in DOMAIN e.audit : e.audit[i].packages \subseteq e.packages
  BY <1>2, <1>3, <1>4, <1>5 DEF DatabaseGood
<1>7. \A i \in DOMAIN e.audit :
         e.audit[i].type \in VerdictTypes => e.audit[i].id \in DOMAIN e.handoffs
  BY <1>2, <1>3, <1>4, <1>5 DEF DatabaseGood
<1>8. ASSUME NEW other \in DOMAIN e.handoffs
      PROVE  VerdictStands(other, e)
  <2>1. VerdictsOn(other, e) = VerdictsOn(other, d)
    BY <1>3, <1>4, <1>5 DEF VerdictsOn, VerdictTypes
  <2>2. VerdictStands(other, d)
    BY <1>2, <1>8 DEF DatabaseGood
  <2>3. \A i \in VerdictsOn(other, d) : e.audit[i] = d.audit[i]
    BY <1>4 DEF VerdictsOn
  <2> QED BY <1>2, <2>1, <2>2, <2>3 DEF VerdictStands
<1>9. IsPrefix(d.audit, e.audit)
  BY <1>1, <1>2, PrefixFacts, PrefixGrows, SeqFacts
<1> QED BY <1>2, <1>6, <1>7, <1>8, <1>9 DEF DatabaseGood, e

\* A verdict on a handoff takes effect if it is the first.
LEMMA VerdictIsGood ==
    ASSUME DatabaseGood(db), time \in Nat, NEW id \in DOMAIN db.handoffs,
           NEW verdict \in VerdictTypes
    PROVE  LET e == Appended(MarkedBy(id, verdict), verdict, id)
           IN  /\ DatabaseGood(e) /\ IsPrefix(db.audit, e.audit)
               /\ DOMAIN e.handoffs = DOMAIN db.handoffs
<1> DEFINE marked == MarkedBy(id, verdict)
           event == [at |-> time, type |-> verdict, id |-> id, packages |-> db.packages]
           e == Appended(marked, verdict, id)
<1>1. /\ db \in Databases /\ db.handoffs \in Handoffs
      /\ db.audit \in Seq(Events) /\ db.packages \subseteq Packages
      /\ id \in Nat
  BY HandoffFacts DEF DatabaseGood, Databases
<1>2. /\ marked.packages = db.packages /\ marked.audit = db.audit /\ marked.drilled = db.drilled
      /\ marked \in Databases
      /\ DOMAIN marked.handoffs = DOMAIN db.handoffs
      /\ \A other \in DOMAIN db.handoffs : other # id => marked.handoffs[other] = db.handoffs[other]
      /\ db.handoffs[id] = "RECEIVED" => marked.handoffs[id] = verdict
      /\ db.handoffs[id] # "RECEIVED" => marked.handoffs[id] = db.handoffs[id]
  <2>1. CASE Status(id) = "RECEIVED"
    <3>1. marked = [db EXCEPT !.handoffs = [@ EXCEPT ![id] = verdict]]
      BY <2>1 DEF MarkedBy
    <3> DEFINE h == [db.handoffs EXCEPT ![id] = verdict]
    <3>2. /\ DOMAIN h = DOMAIN db.handoffs /\ h[id] = verdict
          /\ \A other \in DOMAIN db.handoffs : other # id => h[other] = db.handoffs[other]
          /\ h \in Handoffs
      BY <1>1, HandoffFacts DEF Handoffs
    <3> HIDE DEF h
    <3>3. marked = [db EXCEPT !.handoffs = h]
      BY <3>1 DEF h
    <3> HIDE DEF marked
    <3>4. db.handoffs[id] = "RECEIVED"
      BY <2>1 DEF Status
    <3> QED BY <1>1, <3>2, <3>3, <3>4 DEF Databases
  <2>2. CASE Status(id) # "RECEIVED"
    BY <1>1, <2>2 DEF MarkedBy, Status
  <2> QED BY <2>1, <2>2
<1>3. event \in Events /\ event.type = verdict /\ event.id = id /\ event.packages = db.packages
  BY <1>1 DEF Events, EventTypes
<1>4. /\ e \in Databases /\ e.audit = Append(db.audit, event)
      /\ e.packages = db.packages /\ e.handoffs = marked.handoffs /\ e.drilled = db.drilled
  <2> HIDE DEF marked
  <2>1. e = [marked EXCEPT !.audit = Append(db.audit, event)]
    BY <1>2 DEF Appended, Databases
  <2> HIDE DEF event
  <2>2. Append(db.audit, event) \in Seq(Events)
    BY <1>1, <1>3, AppendFacts
  <2> QED BY <1>2, <2>1, <2>2 DEF Databases
<1> HIDE DEF event, e, marked
<1>5. /\ DOMAIN e.audit = 1..(Len(db.audit) + 1) /\ DOMAIN db.audit = 1..Len(db.audit)
      /\ Len(db.audit) \in Nat
      /\ e.audit[Len(db.audit) + 1] = event
      /\ \A i \in DOMAIN db.audit : e.audit[i] = db.audit[i]
  BY <1>1, <1>3, <1>4, AppendFacts, SeqFacts
<1>6. \A i \in DOMAIN e.audit : i \in DOMAIN db.audit \/ (i = Len(db.audit) + 1 /\ e.audit[i] = event)
  BY <1>5
<1>7. \A i \in DOMAIN e.audit : e.audit[i].packages \subseteq e.packages
  BY <1>3, <1>4, <1>5, <1>6 DEF DatabaseGood
<1>8. \A i \in DOMAIN e.audit :
         e.audit[i].type \in VerdictTypes => e.audit[i].id \in DOMAIN e.handoffs
  BY <1>2, <1>3, <1>4, <1>5, <1>6 DEF DatabaseGood
<1>9. ASSUME NEW other \in DOMAIN e.handoffs
      PROVE  VerdictStands(other, e)
  <2>1. VerdictStands(other, db) /\ other \in DOMAIN db.handoffs
    BY <1>2, <1>4, <1>9 DEF DatabaseGood
  <2>2. \A i \in VerdictsOn(other, db) : i \in 1..Len(db.audit) /\ e.audit[i] = db.audit[i]
    BY <1>5 DEF VerdictsOn
  <2>3. CASE other # id
    <3>1. VerdictsOn(other, e) = VerdictsOn(other, db)
      BY <1>3, <1>5, <1>6, <2>3 DEF VerdictsOn
    <3> QED BY <1>2, <1>4, <2>1, <2>2, <2>3, <3>1 DEF VerdictStands
  <2>4. CASE other = id
    <3>1. VerdictsOn(id, e) = VerdictsOn(id, db) \cup {Len(db.audit) + 1}
      BY <1>3, <1>5, <1>6 DEF VerdictsOn, VerdictTypes
    <3>2. CASE VerdictsOn(id, db) = {}
      <4>1. db.handoffs[id] = "RECEIVED"
        BY <2>1, <2>4, <3>2 DEF VerdictStands
      <4>2. e.handoffs[id] = e.audit[Len(db.audit) + 1].type
        BY <1>2, <1>3, <1>4, <1>5, <4>1
      <4>3. VerdictsOn(id, e) = {Len(db.audit) + 1}
        BY <3>1, <3>2
      <4> QED BY <1>5, <2>4, <4>2, <4>3 DEF VerdictStands
    <3>3. CASE VerdictsOn(id, db) # {}
      <4>1. PICK first \in VerdictsOn(id, db) :
              /\ \A i \in VerdictsOn(id, db) : first <= i
              /\ db.handoffs[id] = db.audit[first].type
        BY <2>1, <2>4, <3>3 DEF VerdictStands
      <4>2. /\ first \in 1..Len(db.audit) /\ e.audit[first] = db.audit[first]
            /\ db.audit[first].type \in {"VERIFIED", "REJECTED"}
        BY <2>2, <2>4, <4>1 DEF VerdictsOn
      <4>3. db.handoffs[id] # "RECEIVED"
        BY <4>1, <4>2
      <4>4. e.handoffs[id] = e.audit[first].type
        BY <1>2, <1>4, <4>1, <4>2, <4>3
      <4>5. \A i \in VerdictsOn(id, e) : first <= i
        <5>1. \A i \in VerdictsOn(id, e) : i \in VerdictsOn(id, db) \/ i = Len(db.audit) + 1
          BY <3>1
        <5>2. first <= Len(db.audit) + 1
          BY <1>5, <4>2
        <5> QED BY <4>1, <5>1, <5>2
      <4>6. first \in VerdictsOn(id, e)
        BY <3>1, <4>1
      <4> QED BY <2>4, <4>4, <4>5, <4>6 DEF VerdictStands
    <3> QED BY <3>2, <3>3
  <2> QED BY <2>3, <2>4
<1>10. \A other \in e.drilled : other \in DOMAIN e.handoffs /\ e.handoffs[other] = "VERIFIED"
  BY <1>2, <1>4 DEF DatabaseGood
<1>11. IsPrefix(db.audit, e.audit)
  BY <1>1, <1>3, <1>4, PrefixReflexive, PrefixGrows
<1>12. DatabaseGood(e)
  BY <1>4, <1>7, <1>8, <1>9, <1>10 DEF DatabaseGood
<1> QED BY <1>2, <1>4, <1>11, <1>12 DEF e, marked

\* A handoff of which the audit chain knows no verdict.
LEMMA ReceivedIsGood ==
    ASSUME DatabaseGood(db), NEW id \in Nat, Status(id) = "NONE"
    PROVE  LET d == [db EXCEPT !.handoffs = Put(@, id, "RECEIVED")]
           IN  /\ DatabaseGood(d) /\ d.audit = db.audit
               /\ DOMAIN db.handoffs \subseteq DOMAIN d.handoffs
<1> DEFINE h == Put(db.handoffs, id, "RECEIVED")
           d == [db EXCEPT !.handoffs = h]
<1>1. /\ db \in Databases /\ db.handoffs \in Handoffs
  BY DEF DatabaseGood, Databases
<1>2. id \notin DOMAIN db.handoffs
  BY <1>1, HandoffFacts DEF Status, VerdictTypes
<1>3. /\ DOMAIN h = {id} \cup DOMAIN db.handoffs /\ h[id] = "RECEIVED"
      /\ \A other \in DOMAIN db.handoffs : h[other] = db.handoffs[other]
      /\ h = [other \in DOMAIN h |-> h[other]]
  BY <1>2 DEF Put
<1>4. h \in Handoffs
  <2> HIDE DEF h
  <2>1. \A other \in DOMAIN h : h[other] \in {"RECEIVED"} \cup VerdictTypes
    BY <1>1, <1>3, HandoffFacts
  <2>2. DOMAIN h \in SUBSET Nat
    BY <1>1, <1>3, HandoffFacts
  <2>3. h \in [DOMAIN h -> {"RECEIVED"} \cup VerdictTypes]
    BY <1>3, <2>1
  <2> QED BY <2>2, <2>3 DEF Handoffs
<1> HIDE DEF h
<1>5. /\ d \in Databases /\ d.handoffs = h /\ d.audit = db.audit
      /\ d.packages = db.packages /\ d.drilled = db.drilled
  BY <1>1, <1>4 DEF Databases
<1> HIDE DEF d
<1>6. ASSUME NEW other \in DOMAIN d.handoffs
      PROVE  VerdictStands(other, d)
  <2>1. VerdictsOn(other, d) = VerdictsOn(other, db)
    BY <1>5 DEF VerdictsOn
  <2>2. CASE other = id
    <3>1. VerdictsOn(id, db) = {}
      BY <1>2 DEF DatabaseGood, VerdictsOn, VerdictTypes
    <3> QED BY <1>3, <1>5, <2>1, <2>2, <3>1 DEF VerdictStands
  <2>3. CASE other # id
    <3>1. VerdictStands(other, db) /\ d.handoffs[other] = db.handoffs[other]
      BY <1>3, <1>5, <1>6, <2>3 DEF DatabaseGood
    <3> QED BY <1>5, <2>1, <3>1 DEF VerdictStands
  <2> QED BY <2>2, <2>3
<1>7. DatabaseGood(d)
  BY <1>3, <1>5, <1>6 DEF DatabaseGood
<1>8. DOMAIN db.handoffs \subseteq DOMAIN d.handoffs
  BY <1>3, <1>5
<1> QED BY <1>5, <1>7, <1>8 DEF d, h

\* A column that the audit chain and the handoffs do not depend on.
LEMMA ColumnIsGood ==
    ASSUME NEW e, DatabaseGood(db), e \in Databases, e.audit = db.audit, e.handoffs = db.handoffs,
           db.packages \subseteq e.packages,
           \A id \in e.drilled : id \in DOMAIN db.handoffs /\ db.handoffs[id] = "VERIFIED"
    PROVE  DatabaseGood(e)
BY DEF DatabaseGood, VerdictStands, VerdictsOn

-----------------------------------------------------------------------------
(* Steps                                                                   *)

LEMMA TimeFacts ==
    ASSUME AuditInv
    PROVE  /\ time \in Nat /\ MaxTime \in Nat /\ KeepLatest \in Nat
           /\ Timed => time' = time + 1 /\ time' \in 1..MaxTime
BY BackupAssumption DEF AuditInv, Timed

\* A database that goes on is what backup and verifiers have begun with.
LEMMA DatabaseStep ==
    ASSUME AuditInv, DatabaseGood(db)', IsPrefix(db.audit, db'.audit),
           DOMAIN db.handoffs \subseteq DOMAIN db'.handoffs,
           UNCHANGED time \/ Timed, UNCHANGED <<anchors, files, backup, candidates, made, restoredTo>>,
           \/ UNCHANGED verifying
           \/ \E v \in Verifiers : verifying' = [verifying EXCEPT ![v] = Idle]
    PROVE  AuditInv'
<1>1. db.audit \in Seq(Events) /\ db'.audit \in Seq(Events)
  BY DEF AuditInv, DatabaseGood, Databases
<1>2. time' \in 1..MaxTime
  BY TimeFacts DEF AuditInv
<1>3. BackupOK'
  <2>1. CASE backup = Idle
    BY <2>1 DEF BackupOK
  <2>2. CASE backup # Idle
    <3>1. backup \in [pc : {"Check", "Vacuum"}, head : Seq(Events)] /\ IsPrefix(backup.head, db.audit)
      BY <2>2 DEF AuditInv, BackupOK
    <3>2. backup.head \in Seq(Events)
      BY <3>1
    <3>3. IsPrefix(backup.head, db'.audit)
      BY <1>1, <3>1, <3>2, PrefixTransitive
    <3> QED BY <3>1, <3>3 DEF BackupOK
  <2> QED BY <2>1, <2>2
<1>4. VerifyingOK'
  <2>1. CASE UNCHANGED verifying
    BY <2>1 DEF AuditInv, VerifyingOK, Idle
  <2>2. ASSUME NEW v \in Verifiers, verifying' = [verifying EXCEPT ![v] = Idle]
        PROVE  VerifyingOK'
    BY <2>2 DEF AuditInv, VerifyingOK, Idle
  <2> QED BY <2>1, <2>2
<1>5. KeptOK'
  BY DEF AuditInv, KeptOK, Newer
<1>6. restoredTo'.given => restoredTo'.chain \in Seq(Events) /\ IsPrefix(restoredTo'.chain, db'.audit)
  BY <1>1, PrefixTransitive DEF AuditInv
<1>7. files' = [id \in DOMAIN files' |-> files'[id]] /\ \A id \in DOMAIN files' : FileGood(files[id])'
  BY DEF AuditInv, FileGood, DatabaseGood, VerdictStands, VerdictsOn
<1>8. anchors' \subseteq Seq(Events)
  BY DEF AuditInv
<1> QED BY <1>2, <1>3, <1>4, <1>5, <1>6, <1>7, <1>8 DEF AuditInv

\* The same for the commands that write an event.
LEMMA EventStep ==
    ASSUME AuditInv, NEW d, DatabaseGood(d), d.audit = db.audit,
           DOMAIN db.handoffs \subseteq DOMAIN d.handoffs,
           NEW type \in EventTypes \ VerdictTypes, NEW id \in Nat,
           db' = Appended(d, type, id), Timed,
           UNCHANGED <<anchors, files, backup, verifying, candidates, made, restoredTo>>
    PROVE  AuditInv'
<1> DEFINE e == Appended(d, type, id)
<1>1. DatabaseGood(e) /\ IsPrefix(d.audit, e.audit)
  BY EventIsGood, TimeFacts
<1>2. e.handoffs = d.handoffs
  BY DEF Appended, DatabaseGood, Databases
<1> HIDE DEF e
<1>3. db' = e /\ DatabaseGood(db)'
  BY <1>1 DEF e, DatabaseGood, VerdictStands, VerdictsOn
<1> QED BY <1>1, <1>2, <1>3, DatabaseStep

\* What leaves the database alone.
LEMMA QuietStep ==
    ASSUME AuditInv, UNCHANGED db, time' \in 1..MaxTime, anchors' \subseteq Seq(Events),
           files' = [id \in DOMAIN files' |-> files'[id]],
           \A id \in DOMAIN files' : FileGood(files'[id]),
           BackupOK', VerifyingOK', KeptOK', UNCHANGED restoredTo
    PROVE  AuditInv'
<1>1. DatabaseGood(db)'
  BY DEF AuditInv, DatabaseGood, VerdictStands, VerdictsOn
<1>2. \A id \in DOMAIN files' : FileGood(files[id])'
  BY DEF FileGood, DatabaseGood, VerdictStands, VerdictsOn
<1> QED BY <1>1, <1>2 DEF AuditInv

\* Every part stays if what it speaks of does.
LEMMA PartsStay ==
    ASSUME AuditInv, UNCHANGED db
    PROVE  /\ UNCHANGED time => time' \in 1..MaxTime
           /\ UNCHANGED anchors => anchors' \subseteq Seq(Events)
           /\ UNCHANGED files => /\ files' = [id \in DOMAIN files' |-> files'[id]]
                                 /\ \A id \in DOMAIN files' : FileGood(files'[id])
           /\ UNCHANGED backup => BackupOK'
           /\ UNCHANGED verifying => VerifyingOK'
           /\ UNCHANGED <<made, files, candidates>> => KeptOK'
BY DEF AuditInv, BackupOK, VerifyingOK, KeptOK, Newer, Idle

LEMMA TypeFacts ==
    /\ {"EXECUTION", "RECEIVED", "DRILL"} = EventTypes \ VerdictTypes
BY DEF EventTypes, VerdictTypes

\* Only ever more backups are made, so what is beyond the newest stays so.
LEMMA NewerGrows ==
    ASSUME NEW ids \in SUBSET (1..MaxTime), NEW more \in SUBSET (1..MaxTime), ids \subseteq more,
           NEW id, Cardinality(Newer(id, ids)) >= KeepLatest
    PROVE  Cardinality(Newer(id, more)) >= KeepLatest
<1>1. MaxTime \in Int /\ KeepLatest \in Nat
  BY BackupAssumption
<1>2. IsFiniteSet(1..MaxTime)
  BY <1>1, FS_Interval
<1>3. Newer(id, more) \subseteq 1..MaxTime /\ Newer(id, ids) \subseteq Newer(id, more)
  BY DEF Newer
<1>4. IsFiniteSet(Newer(id, more)) /\ IsFiniteSet(Newer(id, ids))
  BY <1>2, <1>3, FS_Subset
<1>5. Cardinality(Newer(id, ids)) <= Cardinality(Newer(id, more))
  BY <1>3, <1>4, FS_Subset
<1>6. Cardinality(Newer(id, ids)) \in Nat /\ Cardinality(Newer(id, more)) \in Nat
  BY <1>4, FS_CardinalityType
<1> QED BY <1>1, <1>5, <1>6

LEMMA FileFacts ==
    ASSUME AuditInv, NEW id \in DOMAIN files
    PROVE  /\ id \in Nat /\ files[id] \in Artifacts /\ DatabaseGood(files[id].content)
           /\ files[id].content \in Databases /\ files[id].content.audit \in Seq(Events)
           /\ files[id].head \in Seq(Events) /\ IsPrefix(files[id].head, files[id].content.audit)
<1>1. id \in 1..MaxTime
  BY DEF AuditInv, KeptOK
<1>2. FileGood(files[id])
  BY DEF AuditInv
<1> QED BY <1>1, <1>2 DEF FileGood, Artifacts, Databases

LEMMA AuditFacts ==
    ASSUME AuditInv
    PROVE  /\ db \in Databases /\ db.audit \in Seq(Events) /\ db.packages \subseteq Packages
           /\ db.handoffs \in Handoffs /\ db.drilled \subseteq Nat
           /\ DOMAIN db.handoffs \subseteq Nat
BY HandoffFacts DEF AuditInv, DatabaseGood, Databases

\* Packages, events and anchors.
LEMMA TowerStep ==
    ASSUME AuditInv, (\E p \in Packages : AcceptPackage(p)) \/ Authorize \/ CreateAnchor
    PROVE  AuditInv'
<1>1. ASSUME NEW p \in Packages, AcceptPackage(p)
      PROVE  AuditInv'
  <2> DEFINE e == [db EXCEPT !.packages = @ \cup {p}]
  <2>1. /\ e \in Databases /\ e.packages = db.packages \cup {p} /\ e.audit = db.audit
        /\ e.handoffs = db.handoffs /\ e.drilled = db.drilled
    BY AuditFacts DEF Databases
  <2>2. db' = e /\ UNCHANGED <<time, anchors, files, backup, verifying, candidates, made, restoredTo>>
    BY <1>1 DEF AcceptPackage
  <2> HIDE DEF e
  <2>3. DatabaseGood(e)
    BY <2>1, ColumnIsGood DEF AuditInv, DatabaseGood
  <2>4. DatabaseGood(db)'
    BY <2>2, <2>3 DEF DatabaseGood, VerdictStands, VerdictsOn
  <2>5. IsPrefix(db.audit, db'.audit)
    BY <2>1, <2>2, AuditFacts, PrefixReflexive
  <2> QED BY <2>1, <2>2, <2>4, <2>5, DatabaseStep
<1>2. CASE Authorize
  <2>1. /\ db' = Appended(db, "EXECUTION", 0) /\ Timed /\ DatabaseGood(db)
        /\ UNCHANGED <<anchors, files, backup, verifying, candidates, made, restoredTo>>
    BY <1>2 DEF Authorize, AuditInv
  <2>2. "EXECUTION" \in EventTypes \ VerdictTypes
    BY TypeFacts
  <2> QED BY <2>1, <2>2, EventStep
<1>3. CASE CreateAnchor
  <2>1. /\ anchors' = anchors \cup {db.audit}
        /\ UNCHANGED <<db, time, files, backup, verifying, candidates, made, restoredTo>>
    BY <1>3 DEF CreateAnchor
  <2>2. anchors' \subseteq Seq(Events)
    BY <2>1, AuditFacts DEF AuditInv
  <2> QED BY <2>1, <2>2, PartsStay, QuietStep
<1> QED BY <1>1, <1>2, <1>3

\* Making a backup.
LEMMA BackupStep ==
    ASSUME AuditInv,
           BackupReads \/ BackupVacuums \/ BackupEnds \/ (\E anchor \in Anchors : BackupChecks(anchor))
    PROVE  AuditInv'
<1>1. CASE BackupReads
  <2>1. /\ backup' = [pc |-> "Check", head |-> db.audit]
        /\ UNCHANGED <<db, time, anchors, files, verifying, candidates, made, restoredTo>>
    BY <1>1 DEF BackupReads
  <2>2. BackupOK'
    BY <2>1, AuditFacts, PrefixReflexive DEF BackupOK
  <2> QED BY <2>1, <2>2, PartsStay, QuietStep
<1>2. ASSUME NEW anchor \in Anchors, BackupChecks(anchor)
      PROVE  AuditInv'
  <2>1. /\ backup.pc = "Check" /\ backup' = [backup EXCEPT !.pc = "Vacuum"]
        /\ UNCHANGED <<db, time, anchors, files, verifying, candidates, made, restoredTo>>
    BY <1>2 DEF BackupChecks
  <2>2. backup \in [pc : {"Check", "Vacuum"}, head : Seq(Events)] /\ IsPrefix(backup.head, db.audit)
    BY <2>1 DEF AuditInv, BackupOK, Idle
  <2>3. backup' \in [pc : {"Check", "Vacuum"}, head : Seq(Events)] /\ backup'.head = backup.head
    BY <2>1, <2>2
  <2>4. BackupOK'
    BY <2>1, <2>2, <2>3 DEF BackupOK
  <2> QED BY <2>1, <2>4, PartsStay, QuietStep
<1>3. CASE BackupVacuums
  <2> DEFINE file == Artifact(backup.head)
  <2>1. /\ backup.pc = "Vacuum" /\ backup' = Idle /\ Timed
        /\ files' = Put(files, time, file) /\ made' = made \cup {time}
        /\ UNCHANGED <<db, anchors, verifying, candidates, restoredTo>>
    BY <1>3 DEF BackupVacuums
  <2>2. backup.head \in Seq(Events) /\ IsPrefix(backup.head, db.audit)
    BY <2>1 DEF AuditInv, BackupOK, Idle
  <2>3. FileGood(file)
    <3>1. /\ file \in Artifacts /\ file.content = db /\ file.head = backup.head
      BY <2>2, AuditFacts DEF Artifact, Artifacts
    <3> HIDE DEF file
    <3> QED BY <2>2, <3>1 DEF FileGood, AuditInv
  <2> HIDE DEF file
  <2>4. /\ files' = [id \in DOMAIN files' |-> files'[id]]
        /\ DOMAIN files' = DOMAIN files \cup {time}
        /\ files'[time] = file /\ \A id \in DOMAIN files : id # time => files'[id] = files[id]
    BY <2>1 DEF Put
  <2>5. \A id \in DOMAIN files' : FileGood(files'[id])
    BY <2>3, <2>4 DEF AuditInv
  <2>6. time' \in 1..MaxTime /\ time \in 1..MaxTime
    BY <2>1, TimeFacts DEF AuditInv
  <2>7. KeptOK'
    <3>1. made' \subseteq 1..MaxTime /\ made \subseteq made' /\ DOMAIN files' \subseteq made'
      BY <2>1, <2>4, <2>6 DEF AuditInv, KeptOK
    <3>2. \A id \in candidates \cup (made \ DOMAIN files) : Cardinality(Newer(id, made')) >= KeepLatest
      BY <3>1, NewerGrows DEF AuditInv, KeptOK
    <3>3. candidates' \cup (made' \ DOMAIN files') \subseteq candidates \cup (made \ DOMAIN files)
      BY <2>1, <2>4
    <3>4. candidates' \subseteq made'
      BY <2>1 DEF AuditInv, KeptOK
    <3> QED BY <3>1, <3>2, <3>3, <3>4 DEF KeptOK, Newer
  <2>8. BackupOK'
    BY <2>1 DEF BackupOK, Idle
  <2> QED BY <2>1, <2>4, <2>5, <2>6, <2>7, <2>8, PartsStay, QuietStep
<1>4. CASE BackupEnds
  <2>1. backup' = Idle /\ UNCHANGED <<db, time, anchors, files, verifying, candidates, made, restoredTo>>
    BY <1>4 DEF BackupEnds
  <2>2. BackupOK'
    BY <2>1 DEF BackupOK, Idle
  <2> QED BY <2>1, <2>2, PartsStay, QuietStep
<1> QED BY <1>1, <1>2, <1>3, <1>4

\* What decays, is removed or is listed for removal.
LEMMA FileStep ==
    ASSUME AuditInv,
           (\E id \in DOMAIN files : Decay(id) \/ RemoveCandidate(id)) \/ ListCandidates
    PROVE  AuditInv'
<1>1. ASSUME NEW id \in DOMAIN files, Decay(id)
      PROVE  AuditInv'
  <2>1. /\ files' = [files EXCEPT ![id].decayed = TRUE]
        /\ UNCHANGED <<db, time, anchors, backup, verifying, candidates, made, restoredTo>>
    BY <1>1 DEF Decay
  <2>2. files = [other \in DOMAIN files |-> files[other]]
    BY DEF AuditInv
  <2>3. /\ DOMAIN files' = DOMAIN files /\ files' = [other \in DOMAIN files' |-> files'[other]]
        /\ files'[id] = [files[id] EXCEPT !.decayed = TRUE]
        /\ \A other \in DOMAIN files : other # id => files'[other] = files[other]
    BY <2>1, <2>2
  <2>4. FileGood(files'[id])
    <3> DEFINE file == [files[id] EXCEPT !.decayed = TRUE]
    <3>1. file \in Artifacts /\ file.content = files[id].content /\ file.head = files[id].head
      BY FileFacts DEF Artifacts
    <3> HIDE DEF file
    <3>2. FileGood(file)
      BY <3>1, FileFacts DEF FileGood
    <3> QED BY <2>3, <3>2 DEF file
  <2>5. \A other \in DOMAIN files' : FileGood(files'[other])
    BY <2>3, <2>4 DEF AuditInv
  <2>6. KeptOK'
    BY <2>1, <2>3 DEF AuditInv, KeptOK, Newer
  <2> QED BY <2>1, <2>3, <2>5, <2>6, PartsStay, QuietStep
<1>2. ASSUME NEW id \in DOMAIN files, RemoveCandidate(id)
      PROVE  AuditInv'
  <2>1. /\ id \in candidates
        /\ files' = [other \in DOMAIN files \ {id} |-> files[other]]
        /\ UNCHANGED <<db, time, anchors, backup, verifying, candidates, made, restoredTo>>
    BY <1>2 DEF RemoveCandidate
  <2>2. /\ DOMAIN files' = DOMAIN files \ {id} /\ files' = [other \in DOMAIN files' |-> files'[other]]
        /\ \A other \in DOMAIN files' : files'[other] = files[other]
    BY <2>1
  <2>3. \A other \in DOMAIN files' : FileGood(files'[other])
    BY <2>2 DEF AuditInv
  <2>4. KeptOK'
    BY <2>1, <2>2 DEF AuditInv, KeptOK, Newer
  <2> QED BY <2>1, <2>2, <2>3, <2>4, PartsStay, QuietStep
<1>3. CASE ListCandidates
  <2>1. /\ candidates' = BeyondLatest(DOMAIN files) \cap db.drilled
        /\ UNCHANGED <<db, time, anchors, files, backup, verifying, made, restoredTo>>
    BY <1>3 DEF ListCandidates
  <2>2. ASSUME NEW id \in candidates'
        PROVE  id \in made /\ Cardinality(Newer(id, made)) >= KeepLatest
    <3>1. id \in DOMAIN files /\ Cardinality(Newer(id, DOMAIN files)) >= KeepLatest
      BY <2>1, <2>2 DEF BeyondLatest, Newer
    <3>2. made \subseteq 1..MaxTime /\ DOMAIN files \subseteq made
      BY DEF AuditInv, KeptOK
    <3> QED BY <3>1, <3>2, NewerGrows
  <2>3. KeptOK'
    BY <2>1, <2>2 DEF AuditInv, KeptOK, Newer
  <2> QED BY <2>1, <2>3, PartsStay, QuietStep
<1> QED BY <1>1, <1>2, <1>3

\* What passes an anchor has the anchored events.
LEMMA RestoreStep ==
    ASSUME AuditInv, NEW id \in DOMAIN files, NEW anchor \in Anchors, Restore(id, anchor)
    PROVE  AuditInv'
<1> DEFINE content == files[id].content
<1>1. /\ db' = content /\ backup' = Idle /\ verifying' = [v \in Verifiers |-> Idle]
      /\ restoredTo' = anchor /\ UNCHANGED <<time, anchors, files, candidates, made>>
      /\ Passes(content.audit, anchor)
  BY DEF Restore, Restorable
<1>2. DatabaseGood(content) /\ content.audit \in Seq(Events)
  BY FileFacts
<1> HIDE DEF content
<1>3. DatabaseGood(db)'
  BY <1>1, <1>2 DEF DatabaseGood, VerdictStands, VerdictsOn
<1>4. restoredTo'.given => restoredTo'.chain \in Seq(Events) /\ IsPrefix(restoredTo'.chain, db'.audit)
  <2> SUFFICES ASSUME anchor.given
               PROVE  anchor.chain \in Seq(Events) /\ IsPrefix(anchor.chain, content.audit)
    BY <1>1
  <2>1. anchor.chain \in anchors
    BY DEF Anchors, NoAnchor
  <2>2. anchor.chain \in Seq(Events)
    BY <2>1 DEF AuditInv
  <2> QED BY <1>1, <1>2, <2>2, HeldAnchors DEF Passes
<1>5. BackupOK' /\ VerifyingOK'
  BY <1>1 DEF BackupOK, VerifyingOK, Idle
<1>6. KeptOK'
  BY <1>1 DEF AuditInv, KeptOK, Newer
<1>7. files' = [other \in DOMAIN files' |-> files'[other]] /\ \A other \in DOMAIN files' : FileGood(files[other])'
  BY <1>1 DEF AuditInv, FileGood, DatabaseGood, VerdictStands, VerdictsOn
<1>8. time' \in 1..MaxTime /\ anchors' \subseteq Seq(Events)
  BY <1>1 DEF AuditInv
<1> QED BY <1>3, <1>4, <1>5, <1>6, <1>7, <1>8 DEF AuditInv

\* Handoffs and drills.
LEMMA HandoffStep ==
    ASSUME AuditInv,
           \/ \E id \in DOMAIN files : RecordHandoff(id)
           \/ \E id \in DOMAIN db.handoffs, anchor \in Anchors : Drill(id, anchor)
    PROVE  AuditInv'
<1>1. ASSUME NEW id \in DOMAIN files, RecordHandoff(id)
      PROVE  AuditInv'
  <2> DEFINE d == [db EXCEPT !.handoffs = Put(@, id, "RECEIVED")]
  <2>1. /\ Status(id) = "NONE" /\ Timed /\ db' = Appended(d, "RECEIVED", id)
        /\ UNCHANGED <<anchors, files, backup, verifying, candidates, made, restoredTo>>
    BY <1>1 DEF RecordHandoff
  <2>2. id \in Nat /\ DatabaseGood(db)
    BY FileFacts DEF AuditInv
  <2>3. /\ DatabaseGood(d) /\ d.audit = db.audit /\ DOMAIN db.handoffs \subseteq DOMAIN d.handoffs
    BY <2>1, <2>2, ReceivedIsGood
  <2>4. "RECEIVED" \in EventTypes \ VerdictTypes
    BY TypeFacts
  <2> HIDE DEF d
  <2> QED BY <2>1, <2>2, <2>3, <2>4, EventStep
<1>2. ASSUME NEW id \in DOMAIN db.handoffs, NEW anchor \in Anchors, Drill(id, anchor)
      PROVE  AuditInv'
  <2> DEFINE drilled == [db EXCEPT !.drilled = @ \cup {id}]
             d == IF Restorable(id, anchor) THEN drilled ELSE db
  <2>1. /\ Drillable(id) /\ Timed /\ db' = Appended(d, "DRILL", id)
        /\ UNCHANGED <<anchors, files, backup, verifying, candidates, made, restoredTo>>
    BY <1>2 DEF Drill
  <2>2. id \in Nat /\ db.handoffs[id] = "VERIFIED" /\ DatabaseGood(db)
    BY <2>1, AuditFacts DEF Drillable, Status, AuditInv
  <2>3. /\ drilled \in Databases /\ drilled.packages = db.packages /\ drilled.audit = db.audit
        /\ drilled.handoffs = db.handoffs /\ drilled.drilled = db.drilled \cup {id}
    BY <2>2, AuditFacts DEF Databases
  <2> HIDE DEF drilled
  <2>4. DatabaseGood(drilled)
    BY <2>2, <2>3, ColumnIsGood DEF DatabaseGood
  <2>5. DatabaseGood(d) /\ d.audit = db.audit /\ d.handoffs = db.handoffs
    BY <2>2, <2>3, <2>4
  <2>6. "DRILL" \in EventTypes \ VerdictTypes
    BY TypeFacts
  <2> HIDE DEF d
  <2> QED BY <2>1, <2>2, <2>5, <2>6, EventStep
<1> QED BY <1>1, <1>2

\* A verifier's steps.
LEMMA VerifyStep ==
    ASSUME AuditInv, NEW v \in Verifiers,
           \/ RejectLooks(v) \/ VerifyWrites(v) \/ VerifyDies(v)
           \/ \E id \in DOMAIN db.handoffs, anchor \in Anchors : VerifyReads(v, id, anchor)
    PROVE  AuditInv'
<1>1. ASSUME NEW id \in DOMAIN db.handoffs, NEW anchor \in Anchors, VerifyReads(v, id, anchor)
      PROVE  AuditInv'
  <2>1. UNCHANGED <<db, time, anchors, files, backup, candidates, made, restoredTo>>
    BY <1>1 DEF VerifyReads
  <2>2. \E job \in Jobs : job.id = id /\ verifying' = [verifying EXCEPT ![v] = job]
    <3>1. id \in Nat
      BY AuditFacts
    <3>2. /\ [pc |-> "Write", id |-> id, verdict |-> "VERIFIED"] \in Jobs
          /\ [pc |-> "Look", id |-> id, verdict |-> "REJECTED"] \in Jobs
      BY <3>1 DEF Jobs, VerdictTypes
    <3> QED BY <1>1, <3>2 DEF VerifyReads
  <2>3. VerifyingOK'
    BY <2>1, <2>2 DEF AuditInv, VerifyingOK, Idle
  <2> QED BY <2>1, <2>3, PartsStay, QuietStep
<1>2. CASE RejectLooks(v)
  <2>1. /\ UNCHANGED <<db, time, anchors, files, backup, candidates, made, restoredTo>>
        /\ verifying[v].pc = "Look"
        /\ \/ verifying' = [verifying EXCEPT ![v] = Idle]
           \/ verifying' = [verifying EXCEPT ![v] = [verifying[v] EXCEPT !.pc = "Write"]]
    BY <1>2 DEF RejectLooks, AuditInv, VerifyingOK
  <2>2. verifying[v] \in Jobs /\ verifying[v].id \in DOMAIN db.handoffs
    BY <2>1 DEF AuditInv, VerifyingOK, Idle
  <2> DEFINE job == [verifying[v] EXCEPT !.pc = "Write"]
  <2>3. job \in Jobs /\ job.id = verifying[v].id
    BY <2>2 DEF Jobs
  <2> HIDE DEF job
  <2>4. VerifyingOK'
    <3>1. verifying' = [verifying EXCEPT ![v] = Idle] \/ verifying' = [verifying EXCEPT ![v] = job]
      BY <2>1 DEF job
    <3> QED BY <2>1, <2>2, <2>3, <3>1 DEF AuditInv, VerifyingOK, Idle
  <2> QED BY <2>1, <2>4, PartsStay, QuietStep
<1>3. CASE VerifyWrites(v)
  <2> DEFINE job == verifying[v]
             e == Appended(MarkedBy(job.id, job.verdict), job.verdict, job.id)
  <2>1. /\ job.pc = "Write" /\ Timed /\ db' = e
        /\ verifying' = [verifying EXCEPT ![v] = Idle]
        /\ UNCHANGED <<anchors, files, backup, candidates, made, restoredTo>>
    BY <1>3 DEF VerifyWrites
  <2>2. job \in Jobs /\ job.id \in DOMAIN db.handoffs
    BY <2>1 DEF AuditInv, VerifyingOK, Idle
  <2>3. job.verdict \in VerdictTypes /\ time \in Nat /\ DatabaseGood(db)
    BY <2>2, TimeFacts DEF Jobs, AuditInv
  <2>4. DatabaseGood(e) /\ IsPrefix(db.audit, e.audit) /\ DOMAIN e.handoffs = DOMAIN db.handoffs
    BY <2>2, <2>3, VerdictIsGood
  <2> HIDE DEF e
  <2>5. DatabaseGood(db)'
    BY <2>1, <2>4 DEF DatabaseGood, VerdictStands, VerdictsOn
  <2> QED BY <2>1, <2>4, <2>5, DatabaseStep
<1>4. CASE VerifyDies(v)
  <2>1. /\ UNCHANGED <<db, time, anchors, files, backup, candidates, made, restoredTo>>
        /\ verifying' = [verifying EXCEPT ![v] = Idle]
    BY <1>4 DEF VerifyDies
  <2>2. VerifyingOK'
    BY <2>1 DEF AuditInv, VerifyingOK, Idle
  <2> QED BY <2>1, <2>2, PartsStay, QuietStep
<1> QED BY <1>1, <1>2, <1>3, <1>4

LEMMA AuditStarts == Init => AuditInv
<1> SUFFICES ASSUME Init
             PROVE  AuditInv
  OBVIOUS
<1>1. /\ db = [packages |-> {}, audit |-> <<>>, handoffs |-> <<>>, drilled |-> {}]
      /\ time = 1 /\ anchors = {} /\ files = <<>> /\ backup = Idle
      /\ verifying = [v \in Verifiers |-> Idle] /\ candidates = {} /\ made = {}
      /\ restoredTo = NoAnchor
  BY DEF Init
<1>2. /\ db.packages = {} /\ db.audit = <<>> /\ db.handoffs = <<>> /\ db.drilled = {}
  BY <1>1
<1>3. DOMAIN db.audit = {} /\ DOMAIN db.handoffs = {} /\ DOMAIN files = {}
  BY <1>1, <1>2
<1>4. db \in Databases
  <2>1. <<>> \in Handoffs
    <3>1. <<>> \in [{} -> {"RECEIVED"} \cup VerdictTypes]
      OBVIOUS
    <3> QED BY <3>1 DEF Handoffs
  <2>2. <<>> \in Seq(Events)
    OBVIOUS
  <2> QED BY <1>1, <2>1, <2>2 DEF Databases
<1>5. DatabaseGood(db)
  BY <1>2, <1>3, <1>4 DEF DatabaseGood
<1>6. files = [id \in DOMAIN files |-> files[id]]
  BY <1>1
<1>7. time \in 1..MaxTime
  BY <1>1, BackupAssumption
<1>8. BackupOK /\ VerifyingOK /\ KeptOK
  BY <1>1, <1>3 DEF BackupOK, VerifyingOK, KeptOK
<1> QED BY <1>1, <1>3, <1>5, <1>6, <1>7, <1>8 DEF AuditInv, NoAnchor

LEMMA AuditStep == AuditInv /\ [Next]_vars => AuditInv'
<1> SUFFICES ASSUME AuditInv, [Next]_vars
             PROVE  AuditInv'
  OBVIOUS
<1>1. CASE UNCHANGED vars
  <2>1. UNCHANGED <<db, time, anchors, files, backup, verifying, candidates, made, restoredTo>>
    BY <1>1 DEF vars
  <2> QED BY <2>1, PartsStay, QuietStep
<1>2. CASE Next
  BY <1>2, TowerStep, BackupStep, FileStep, RestoreStep, HandoffStep, VerifyStep DEF Next
<1> QED BY <1>1, <1>2

-----------------------------------------------------------------------------
(* What follows                                                            *)

\* Database, backups, handoffs and verifiers stay as the invariant says,
\* whatever is restored, decays or dies.
THEOREM AuditInvariant == Spec => []AuditInv
<1>1. Init => AuditInv
  BY AuditStarts
<1>2. AuditInv /\ [Next]_vars => AuditInv'
  BY AuditStep
<1> QED BY <1>1, <1>2, PTL DEF Spec

\* Every table holds rows of its own kind, and only a verified backup passes a
\* drill.
THEOREM BackupTypeCorrect == Spec => []BackupTypeOK
<1>1. AuditInv => BackupTypeOK
  <2> SUFFICES ASSUME AuditInv
               PROVE  BackupTypeOK
    OBVIOUS
  <2>1. ASSUME NEW d, DatabaseGood(d)
        PROVE  DatabaseOK(d)
    <3>1. d.audit \in Seq(Events) /\ d.packages \subseteq Packages /\ d.handoffs \in Handoffs
      BY <2>1 DEF DatabaseGood, Databases
    <3>2. \A i \in DOMAIN d.audit : d.audit[i].type \in EventTypes
      BY <3>1, SeqFacts DEF Events
    <3>3. \A id \in DOMAIN d.handoffs : d.handoffs[id] \in {"RECEIVED"} \cup VerdictTypes
      BY <3>1, HandoffFacts
    <3> QED BY <2>1, <3>1, <3>2, <3>3 DEF DatabaseGood, DatabaseOK, EventTypes, VerdictTypes
  <2>2. DatabaseOK(db) /\ \A id \in DOMAIN files : DatabaseOK(files[id].content)
    BY <2>1, FileFacts DEF AuditInv
  <2>3. backup = Idle \/ backup.pc \in {"Check", "Vacuum"}
    BY DEF AuditInv, BackupOK
  <2>4. \A v \in Verifiers : verifying[v] = Idle \/ verifying[v].verdict \in {"VERIFIED", "REJECTED"}
    BY DEF AuditInv, VerifyingOK, Jobs, VerdictTypes
  <2> QED BY <2>2, <2>3, <2>4 DEF BackupTypeOK, AuditInv, KeptOK
<1> QED BY <1>1, AuditInvariant, PTL

\* A database restored under an anchor keeps the anchored events and the
\* packages the tower held at the last of them.
THEOREM AnchoredAlwaysKept == Spec => []AnchoredIsKept
<1>1. AuditInv => AnchoredIsKept
  <2> SUFFICES ASSUME AuditInv, restoredTo.given
               PROVE  /\ IsPrefix(restoredTo.chain, db.audit)
                      /\ restoredTo.chain # <<>> =>
                            Last(restoredTo.chain).packages \subseteq db.packages
    BY DEF AnchoredIsKept
  <2>1. restoredTo.chain \in Seq(Events) /\ IsPrefix(restoredTo.chain, db.audit)
    BY DEF AuditInv
  <2>2. ASSUME restoredTo.chain # <<>>
        PROVE  Last(restoredTo.chain).packages \subseteq db.packages
    <3> DEFINE n == Len(restoredTo.chain)
    <3>1. n \in Nat /\ n >= 1 /\ n <= Len(db.audit) /\ restoredTo.chain[n] = db.audit[n]
      BY <2>1, <2>2, AuditFacts, SeqFacts, PrefixFacts
    <3>2. n \in DOMAIN db.audit
      BY <3>1, AuditFacts, SeqFacts
    <3> QED BY <3>1, <3>2 DEF Last, AuditInv, DatabaseGood
  <2> QED BY <2>1, <2>2
<1> QED BY <1>1, AuditInvariant, PTL

\* A backup's file has all its manifest speaks of.
THEOREM ManifestsArePrefixes == Spec => []ManifestIsPrefix
<1>1. AuditInv => ManifestIsPrefix
  BY FileFacts DEF ManifestIsPrefix, DatabaseGood
<1> QED BY <1>1, AuditInvariant, PTL

\* The first verdict on a handoff is the one that stands.
THEOREM FirstVerdictsStand == Spec => []FirstVerdictStands
<1>1. AuditInv => FirstVerdictStands
  BY DEF AuditInv, DatabaseGood, FirstVerdictStands
<1> QED BY <1>1, AuditInvariant, PTL

\* The newest backups ever made are never removed.
THEOREM NewestAlwaysKept == Spec => []NewestAreKept
<1>1. AuditInv => NewestAreKept
  BY DEF AuditInv, KeptOK, Newer, NewestAreKept
<1> QED BY <1>1, AuditInvariant, PTL
=============================================================================
