------------------------------ MODULE AuditBackup ------------------------------
(***************************************************************************)
(* A watchtower's audit chain, its anchors and the backups of its          *)
(* database: watchtower-v3_6/src/audit.rs and backup.rs.                   *)
(*                                                                         *)
(* An audit event's hash covers the event before it, so a head hash stands *)
(* for the whole chain up to it; a file's hash stands for its content.     *)
(* Events have distinct times, and a backup_id is the backup's time.       *)
(* Anchors and backup files are kept outside the database, where files     *)
(* decay; a database that is lost is replaced by a restored one, on which  *)
(* the tower then goes on.  The commands run in processes of their own, so *)
(* others write between their statements.  What the API server writes to   *)
(* the chain, and how it accepts packages (PackageStore), is external      *)
(* here: AcceptPackage and Authorize stand for it.  The retention policy's *)
(* minimum age is left out: the operator removes what he likes of a list.  *)
(***************************************************************************)
EXTENDS Integers, Sequences, SequencesExt, FiniteSets

CONSTANTS
    Packages,   \* RecoveryPackages the tower may accept
    Verifiers,  \* processes that verify a backup handed over to the tower
    KeepLatest, \* BackupRetentionPolicy.keep_latest
    MaxTime,    \* bound: how many audit events and backups are timed
    MaxBackups, \* bound: how many backups are made
    MaxAnchors  \* bound: how many anchors are saved

\* backup_retention_candidates refuses to keep none.
ASSUME BackupAssumption ==
    KeepLatest \in Nat \ {0} /\ MaxTime \in Nat \ {0} /\ MaxBackups \in Nat /\ MaxAnchors \in Nat

VARIABLES
    db,         \* the database in service: packages, audit chain, handoffs, drills
    time,       \* unix time, as far as it tells events and backups apart
    anchors,    \* ExecutionAuditAnchors the operator saved
    files,      \* the backups: manifest and encrypted file of each backup_id
    backup,     \* create_encrypted_database_backup under way
    verifying,  \* verify_backup_artifact_handoff under way in each process
    candidates, \* the list of retention candidates the operator works through
    made,       \* history: every backup ever made
    restoredTo  \* history: the anchor the database was restored under, or none

vars == <<db, time, anchors, files, backup, verifying, candidates, made, restoredTo>>

Idle == [pc |-> "Idle"]
NoAnchor == [chain |-> <<>>, given |-> FALSE]

\* A table with a row for key.
Put(table, key, row) == [k \in DOMAIN table \cup {key} |-> IF k = key THEN row ELSE table[k]]

-----------------------------------------------------------------------------
(* The audit chain.                                                        *)

\* The packages of an event are what the tower held then: history for
\* AnchoredIsKept, not a column.
Appended(database, type, id) ==
    [database EXCEPT !.audit =
        Append(@, [at |-> time, type |-> type, id |-> id, packages |-> database.packages])]

CountReached(chain, anchor) == Len(chain) >= Len(anchor)                 \* mutant

\* verify_execution_audit_anchor: the event whose index is the anchor's count
\* has the anchor's hash; there is no event 0.
AnchorHolds(chain, anchor) ==
    \/ chain = anchor
    \/ /\ Len(chain) > Len(anchor) /\ anchor # <<>>
       /\ SubSeq(chain, 1, Len(anchor)) = anchor

Passes(chain, anchor) == anchor.given => AnchorHolds(chain, anchor.chain)

-----------------------------------------------------------------------------
Init ==
    /\ db = [packages |-> {}, audit |-> <<>>, handoffs |-> <<>>, drilled |-> {}]
    /\ time = 1
    /\ anchors = {}
    /\ files = <<>>
    /\ backup = Idle
    /\ verifying = [v \in Verifiers |-> Idle]
    /\ candidates = {}
    /\ made = {}
    /\ restoredTo = NoAnchor

Timed == time < MaxTime /\ time' = time + 1

AcceptPackage(p) ==
    /\ p \notin db.packages
    /\ db' = [db EXCEPT !.packages = @ \cup {p}]
    /\ UNCHANGED <<time, anchors, files, backup, verifying, candidates, made, restoredTo>>

\* The API server appends what it authorizes.
Authorize ==
    /\ Timed
    /\ db' = Appended(db, "EXECUTION", 0)
    /\ UNCHANGED <<anchors, files, backup, verifying, candidates, made, restoredTo>>

CreateAnchor ==
    /\ Cardinality(anchors) < MaxAnchors
    /\ anchors' = anchors \cup {db.audit}
    /\ UNCHANGED <<db, time, files, backup, verifying, candidates, made, restoredTo>>

Anchors == {NoAnchor} \cup {[chain |-> a, given |-> TRUE] : a \in anchors}

-----------------------------------------------------------------------------
(* Making and restoring backups.                                           *)

\* create_database_backup reads the head for the manifest,
BackupReads ==
    /\ backup = Idle
    /\ Cardinality(made) < MaxBackups
    /\ backup' = [pc |-> "Check", head |-> db.audit]
    /\ UNCHANGED <<db, time, anchors, files, verifying, candidates, made, restoredTo>>

\* compares the chain with the operator's anchor,
BackupChecks(anchor) ==
    /\ backup.pc = "Check"
    /\ Passes(db.audit, anchor)
    /\ backup' = [backup EXCEPT !.pc = "Vacuum"]
    /\ UNCHANGED <<db, time, anchors, files, verifying, candidates, made, restoredTo>>

\* What is kept of a backup: the manifest, and the encrypted database.
Artifact(head) == [content |-> db, head |-> head, decayed |-> FALSE]

\* and copies the database as it is by now (VACUUM INTO); the encrypted copy
\* is renamed into place.
BackupVacuums ==
    /\ backup.pc = "Vacuum"
    /\ Timed
    /\ files' = Put(files, time, Artifact(backup.head))
    /\ made' = made \cup {time}
    /\ backup' = Idle
    /\ UNCHANGED <<db, anchors, verifying, candidates, restoredTo>>

\* It dies, or the anchor does not hold.
BackupEnds ==
    /\ backup # Idle
    /\ backup' = Idle
    /\ UNCHANGED <<db, time, anchors, files, verifying, candidates, made, restoredTo>>

Decay(id) ==
    /\ ~files[id].decayed
    /\ files' = [files EXCEPT ![id].decayed = TRUE]
    /\ UNCHANGED <<db, time, anchors, backup, verifying, candidates, made, restoredTo>>

\* The envelope is authenticated, so it decrypts to what was encrypted or not
\* at all.
Decrypts(id) == id \in DOMAIN files /\ ~files[id].decayed

\* verify_database_backup_state
Restorable(id, anchor) ==
    /\ Decrypts(id)
    /\ Passes(files[id].content.audit, anchor)

RestoreOver(id, anchor) ==                                               \* mutant
    /\ Restorable(id, anchor)
    /\ db' = files[id].content
    /\ restoredTo' = anchor
    /\ UNCHANGED <<time, anchors, files, backup, verifying, candidates, made>>

\* restore_encrypted_database_backup writes a database of its own and refuses
\* one that exists: what runs on the old one does not go on with the new one.
Restore(id, anchor) ==
    /\ Restorable(id, anchor)
    /\ db' = files[id].content
    /\ backup' = Idle
    /\ verifying' = [v \in Verifiers |-> Idle]
    /\ restoredTo' = anchor
    /\ UNCHANGED <<time, anchors, files, candidates, made>>

-----------------------------------------------------------------------------
(* Handoffs, drills and retention.                                         *)

Status(id) == IF id \in DOMAIN db.handoffs THEN db.handoffs[id] ELSE "NONE"

\* record_backup_artifact_handoff; a repeated one changes nothing.
RecordHandoff(id) ==
    /\ Status(id) = "NONE"
    /\ Timed
    /\ db' = Appended([db EXCEPT !.handoffs = Put(@, id, "RECEIVED")], "RECEIVED", id)
    /\ UNCHANGED <<anchors, files, backup, verifying, candidates, made, restoredTo>>

\* verify_backup_artifact_handoff finds a handoff without a verdict and examines
\* the file; a file that cannot be read leaves it so.
VerifyReads(v, id, anchor) ==
    /\ verifying[v] = Idle
    /\ Status(id) = "RECEIVED"
    /\ id \in DOMAIN files
    /\ verifying' = [verifying EXCEPT ![v] =
          IF Restorable(id, anchor)
          THEN [pc |-> "Write", id |-> id, verdict |-> "VERIFIED"]
          ELSE [pc |-> "Look", id |-> id, verdict |-> "REJECTED"]]
    /\ UNCHANGED <<db, time, anchors, files, backup, candidates, made, restoredTo>>

\* Only a rejection looks again, and leaves a verified one alone.
RejectLooks(v) ==
    /\ verifying[v].pc = "Look"
    /\ verifying' = [verifying EXCEPT ![v] =
          IF Status(verifying[v].id) = "VERIFIED" THEN Idle ELSE [@ EXCEPT !.pc = "Write"]]
    /\ UNCHANGED <<db, time, anchors, files, backup, candidates, made, restoredTo>>

OverwrittenBy(id, verdict) == [db EXCEPT !.handoffs[id] = verdict]       \* mutant

\* UPDATE ... WHERE status = RECEIVED, whether or not it finds the row so.
MarkedBy(id, verdict) ==
    IF Status(id) = "RECEIVED" THEN [db EXCEPT !.handoffs[id] = verdict] ELSE db

\* The verdict is written together with its audit event.
VerifyWrites(v) ==
    LET job == verifying[v]
    IN  /\ job.pc = "Write"
        /\ Timed
        /\ verifying' = [verifying EXCEPT ![v] = Idle]
        /\ db' = Appended(MarkedBy(job.id, job.verdict), job.verdict, job.id)
        /\ UNCHANGED <<anchors, files, backup, candidates, made, restoredTo>>

VerifyDies(v) ==
    /\ verifying[v] # Idle
    /\ verifying' = [verifying EXCEPT ![v] = Idle]
    /\ UNCHANGED <<db, time, anchors, files, backup, candidates, made, restoredTo>>

Unrejected(id) == Status(id) \in {"RECEIVED", "VERIFIED"}                \* mutant

Drillable(id) == Status(id) = "VERIFIED"

\* run_backup_restore_drill records whether it passed; a file that is gone fails.
Drill(id, anchor) ==
    /\ Drillable(id)
    /\ Timed
    /\ db' = Appended(IF Restorable(id, anchor) THEN [db EXCEPT !.drilled = @ \cup {id}] ELSE db,
                      "DRILL", id)
    /\ UNCHANGED <<anchors, files, backup, verifying, candidates, made, restoredTo>>

KeepsOneFewer(ids) ==                                                    \* mutant
    {id \in ids : Cardinality({other \in ids : other > id}) >= KeepLatest - 1}

\* All but the newest.
BeyondLatest(ids) == {id \in ids : Cardinality({other \in ids : other > id}) >= KeepLatest}

\* backup_retention_candidates, for the backups there are;
ListCandidates ==
    /\ candidates' = BeyondLatest(DOMAIN files) \cap db.drilled
    /\ UNCHANGED <<db, time, anchors, files, backup, verifying, made, restoredTo>>

\* the operator removes them sooner or later.
RemoveCandidate(id) ==
    /\ id \in candidates
    /\ files' = [other \in DOMAIN files \ {id} |-> files[other]]
    /\ UNCHANGED <<db, time, anchors, backup, verifying, candidates, made, restoredTo>>

-----------------------------------------------------------------------------
Next ==
    \/ \E p \in Packages : AcceptPackage(p)
    \/ Authorize
    \/ CreateAnchor
    \/ BackupReads \/ BackupVacuums \/ BackupEnds
    \/ \E anchor \in Anchors : BackupChecks(anchor)
    \/ \E id \in DOMAIN files : Decay(id) \/ RecordHandoff(id) \/ RemoveCandidate(id)
    \/ \E id \in DOMAIN files, anchor \in Anchors : Restore(id, anchor)
    \/ \E v \in Verifiers, id \in DOMAIN db.handoffs, anchor \in Anchors : VerifyReads(v, id, anchor)
    \/ \E v \in Verifiers : RejectLooks(v) \/ VerifyWrites(v) \/ VerifyDies(v)
    \/ \E id \in DOMAIN db.handoffs, anchor \in Anchors : Drill(id, anchor)
    \/ ListCandidates

Spec == Init /\ [][Next]_vars

-----------------------------------------------------------------------------
(* Properties                                                              *)

\* Types; a passed drill is one of a verified handoff, in the database in
\* service and in every backup of it (backup.rs run_backup_restore_drill).
DatabaseOK(database) ==
    /\ database.packages \subseteq Packages
    /\ \A i \in DOMAIN database.audit :
          database.audit[i].type \in {"EXECUTION", "RECEIVED", "VERIFIED", "REJECTED", "DRILL"}
    /\ \A id \in DOMAIN database.handoffs :
          database.handoffs[id] \in {"RECEIVED", "VERIFIED", "REJECTED"}
    /\ \A id \in database.drilled :
          id \in DOMAIN database.handoffs /\ database.handoffs[id] = "VERIFIED"

BackupTypeOK ==
    /\ DatabaseOK(db)
    /\ time \in 1..MaxTime
    /\ DOMAIN files \subseteq made /\ made \subseteq 1..MaxTime
    /\ \A id \in DOMAIN files : DatabaseOK(files[id].content)
    /\ backup = Idle \/ backup.pc \in {"Check", "Vacuum"}
    /\ \A v \in Verifiers :
          verifying[v] = Idle \/ verifying[v].verdict \in {"VERIFIED", "REJECTED"}
    /\ candidates \subseteq made

\* What was anchored is never lost to a restore: a database restored under an
\* anchor, and everything it grows into, still has the anchored events and
\* every package the tower held at the last of them, even if the tower has
\* been running on older backups in between, whose chains count as many events
\* (audit.rs verify_execution_audit_anchor compares the hash at the count).
AnchoredIsKept ==
    restoredTo.given =>
        /\ IsPrefix(restoredTo.chain, db.audit)
        /\ restoredTo.chain # <<>> => Last(restoredTo.chain).packages \subseteq db.packages

\* A backup's manifest never claims what its file does not have: whatever was
\* written between reading the head and copying the database comes on top,
\* even if the tower moves to a restored database meanwhile, and the packages
\* are those of one moment (backup.rs create_database_backup).
ManifestIsPrefix ==
    \A id \in DOMAIN files :
        LET content == files[id].content
        IN  /\ IsPrefix(files[id].head, content.audit)
            /\ \A i \in DOMAIN content.audit : content.audit[i].packages \subseteq content.packages

VerdictsOn(id, database) ==
    {i \in DOMAIN database.audit : /\ database.audit[i].id = id
                                   /\ database.audit[i].type \in {"VERIFIED", "REJECTED"}}

VerdictStands(id, database) ==
    LET verdicts == VerdictsOn(id, database)
    IN  \/ verdicts = {} /\ database.handoffs[id] = "RECEIVED"
        \/ \E first \in verdicts :
              /\ \A i \in verdicts : first <= i
              /\ database.handoffs[id] = database.audit[first].type

\* The first verdict on a handoff stands, whichever processes verify it at once
\* and however the file decays in between, and the audit chain has it: of the
\* verdicts it records on one handoff, later ones never took effect
\* (backup.rs verify_backup_artifact_handoff, reject_backup_artifact_handoff).
FirstVerdictStands == \A id \in DOMAIN db.handoffs : VerdictStands(id, db)

\* Removing retention candidates, even from lists drawn up before later backups
\* or on a database since replaced, never takes the newest backups ever made
\* (backup.rs backup_retention_candidates).
NewestAreKept ==
    \A id \in made \ DOMAIN files : Cardinality({other \in made : other > id}) >= KeepLatest
=============================================================================
