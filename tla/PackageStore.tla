---------------------------- MODULE PackageStore ----------------------------
(***************************************************************************)
(* Where watchtowers keep RecoveryPackages: watchtower-v3_6/src/lib.rs.    *)
(*                                                                         *)
(* The tables of one Funding Coin at every watchtower.  Packages arrive    *)
(* over HTTP in any order, repeated, stale or conflicting; a tower accepts *)
(* what extends the ledger it holds and keeps the rest as evidence.        *)
(* accept_package is one transaction under the store's mutex: one action.  *)
(* A refusal is recorded after that transaction is rolled back; a crash in *)
(* between leaves nothing and answers nobody, as if the package had never  *)
(* arrived.                                                                *)
(*                                                                         *)
(* A checkpoint hash is the checkpoint: its sequence, the ledger it        *)
(* commits to and the checkpoint before it.  A package's content is all of *)
(* that and the puzzle reveal, which no signature covers.  An entry stands *)
(* for the ledger entry together with the user's signature of it.          *)
(***************************************************************************)
EXTENDS Integers, Sequences, SequencesExt, FiniteSets

CONSTANTS
    Towers,     \* the watchtowers
    Entries,    \* ledger entries with their authorization signatures
    Packages    \* the RecoveryPackages that may come to a tower

\* What RecoveryPackage::from_canonical_bytes makes of the bytes.  valid is
\* whether package.validate and validate_funding_puzzle_reveal pass.
ASSUME PackageAssumption ==
    \A p \in Packages :
        /\ p.seq \in Nat
        /\ p.entries \in Seq(Entries)
        /\ p.valid \in BOOLEAN

VARIABLES
    held,       \* v36_watchtower_packages
    head,       \* v36_watchtower_heads: latest_valid_sequence, 0 for no row
    quarantine  \* v36_watchtower_quarantine

storeVars == <<held, head, quarantine>>

StoreInit ==
    /\ held = [w \in Towers |-> {}]
    /\ head = [w \in Towers |-> 0]
    /\ quarantine = [w \in Towers |-> {}]

\* The packages with a given sequence: at most one, as the invariant shows.
HeldAt(w, seq) == {q \in held[w] : q.seq = seq}

-----------------------------------------------------------------------------
(* accept_package                                                          *)

Checkpoint(p) == [seq |-> p.seq, entries |-> p.entries, prev |-> p.prev]

\* Another package of the same sequence is there.
ConflictWithAny(w, p) == HeldAt(w, p.seq) # {}                       \* mutant
StateConflict(w, p) == HeldAt(w, p.seq) # {} /\ p \notin held[w]

StaleNever(w, p) == FALSE                                            \* mutant
\* The head is at least as high, and there is no package to compare with.
Stale(w, p) == head[w] > 0 /\ head[w] >= p.seq /\ HeldAt(w, p.seq) = {}

\* p carries on with the ledger of q.
SameLength(p, q) == Len(q.entries) <= Len(p.entries)                 \* mutant
Extends(p, q) ==
    /\ IsPrefix(q.entries, p.entries)
    /\ p.seq = q.seq + 1 => p.prev = Checkpoint(q)

AppendOnlyViolation(w, p) ==
    /\ p.seq > head[w]
    /\ \E q \in HeldAt(w, head[w]) : ~Extends(p, q)

\* The tables' CHECKs: state_sequence > 0 and entry_count > 0.
Storable(p) == p.seq > 0 /\ p.entries # <<>>

Refused(w, p) ==
    \/ ~p.valid
    \/ StateConflict(w, p)
    \/ Stale(w, p)
    \/ AppendOnlyViolation(w, p)

\* The very package is there already: it is accepted again.
Repeat(w, p) ==
    /\ p \in held[w]
    /\ UNCHANGED storeVars

StoreLatestOnly(w, p) ==                                             \* mutant
    /\ p \notin held[w]
    /\ ~Refused(w, p)
    /\ Storable(p)
    /\ held' = [held EXCEPT ![w] = {p}]
    /\ head' = [head EXCEPT ![w] = p.seq]
    /\ UNCHANGED quarantine

Store(w, p) ==
    /\ p \notin held[w]
    /\ ~Refused(w, p)
    /\ Storable(p)
    /\ held' = [held EXCEPT ![w] = @ \cup {p}]
    /\ head' = [head EXCEPT ![w] = p.seq]
    /\ UNCHANGED quarantine

AcceptPackage(w, p) == Repeat(w, p) \/ Store(w, p)

Refuse(w, p) ==
    /\ Refused(w, p)
    /\ quarantine' = [quarantine EXCEPT ![w] = @ \cup {p}]
    /\ UNCHANGED <<held, head>>

StoreNext ==
    \E w \in Towers, p \in Packages : AcceptPackage(w, p) \/ Refuse(w, p)

StoreSpec == StoreInit /\ [][StoreNext]_storeVars

-----------------------------------------------------------------------------
(* Properties                                                              *)

StoreTypeOK ==
    /\ held \in [Towers -> SUBSET Packages]
    /\ head \in [Towers -> Nat]
    /\ quarantine \in [Towers -> SUBSET Packages]

\* What a tower holds is one ledger, however its packages arrived: one
\* package for each sequence, each extending every lower one, linked to it
\* by the checkpoint hash when they are adjacent; the head is the highest.
HeldIsOneLedger ==
    \A w \in Towers :
        /\ \A p, q \in held[w] :
               /\ p.seq = q.seq => p = q
               /\ p.seq > q.seq => IsPrefix(q.entries, p.entries)
               /\ p.seq = q.seq + 1 => p.prev = Checkpoint(q)
        /\ \A p \in held[w] : p.seq <= head[w]
        /\ head[w] > 0 => HeldAt(w, head[w]) # {}

\* A tower never contradicts an answer it gave: what it accepted it never
\* refuses, even repeated or late, and what it refused, and kept as
\* evidence, it never accepts, however far its head has moved since.
AnswersStand == \A w \in Towers : held[w] \cap quarantine[w] = {}

\* The ledger a tower would challenge with is only ever extended: no
\* delivery, late, repeated or conflicting, brings an older or another one.
LatestOnlyGrows ==
    [][ \A w \in Towers :
          \A p \in HeldAt(w, head[w]) :
            \E q \in held'[w] :
              q.seq = head'[w] /\ q.seq >= p.seq /\ IsPrefix(p.entries, q.entries) ]_storeVars
=============================================================================
