------------------------ MODULE RecoveryDeliveryProofs ----------------------
(***************************************************************************)
(* What the HUB's rows and answers about deliveries are worth, for any     *)
(* number of handlers, keys and towers and whatever becomes of the calls.  *)
(***************************************************************************)
EXTENDS RecoveryDelivery, PackageStoreProofs, FiniteSetTheorems

-----------------------------------------------------------------------------
(* The inductive invariant                                                 *)

\* Why a delivery of state s to w is rightly final.
FinallyRefused(kind, s, w) ==
    \/ kind # "WATCHTOWER"
    \/ w \in Denying
    \/ \A i \in DOMAIN Recipients : Recipients[i] # w
    \/ Official[s] \in quarantine[w]

\* A row says what the tower did.
RowGood(k) ==
    /\ rows[k].status = "DELIVERED" => Official[k[1]] \in held[k[2]]
    /\ rows[k].status = "FAILED_FINAL" => FinallyRefused(rows[k].kind, k[1], k[2])

\* What a worker has brought back for h, and what h has been told.
WorkerGood(h, w) ==
    /\ h.worker[w] = "ok" => Official[h.call.seq] \in held[w]
    /\ h.worker[w] = "final" => FinallyRefused(h.call.kind, h.call.seq, w)
    /\ h.worker[w] # "none" => rows[<<h.call.seq, w, h.call.key>>].kind = h.call.kind

EntryGood(h, w) ==
    /\ h.got[w] # "PENDING"
    /\ h.got[w] = "DELIVERED" => Official[h.call.seq] \in held[w]
    /\ h.got[w] = "FAILED_FINAL" =>
         rows[<<h.call.seq, w, h.call.key>>].status = "FAILED_FINAL"

Holders(s) == {w \in Towers : Official[s] \in held[w]}
Failed(s, key) == {w \in Towers : rows[<<s, w, key>>].status = "FAILED_FINAL"}

AnswerGood(x) ==
    /\ x.answer = "quorum_met" => Cardinality(Holders(x.seq)) >= 2
    /\ x.answer = "final" => Cardinality(Failed(x.seq, x.key)) >= 2

DeliveryInv ==
    /\ StoreInv
    /\ DeliveryTypes
    /\ \A k \in RowKeys : RowGood(k)
    /\ \A r \in Requests : Serving(r) =>
         \A w \in Towers : WorkerGood(req[r], w) /\ EntryGood(req[r], w)
    /\ \A x \in answers : AnswerGood(x)

-----------------------------------------------------------------------------
(* Values                                                                  *)

LEMMA SeqsFacts ==
    /\ \A s \in Seqs : Official[s] \in Packages /\ Official[s].seq = s /\ s \in Nat
    /\ Seqs = 1..Len(Official) /\ Len(Official) \in Nat
BY DeliveryAssumption DEF Seqs

LEMMA TargetsFacts ==
    ASSUME NEW call \in Calls
    PROVE  /\ Len(call.targets) \in 1..3
           /\ DOMAIN call.targets = 1..Len(call.targets)
           /\ \A i \in DOMAIN call.targets : call.targets[i] \in Towers
           /\ call.seq \in Seqs /\ call.key \in Keys /\ call.kind \in Kinds
<1>1. /\ call.targets \in {Recipients} \cup {<<w>> : w \in Towers}
      /\ call.seq \in Seqs /\ call.key \in Keys /\ call.kind \in Kinds
  BY DEF Calls
<1>2. Recipients \in Seq(Towers) /\ Len(Recipients) = 3
  BY DeliveryAssumption
<1>3. CASE call.targets = Recipients
  <2>1. Len(Recipients) \in 1..3
    BY <1>2
  <2>2. DOMAIN Recipients = 1..Len(Recipients)
    BY <1>2
  <2>3. \A i \in DOMAIN Recipients : Recipients[i] \in Towers
    BY <1>2
  <2> QED BY <1>1, <1>3, <2>1, <2>2, <2>3
<1>4. CASE \E w \in Towers : call.targets = <<w>>
  BY <1>1, <1>4
<1> QED BY <1>1, <1>3, <1>4

LEMMA HandlerFacts ==
    ASSUME DeliveryTypes, NEW r \in Requests, Serving(r)
    PROVE  /\ req[r] \in Handlers
           /\ req[r].call \in Calls
           /\ req[r].worker \in [Towers -> Workers]
           /\ req[r].got \in [Towers -> Statuses \cup {"none"}]
           /\ \A w \in Towers : RowOf(r, w) \in RowKeys
BY TargetsFacts DEF DeliveryTypes, Serving, Handlers, RowOf, RowKeys

-----------------------------------------------------------------------------
(* Types                                                                   *)

LEMMA ResultFacts ==
    ASSUME NEW result \in DOMAIN ResultOf
    PROVE  /\ result \in {"ok", "retryable", "final"}
           /\ ResultOf[result] \in Statuses /\ ResultOf[result] # "PENDING"
           /\ ResultOf[result] = "DELIVERED" => result = "ok"
           /\ ResultOf[result] = "FAILED_FINAL" => result = "final"
BY DEF ResultOf, Statuses, Terminal

LEMMA NewHandlerTyped ==
    ASSUME NEW call \in Calls
    PROVE  Handler(call) \in Handlers
BY DEF Handler, Handlers, Workers

LEMMA HandlerTypes ==
    ASSUME DeliveryTypes, NEW r \in Requests, NEW w \in Towers,
           BeginCompleted(r, w) \/ BeginAttempt(r, w) \/ BeginConflicts(r, w)
             \/ Finish(r, w) \/ FinishedByOther(r, w),
           Serving(r)
    PROVE  DeliveryTypes'
<1>1. /\ req[r] \in Handlers /\ req[r].call \in Calls /\ RowOf(r, w) \in RowKeys
      /\ req[r].worker \in [Towers -> Workers]
      /\ req[r].got \in [Towers -> Statuses \cup {"none"}]
      /\ req[r].begun \in 0..3
  BY HandlerFacts DEF Handlers
<1>2. /\ rows \in [RowKeys -> Rows \cup {NoRow}]
      /\ req \in [Requests -> Handlers \cup {Idle, Gone}]
  BY DEF DeliveryTypes
<1>3. BeginsWith(r, w) => req[r].begun + 1 \in 0..3
  BY <1>1, TargetsFacts DEF BeginsWith
<1>4. CASE BeginCompleted(r, w)
  <2>1. rows[RowOf(r, w)].status \in Statuses
    BY <1>4 DEF BeginCompleted, Statuses
  <2>2. [req[r] EXCEPT !.begun = @ + 1, !.got[w] = rows[RowOf(r, w)].status] \in Handlers
    BY <1>1, <1>3, <1>4, <2>1 DEF BeginCompleted, Handlers
  <2> QED BY <1>2, <1>4, <2>2 DEF BeginCompleted, DeliveryTypes, StoreTypeOK, storeVars
<1>5. CASE BeginAttempt(r, w)
  <2>1. [req[r] EXCEPT !.begun = @ + 1, !.worker[w] = "posting"] \in Handlers
    BY <1>1, <1>3, <1>5 DEF BeginAttempt, Handlers, Workers
  <2>2. [kind |-> req[r].call.kind, status |-> "PENDING"] \in Rows
    BY <1>1, TargetsFacts DEF Rows, Statuses
  <2> QED BY <1>1, <1>2, <1>5, <2>1, <2>2
          DEF BeginAttempt, DeliveryTypes, StoreTypeOK, storeVars
<1>6. CASE BeginConflicts(r, w)
  BY <1>2, <1>6 DEF BeginConflicts, DeliveryTypes, StoreTypeOK, storeVars
<1>7. CASE Finish(r, w)
  <2>1. ResultOf[req[r].worker[w]] \in Statuses
    BY <1>7, ResultFacts DEF Finish
  <2>2. [req[r] EXCEPT !.got[w] = ResultOf[req[r].worker[w]]] \in Handlers
    BY <1>1, <2>1 DEF Handlers
  <2>3. rows[RowOf(r, w)] \in Rows
    BY <1>1, <1>2, <1>7 DEF Finish, NoRow
  <2>4. [rows[RowOf(r, w)] EXCEPT !.status = ResultOf[req[r].worker[w]]] \in Rows
    BY <2>1, <2>3 DEF Rows
  <2> QED BY <1>1, <1>2, <1>7, <2>2, <2>4
          DEF Finish, DeliveryTypes, StoreTypeOK, storeVars
<1>8. CASE FinishedByOther(r, w)
  <2>1. [req[r] EXCEPT !.got[w] = "DELIVERED"] \in Handlers
    BY <1>1 DEF Handlers, Statuses, Terminal
  <2> QED BY <1>2, <1>8, <2>1 DEF FinishedByOther, DeliveryTypes, StoreTypeOK, storeVars
<1> QED BY <1>4, <1>5, <1>6, <1>7, <1>8

LEMMA AnswerTypes ==
    ASSUME StoreTypeOK, NEW w \in Towers, NEW p \in Packages,
           AcceptPackage(w, p) \/ Refuse(w, p)
    PROVE  StoreTypeOK'
<1>1. CASE Store(w, p)
  BY <1>1, PackageAssumption DEF Store, StoreTypeOK
<1>2. CASE Refuse(w, p)
  BY <1>2 DEF Refuse, StoreTypeOK
<1>3. CASE Repeat(w, p)
  BY <1>3 DEF Repeat, StoreTypeOK, storeVars
<1> QED BY <1>1, <1>2, <1>3 DEF AcceptPackage

LEMMA PostTypes ==
    ASSUME DeliveryTypes, NEW r \in Requests, NEW w \in Towers, Post(r, w)
    PROVE  DeliveryTypes'
<1>1. Posting(r, w) /\ Serving(r)
  BY DEF Post, PostMisrouted, PostAnswered, PostAnswerLost, PostFails, PostDenied, Posting
<1>2. req[r] \in Handlers /\ PackageFor(r) \in Packages
  BY <1>1, HandlerFacts, TargetsFacts, SeqsFacts DEF PackageFor
<1>3. StoreTypeOK'
  BY <1>2, AnswerTypes
     DEF DeliveryTypes, Post, PostMisrouted, PostAnswered, PostAnswerLost, PostFails,
         PostDenied, StoreTypeOK, storeVars
<1>4. \E result \in {"ok", "retryable", "final"} : Returns(r, w, result)
  BY DEF Post, PostMisrouted, PostAnswered, PostAnswerLost, PostFails, PostDenied
<1>5. ASSUME NEW result \in {"ok", "retryable", "final"}
      PROVE  [req[r] EXCEPT !.worker[w] = result] \in Handlers
  BY <1>2 DEF Handlers, Workers
<1> QED BY <1>3, <1>4, <1>5 DEF Returns, DeliveryTypes

LEMMA TypesInit == Init => DeliveryTypes
BY SeqsFacts DEF Init, StoreInit, DeliveryTypes, StoreTypeOK

LEMMA TypesStep == DeliveryTypes /\ [Next]_vars => DeliveryTypes'
<1> SUFFICES ASSUME DeliveryTypes, [Next]_vars
             PROVE  DeliveryTypes'
  OBVIOUS
<1>1. CASE UNCHANGED vars
  BY <1>1 DEF vars, hubVars, storeVars, DeliveryTypes, StoreTypeOK
<1>2. CASE Sign
  BY <1>2, SeqsFacts DEF Sign, DeliveryTypes, StoreTypeOK, storeVars
<1>3. ASSUME NEW r \in Requests, NEW call \in Asked, Call(r, call)
      PROVE  DeliveryTypes'
  BY <1>3, AskedAssumption, NewHandlerTyped
     DEF Call, DeliveryTypes, StoreTypeOK, storeVars
<1>4. ASSUME NEW r \in Requests, Respond(r)
      PROVE  DeliveryTypes'
  <2>1. req[r].call.seq \in Seqs /\ req[r].call.key \in Keys
    BY <1>4, HandlerFacts, TargetsFacts DEF Respond
  <2>2. QuorumAnswer(r) \in {"quorum_met", "retry", "final"}
    BY DEF QuorumAnswer
  <2> QED BY <1>4, <2>1, <2>2 DEF Respond, DeliveryTypes, StoreTypeOK, storeVars
<1>5. ASSUME NEW r \in Requests, Abandon(r)
      PROVE  DeliveryTypes'
  BY <1>5 DEF Abandon, DeliveryTypes, StoreTypeOK, storeVars
<1>6. ASSUME NEW w \in Towers, NEW p \in Packages, Arrive(w, p)
      PROVE  DeliveryTypes'
  BY <1>6, AnswerTypes DEF Arrive, DeliveryTypes, hubVars
<1> QED BY <1>1, <1>2, <1>3, <1>4, <1>5, <1>6, HandlerTypes, PostTypes
        DEF Next, Handle

-----------------------------------------------------------------------------
(* Only what is signed is delivered                                        *)

LEMMA SignedStep ==
    ASSUME DeliveryTypeOK, [Next]_vars
    PROVE  OnlySigned'
<1> USE DEF DeliveryTypeOK, DeliveryTypes
<1>1. \A k \in RowKeys : k[1] \in Nat
  BY SeqsFacts DEF RowKeys
<1>2. signed \in Nat /\ signed' \in Nat /\ signed <= signed'
  <2>1. signed \in Nat
    BY SeqsFacts
  <2>2. Sign \/ signed' = signed
    <3>1. ASSUME NEW r \in Requests, Handle(r)
          PROVE  signed' = signed
      BY <3>1 DEF Handle, BeginCompleted, BeginAttempt, BeginConflicts, Finish,
                  FinishedByOther, Respond
    <3>2. ASSUME NEW r \in Requests, NEW w \in Towers, Post(r, w)
          PROVE  signed' = signed
      BY <3>2 DEF Post, PostMisrouted, PostAnswered, PostAnswerLost, PostFails,
                  PostDenied, Returns
    <3> QED BY <3>1, <3>2 DEF Next, Call, Abandon, Arrive, hubVars, vars
  <2> QED BY <2>1, <2>2 DEF Sign
<1>3. ASSUME NEW r \in Requests, Serving(r)
      PROVE  req[r].call.seq \in Nat /\ req[r].call.seq <= signed
  BY <1>3, HandlerFacts, TargetsFacts, SeqsFacts DEF OnlySigned
<1>4. ASSUME NEW k \in RowKeys, rows'[k] # NoRow
      PROVE  k[1] <= signed'
  <2>1. CASE rows'[k] = rows[k]
    BY <1>1, <1>2, <1>4, <2>1 DEF OnlySigned
  <2>2. ASSUME NEW r \in Requests, NEW w \in Towers, Serving(r),
               BeginAttempt(r, w) \/ Finish(r, w), rows'[k] # rows[k]
        PROVE  k[1] <= signed'
    <3>1. k = RowOf(r, w)
      BY <2>2 DEF BeginAttempt, Finish
    <3>2. k[1] = req[r].call.seq
      BY <3>1 DEF RowOf
    <3> QED BY <1>2, <1>3, <2>2, <3>2
  <2>3. \/ rows' = rows
        \/ \E r \in Requests, w \in Towers :
             Serving(r) /\ (BeginAttempt(r, w) \/ Finish(r, w))
    BY DEF Next, Sign, Call, Handle, BeginCompleted, BeginConflicts, FinishedByOther,
       Respond, Post, PostMisrouted, PostAnswered, PostAnswerLost, PostFails, PostDenied,
       Returns, Abandon, Arrive, hubVars, vars
  <2> QED BY <2>1, <2>2, <2>3
<1>5. ASSUME NEW r \in Requests, Serving(r)'
      PROVE  req'[r].call.seq <= signed'
  <2>1. CASE Serving(r) /\ req'[r].call = req[r].call
    BY <1>2, <1>3, <2>1
  <2>2. ASSUME NEW call \in Asked, Call(r, call)
        PROVE  req'[r].call.seq <= signed'
    BY <2>2 DEF Call, Handler
  <2>3. \/ req'[r] = req[r]
        \/ req'[r] \in {Idle, Gone}
        \/ Serving(r) /\ req'[r].call = req[r].call
        \/ \E call \in Asked : Call(r, call)
    <3>1. ASSUME NEW q \in Requests, NEW w \in Towers, Serving(q),
                 BeginCompleted(q, w) \/ BeginAttempt(q, w) \/ BeginConflicts(q, w)
                   \/ Finish(q, w) \/ FinishedByOther(q, w) \/ Post(q, w)
          PROVE  \/ req'[r] = req[r]
                 \/ req'[r] \in {Idle, Gone}
                 \/ Serving(r) /\ req'[r].call = req[r].call
      <4>1. req[q] \in Handlers
        BY <3>1, HandlerFacts
      <4> QED BY <3>1, <4>1 DEF Handlers, BeginCompleted, BeginAttempt, BeginConflicts,
                 Finish, FinishedByOther, Post, PostMisrouted, PostAnswered,
                 PostAnswerLost, PostFails, PostDenied, Returns
    <3>2. ASSUME NEW q \in Requests, NEW w \in Towers, Post(q, w)
          PROVE  Serving(q)
      BY <3>2 DEF Post, PostMisrouted, PostAnswered, PostAnswerLost, PostFails,
                  PostDenied, Posting
    <3>3. ASSUME NEW q \in Requests,
                 Respond(q) \/ Abandon(q) \/ \E call \in Asked : Call(q, call)
          PROVE  \/ req'[r] = req[r]
                 \/ req'[r] \in {Idle, Gone}
                 \/ \E call \in Asked : Call(r, call)
      BY <3>3 DEF Respond, Abandon, Call
    <3> QED BY <3>1, <3>2, <3>3 DEF Next, Handle, Sign, Arrive, hubVars, vars
  <2>4. CASE req'[r] = req[r]
    BY <1>5, <2>1, <2>4 DEF Serving
  <2> QED BY <1>5, <2>1, <2>2, <2>3, <2>4 DEF Serving
<1> QED BY <1>4, <1>5 DEF OnlySigned

\* The types of the HUB's table, of its handlers and of their workers, and that
\* all of them are of signed states.
THEOREM DeliveryTypeCorrect == Spec => []DeliveryTypeOK
<1>1. Init => DeliveryTypeOK
  BY TypesInit DEF Init, OnlySigned, Serving, DeliveryTypeOK
<1>2. DeliveryTypeOK /\ [Next]_vars => DeliveryTypeOK'
  BY TypesStep, SignedStep DEF DeliveryTypeOK
<1> QED BY <1>1, <1>2, PTL DEF Spec

-----------------------------------------------------------------------------
(* What every step leaves alone                                            *)

\* Whatever a step is to the HUB, to the towers it is one answer to one
\* package, or nothing.
LEMMA StoreSteps ==
    ASSUME DeliveryTypes, [Next]_vars
    PROVE  [StoreNext]_storeVars
<1>1. ASSUME NEW r \in Requests, NEW w \in Towers, Post(r, w)
      PROVE  \/ UNCHANGED storeVars
             \/ \E p \in Packages : AcceptPackage(w, p) \/ Refuse(w, p)
  <2>1. Serving(r)
    BY <1>1 DEF Post, PostMisrouted, PostAnswered, PostAnswerLost, PostFails, PostDenied,
                Posting
  <2>2. PackageFor(r) \in Packages
    BY <2>1, HandlerFacts, TargetsFacts, SeqsFacts DEF PackageFor
  <2> QED BY <1>1, <2>2
          DEF Post, PostMisrouted, PostAnswered, PostAnswerLost, PostFails, PostDenied
<1>2. ASSUME NEW r \in Requests, Handle(r)
      PROVE  UNCHANGED storeVars
  BY <1>2 DEF Handle, BeginCompleted, BeginAttempt, BeginConflicts, Finish,
              FinishedByOther, Respond
<1>3. ASSUME Sign \/ (\E r \in Requests : Abandon(r) \/ \E call \in Asked : Call(r, call))
      PROVE  UNCHANGED storeVars
  BY <1>3 DEF Sign, Abandon, Call
<1>4. ASSUME NEW w \in Towers, NEW p \in Packages, Arrive(w, p)
      PROVE  AcceptPackage(w, p) \/ Refuse(w, p)
  BY <1>4 DEF Arrive
<1>5. UNCHANGED vars => UNCHANGED storeVars
  BY DEF vars
<1> QED BY <1>1, <1>2, <1>3, <1>4, <1>5 DEF Next, StoreNext

\* The delivery of packages, its handlers, retries, lost answers and strangers'
\* packages included, is a way to use the package store and no other: every
\* behaviour is one of StoreSpec, and has what was proved of that.
THEOREM DeliveryImplementsStore == Spec => StoreSpec
<1>1. Init => StoreInit
  BY DEF Init
<1>2. DeliveryTypeOK /\ [Next]_vars => [StoreNext]_storeVars
  BY StoreSteps DEF DeliveryTypeOK
<1> QED BY <1>1, <1>2, DeliveryTypeCorrect, PTL DEF Spec, StoreSpec

LEMMA TowersKeep ==
    ASSUME DeliveryTypes, StoreInv, [Next]_vars
    PROVE  /\ StoreInv'
           /\ \A w \in Towers : held[w] \subseteq held'[w]
                             /\ quarantine[w] \subseteq quarantine'[w]
<1>1. CASE UNCHANGED storeVars
  BY <1>1, StoreInvStutters DEF storeVars
<1>2. ASSUME NEW v \in Towers, NEW p \in Packages,
             AcceptPackage(v, p) \/ Refuse(v, p)
      PROVE  /\ StoreInv'
             /\ \A w \in Towers : held[w] \subseteq held'[w]
                               /\ quarantine[w] \subseteq quarantine'[w]
  <2>1. \A w \in Towers : quarantine[w] \subseteq quarantine'[w]
    BY <1>2 DEF StoreInv, StoreTypeOK, AcceptPackage, Repeat, Store, Refuse, storeVars
  <2> QED BY <1>2, <2>1, AnswerKeepsInv, HeldGrows
<1> QED BY <1>1, <1>2, StoreSteps DEF StoreNext

\* What the HUB is answered stands, and what it delivers only extends what
\* towers would challenge with, whoever else sends them packages.
THEOREM DeliveryKeepsTowers ==
    Spec => []HeldIsOneLedger /\ []AnswersStand /\ LatestOnlyGrows
BY DeliveryImplementsStore, HoldsOneLedger, AnswersAlwaysStand, LatestAlwaysGrows, PTL

\* A row is written by the begin of an attempt and by its finish.
LEMMA RowsWritten ==
    ASSUME [Next]_vars
    PROVE  \/ rows' = rows
           \/ \E r \in Requests, w \in Towers :
                Serving(r) /\ (BeginAttempt(r, w) \/ Finish(r, w))
BY DEF Next, vars, hubVars, Sign, Call, Handle, BeginCompleted, BeginConflicts,
       FinishedByOther, Respond, Post, PostMisrouted, PostAnswered, PostAnswerLost,
       PostFails, PostDenied, Returns, Abandon, Arrive

\* What either write does to the row.
LEMMA WriteAt ==
    ASSUME DeliveryTypes, NEW r \in Requests, NEW w \in Towers, Serving(r),
           BeginAttempt(r, w) \/ Finish(r, w)
    PROVE  LET k == RowOf(r, w) IN
           /\ k \in RowKeys
           /\ \A j \in RowKeys : j # k => rows'[j] = rows[j]
           /\ rows[k].status \notin Terminal
           /\ rows[k] # NoRow => rows'[k].kind = rows[k].kind
           /\ BeginAttempt(r, w) => rows'[k].status = "PENDING"
                                  /\ rows'[k].kind = req[r].call.kind
           /\ Finish(r, w) => /\ rows'[k].status = ResultOf[req[r].worker[w]]
                              /\ rows[k] # NoRow
<1> DEFINE k == RowOf(r, w)
<1>1. /\ k \in RowKeys
      /\ rows \in [RowKeys -> Rows \cup {NoRow}]
  BY HandlerFacts DEF DeliveryTypes
<1> HIDE DEF k
<1>2. CASE BeginAttempt(r, w)
  <2>1. rows' = [rows EXCEPT ![k] = [kind |-> req[r].call.kind, status |-> "PENDING"]]
    BY <1>2 DEF BeginAttempt, k
  <2>2. rows[k] = NoRow \/ (rows[k].kind = req[r].call.kind /\ rows[k].status \notin Terminal)
    BY <1>2 DEF BeginAttempt, k
  <2>3. rows[k].status \notin Terminal
    BY <2>2 DEF NoRow, Terminal
  <2>4. ~Finish(r, w) \/ rows[k].status = "PENDING"
    BY DEF Finish, k
  <2>5. Finish(r, w) => rows'[k].status = ResultOf[req[r].worker[w]]
    BY <1>1, <2>4 DEF Finish, Rows, k, NoRow
  <2> QED BY <1>1, <2>1, <2>2, <2>3, <2>4, <2>5 DEF k, NoRow
<1>3. CASE Finish(r, w)
  <2>1. /\ rows' = [rows EXCEPT ![k].status = ResultOf[req[r].worker[w]]]
        /\ rows[k].status = "PENDING"
    BY <1>3 DEF Finish, k
  <2>2. rows[k] \in Rows
    BY <1>1, <2>1 DEF NoRow
  <2>3. /\ rows'[k].status = ResultOf[req[r].worker[w]]
        /\ rows'[k].kind = rows[k].kind
        /\ \A j \in RowKeys : j # k => rows'[j] = rows[j]
    BY <1>1, <2>1, <2>2 DEF Rows
  <2>4. rows[k].status \notin Terminal /\ rows[k] # NoRow
    BY <2>1 DEF Terminal, NoRow
  <2>5. BeginAttempt(r, w) => rows'[k].status = "PENDING"
                              /\ rows'[k].kind = req[r].call.kind
    BY <1>1 DEF BeginAttempt, k
  <2> QED BY <1>1, <2>3, <2>4, <2>5 DEF k
<1> QED BY <1>2, <1>3

LEMMA RowsKeep ==
    ASSUME DeliveryTypes, [Next]_vars, NEW k \in RowKeys
    PROVE  /\ rows[k].status \in Terminal => rows'[k] = rows[k]
           /\ rows[k] # NoRow => rows'[k].kind = rows[k].kind
BY RowsWritten, WriteAt

\* "A DELIVERED or FAILED_FINAL record is terminal", with any number of
\* attempts on their way for it.
THEOREM CompletedAlwaysStays == Spec => CompletedStays
<1>1. DeliveryTypeOK /\ [Next]_vars
      => [ \A k \in RowKeys : rows[k].status \in Terminal => rows'[k] = rows[k] ]_vars
  BY RowsKeep DEF DeliveryTypeOK
<1> QED BY <1>1, DeliveryTypeCorrect, PTL DEF Spec, CompletedStays

-----------------------------------------------------------------------------
(* The invariant                                                           *)

\* A final refusal remains one.
LEMMA RefusalStays ==
    ASSUME DeliveryTypes, StoreInv, [Next]_vars,
           NEW kind, NEW s, NEW w \in Towers, FinallyRefused(kind, s, w)
    PROVE  FinallyRefused(kind, s, w)'
BY TowersKeep DEF FinallyRefused

LEMMA RowsGoodStep ==
    ASSUME DeliveryInv, [Next]_vars, NEW k \in RowKeys
    PROVE  RowGood(k)'
<1>1. DeliveryTypes /\ StoreInv /\ RowGood(k) /\ k[2] \in Towers
  BY DEF DeliveryInv, RowKeys
<1>2. CASE rows'[k] = rows[k]
  BY <1>1, <1>2, TowersKeep, RefusalStays DEF RowGood
<1>3. ASSUME NEW r \in Requests, NEW w \in Towers, Serving(r),
             BeginAttempt(r, w) \/ Finish(r, w), k = RowOf(r, w)
      PROVE  RowGood(k)'
  <2>1. CASE BeginAttempt(r, w)
    <3>1. rows'[k].status = "PENDING"
      BY <1>1, <1>3, <2>1, WriteAt
    <3> QED BY <3>1 DEF RowGood
  <2>2. CASE Finish(r, w)
    <3>1. /\ rows'[k].status = ResultOf[req[r].worker[w]]
          /\ rows'[k].kind = rows[k].kind
      BY <1>1, <1>3, <2>2, WriteAt
    <3>2. WorkerGood(req[r], w) /\ req[r].worker[w] \in DOMAIN ResultOf
      BY <1>3, <2>2 DEF DeliveryInv, Finish
    <3>3. k = <<req[r].call.seq, w, req[r].call.key>>
      BY <1>3 DEF RowOf
    <3>4. CASE rows'[k].status = "DELIVERED"
      <4>1. Official[k[1]] \in held[k[2]]
        BY <3>1, <3>2, <3>3, <3>4, ResultFacts DEF WorkerGood
      <4> QED BY <1>1, <3>4, <4>1, TowersKeep DEF RowGood
    <3>5. CASE rows'[k].status = "FAILED_FINAL"
      <4>1. FinallyRefused(req[r].call.kind, k[1], k[2])
        BY <3>1, <3>2, <3>3, <3>5, ResultFacts DEF WorkerGood
      <4>2. rows[k].kind = req[r].call.kind
        BY <3>1, <3>2, <3>3, <3>5, ResultFacts DEF WorkerGood
      <4>3. FinallyRefused(rows[k].kind, k[1], k[2])'
        BY <1>1, <3>1, <4>1, <4>2, TowersKeep DEF FinallyRefused
      <4> QED BY <3>1, <3>5, <4>3 DEF RowGood, FinallyRefused
    <3> QED BY <3>4, <3>5 DEF RowGood
  <2> QED BY <1>3, <2>1, <2>2
<1> QED BY <1>1, <1>2, <1>3, RowsWritten, WriteAt

\* What a step leaves alone of a handler stays as good as it was.
LEMMA KeptWorker ==
    ASSUME DeliveryInv, [Next]_vars, NEW r \in Requests, NEW w \in Towers,
           Serving(r), req'[r].call = req[r].call,
           req'[r].worker[w] = req[r].worker[w]
    PROVE  WorkerGood(req[r], w)'
<1>1. DeliveryTypes /\ StoreInv /\ WorkerGood(req[r], w)
  BY DEF DeliveryInv
<1> DEFINE k == <<req[r].call.seq, w, req[r].call.key>>
<1>2. k \in RowKeys /\ req[r].call.kind \in Kinds
  BY <1>1, HandlerFacts, TargetsFacts DEF RowOf
<1>3. rows[k].kind = req[r].call.kind => rows'[k].kind = req[r].call.kind
  BY <1>1, <1>2, RowsKeep DEF NoRow, Kinds
<1> QED BY <1>1, <1>3, TowersKeep DEF WorkerGood, FinallyRefused

LEMMA KeptEntry ==
    ASSUME DeliveryInv, [Next]_vars, NEW r \in Requests, NEW w \in Towers,
           Serving(r), req'[r].call = req[r].call, req'[r].got[w] = req[r].got[w]
    PROVE  EntryGood(req[r], w)'
<1>1. DeliveryTypes /\ StoreInv /\ EntryGood(req[r], w)
  BY DEF DeliveryInv
<1> DEFINE k == <<req[r].call.seq, w, req[r].call.key>>
<1>2. k \in RowKeys
  BY <1>1, HandlerFacts DEF RowOf
<1>3. rows[k].status = "FAILED_FINAL" => rows'[k].status = "FAILED_FINAL"
  BY <1>1, <1>2, RowsKeep DEF Terminal
<1> QED BY <1>1, <1>3, TowersKeep DEF EntryGood

LEMMA KeptHandler ==
    ASSUME DeliveryInv, [Next]_vars, NEW r \in Requests, NEW w \in Towers,
           Serving(r), req'[r] = req[r]
    PROVE  (WorkerGood(req[r], w) /\ EntryGood(req[r], w))'
BY KeptWorker, KeptEntry

\* The handler that begins or finishes with tower v.
LEMMA ActingHandler ==
    ASSUME DeliveryInv, [Next]_vars, NEW r \in Requests, NEW v \in Towers,
           BeginCompleted(r, v) \/ BeginAttempt(r, v) \/ BeginConflicts(r, v)
             \/ Finish(r, v) \/ FinishedByOther(r, v),
           Serving(r), Serving(r)', NEW w \in Towers
    PROVE  (WorkerGood(req[r], w) /\ EntryGood(req[r], w))'
<1> DEFINE k == <<req[r].call.seq, v, req[r].call.key>>
<1>1. /\ req \in [Requests -> Handlers \cup {Idle, Gone}]
      /\ req[r] \in Handlers
      /\ req[r].worker \in [Towers -> Workers]
      /\ req[r].got \in [Towers -> Statuses \cup {"none"}]
      /\ k = RowOf(r, v) /\ k \in RowKeys
      /\ DeliveryTypes /\ RowGood(k) /\ WorkerGood(req[r], v) /\ StoreInv
  BY HandlerFacts DEF DeliveryInv, DeliveryTypes, RowOf
<1> HIDE DEF k
<1>2. CASE BeginCompleted(r, v)
  <2>1. /\ rows[k].status \in Terminal /\ rows' = rows /\ held' = held
        /\ req' = [req EXCEPT ![r].begun = @ + 1, ![r].got[v] = rows[k].status]
    BY <1>1, <1>2 DEF BeginCompleted, storeVars
  <2>2. /\ req'[r].call = req[r].call /\ req'[r].worker = req[r].worker
        /\ \A u \in Towers \ {v} : req'[r].got[u] = req[r].got[u]
        /\ req'[r].got[v] = rows[k].status
    BY <1>1, <2>1 DEF Handlers
  <2>3. EntryGood(req[r], v)'
    BY <1>1, <2>1, <2>2 DEF EntryGood, RowGood, Terminal, k
  <2> QED BY <2>2, <2>3, KeptWorker, KeptEntry
<1>3. CASE BeginAttempt(r, v)
  <2>1. req' = [req EXCEPT ![r].begun = @ + 1, ![r].worker[v] = "posting"]
    BY <1>3 DEF BeginAttempt
  <2>2. /\ req'[r].call = req[r].call /\ req'[r].got = req[r].got
        /\ \A u \in Towers \ {v} : req'[r].worker[u] = req[r].worker[u]
        /\ req'[r].worker[v] = "posting"
    BY <1>1, <2>1 DEF Handlers
  <2>3. rows'[k].kind = req[r].call.kind
    BY <1>1, <1>3, WriteAt
  <2>4. WorkerGood(req[r], v)'
    BY <2>2, <2>3 DEF WorkerGood, k
  <2> QED BY <2>2, <2>4, KeptWorker, KeptEntry
<1>4. CASE BeginConflicts(r, v)
  BY <1>1, <1>4 DEF BeginConflicts, Serving
<1>5. CASE Finish(r, v)
  <2>1. /\ req' = [req EXCEPT ![r].got[v] = ResultOf[req[r].worker[v]]]
        /\ req[r].worker[v] \in DOMAIN ResultOf /\ held' = held
    BY <1>5 DEF Finish, storeVars
  <2>2. /\ req'[r].call = req[r].call /\ req'[r].worker = req[r].worker
        /\ \A u \in Towers \ {v} : req'[r].got[u] = req[r].got[u]
        /\ req'[r].got[v] = ResultOf[req[r].worker[v]]
    BY <1>1, <2>1 DEF Handlers
  <2>3. rows'[k].status = ResultOf[req[r].worker[v]]
    BY <1>1, <1>5, WriteAt
  <2>4. EntryGood(req[r], v)'
    BY <1>1, <2>1, <2>2, <2>3, ResultFacts DEF EntryGood, WorkerGood, k
  <2> QED BY <2>2, <2>4, KeptWorker, KeptEntry
<1>6. CASE FinishedByOther(r, v)
  <2>1. req' # [req EXCEPT ![r] = Idle]
    BY <1>1 DEF Serving
  <2>2. /\ req' = [req EXCEPT ![r].got[v] = "DELIVERED"]
        /\ rows[k].status = "DELIVERED" /\ held' = held
    BY <1>1, <1>6, <2>1 DEF FinishedByOther, storeVars
  <2>3. /\ req'[r].call = req[r].call /\ req'[r].worker = req[r].worker
        /\ \A u \in Towers \ {v} : req'[r].got[u] = req[r].got[u]
        /\ req'[r].got[v] = "DELIVERED"
    BY <1>1, <2>2 DEF Handlers
  <2>4. EntryGood(req[r], v)'
    BY <1>1, <2>2, <2>3 DEF EntryGood, RowGood, k
  <2> QED BY <2>3, <2>4, KeptWorker, KeptEntry
<1> QED BY <1>2, <1>3, <1>4, <1>5, <1>6

\* The handler whose worker at tower v comes back.
LEMMA PostingHandler ==
    ASSUME DeliveryInv, [Next]_vars, NEW r \in Requests, NEW v \in Towers,
           Post(r, v), NEW w \in Towers
    PROVE  (WorkerGood(req[r], w) /\ EntryGood(req[r], w))'
<1>1. Serving(r) /\ req[r].worker[v] = "posting"
  BY DEF Post, PostMisrouted, PostAnswered, PostAnswerLost, PostFails, PostDenied, Posting
<1>2. /\ req \in [Requests -> Handlers \cup {Idle, Gone}]
      /\ req[r] \in Handlers
      /\ req[r].worker \in [Towers -> Workers]
      /\ DeliveryTypes /\ WorkerGood(req[r], v) /\ StoreInv
  BY <1>1, HandlerFacts DEF DeliveryInv, DeliveryTypes
<1>3. ASSUME NEW result, Returns(r, v, result)
      PROVE  /\ req'[r].call = req[r].call /\ req'[r].got = req[r].got
             /\ \A u \in Towers \ {v} : req'[r].worker[u] = req[r].worker[u]
             /\ req'[r].worker[v] = result
             /\ rows' = rows
  BY <1>2, <1>3 DEF Returns, Handlers
<1>4. rows[<<req[r].call.seq, v, req[r].call.key>>].kind = req[r].call.kind
  BY <1>1, <1>2 DEF WorkerGood
<1>5. CASE Returns(r, v, "retryable")
  <2>1. WorkerGood(req[r], v)'
    BY <1>3, <1>4, <1>5 DEF WorkerGood
  <2> QED BY <1>1, <1>3, <1>5, <2>1, KeptWorker, KeptEntry
<1>6. CASE Returns(r, v, "ok") /\ AcceptPackage(v, PackageFor(r))
  <2>1. Official[req[r].call.seq] \in held'[v]
    BY <1>2, <1>6
       DEF AcceptPackage, Repeat, Store, PackageFor, StoreInv, StoreTypeOK, storeVars
  <2>2. WorkerGood(req[r], v)'
    BY <1>3, <1>4, <1>6, <2>1 DEF WorkerGood
  <2> QED BY <1>1, <1>3, <1>6, <2>2, KeptWorker, KeptEntry
<1>7. CASE Returns(r, v, "final")
           /\ (~Routed(r, v) \/ v \in Denying \/ Refuse(v, PackageFor(r)))
  <2>1. \/ req[r].call.kind # "WATCHTOWER" \/ v \in Denying
        \/ \A i \in DOMAIN Recipients : Recipients[i] # v
        \/ Official[req[r].call.seq] \in quarantine'[v]
    BY <1>2, <1>7 DEF Routed, Refuse, PackageFor, StoreInv, StoreTypeOK
  <2>2. WorkerGood(req[r], v)'
    BY <1>3, <1>4, <1>7, <2>1 DEF WorkerGood, FinallyRefused
  <2> QED BY <1>1, <1>3, <1>7, <2>2, KeptWorker, KeptEntry
<1> QED BY <1>5, <1>6, <1>7
        DEF Post, PostMisrouted, PostAnswered, PostAnswerLost, PostFails, PostDenied

LEMMA HandlersStep ==
    ASSUME DeliveryInv, [Next]_vars, NEW q \in Requests, Serving(q)', NEW w \in Towers
    PROVE  (WorkerGood(req[q], w) /\ EntryGood(req[q], w))'
<1>1. req \in [Requests -> Handlers \cup {Idle, Gone}]
  BY DEF DeliveryInv, DeliveryTypes
<1>2. CASE req'[q] = req[q]
  BY <1>2, KeptHandler DEF Serving
<1>3. ASSUME NEW r \in Requests, NEW call \in Asked, Call(r, call), req'[q] # req[q]
      PROVE  (WorkerGood(req[q], w) /\ EntryGood(req[q], w))'
  <2>1. req'[q] = Handler(call)
    BY <1>1, <1>3 DEF Call
  <2>2. req'[q].worker[w] = "none" /\ req'[q].got[w] = "none"
    BY <2>1 DEF Handler
  <2> QED BY <2>2 DEF WorkerGood, EntryGood
<1>4. ASSUME NEW r \in Requests, Respond(r) \/ Abandon(r), req'[q] # req[q]
      PROVE  FALSE
  BY <1>1, <1>4 DEF Respond, Abandon, Serving
<1>5. ASSUME NEW r \in Requests, NEW v \in Towers, Serving(r), req'[q] # req[q],
             BeginCompleted(r, v) \/ BeginAttempt(r, v) \/ BeginConflicts(r, v)
               \/ Finish(r, v) \/ FinishedByOther(r, v)
      PROVE  (WorkerGood(req[q], w) /\ EntryGood(req[q], w))'
  <2>1. r = q
    BY <1>1, <1>5
       DEF BeginCompleted, BeginAttempt, BeginConflicts, Finish, FinishedByOther
  <2> QED BY <1>5, <2>1, ActingHandler
<1>6. ASSUME NEW r \in Requests, NEW v \in Towers, Post(r, v), req'[q] # req[q]
      PROVE  (WorkerGood(req[q], w) /\ EntryGood(req[q], w))'
  <2>1. r = q
    BY <1>1, <1>6
       DEF Post, PostMisrouted, PostAnswered, PostAnswerLost, PostFails, PostDenied, Returns
  <2> QED BY <1>6, <2>1, PostingHandler
<1>7. (UNCHANGED vars \/ Sign \/ \E v \in Towers, p \in Packages : Arrive(v, p))
      => req' = req
  BY DEF vars, hubVars, Sign, Arrive
<1> QED BY <1>2, <1>3, <1>4, <1>5, <1>6, <1>7 DEF Next, Handle

-----------------------------------------------------------------------------
(* Answers                                                                 *)

LEMMA TwoMembers ==
    ASSUME NEW S, IsFiniteSet(S), NEW x \in S, NEW y \in S, x # y
    PROVE  Cardinality(S) >= 2
<1>1. IsFiniteSet({x}) /\ Cardinality({x}) = 1
  BY FS_Singleton
<1>2. IsFiniteSet({x} \cup {y}) /\ Cardinality({x} \cup {y}) = 2
  <2>1. y \notin {x}
    OBVIOUS
  <2>2. Cardinality({x} \cup {y}) = IF y \in {x} THEN Cardinality({x}) ELSE Cardinality({x}) + 1
    BY <1>1, FS_AddElement
  <2> QED BY <1>1, <2>1, <2>2, FS_AddElement
<1>3. Cardinality({x} \cup {y}) <= Cardinality(S)
  BY FS_Subset
<1>4. Cardinality(S) \in Nat
  BY FS_CardinalityType
<1> QED BY <1>2, <1>3, <1>4

LEMMA GrowingCount ==
    ASSUME NEW S \in SUBSET Towers, NEW U \in SUBSET Towers, S \subseteq U,
           Cardinality(S) >= 2
    PROVE  Cardinality(U) >= 2
<1>1. IsFiniteSet(Towers)
  BY DeliveryAssumption
<1>2. IsFiniteSet(S) /\ IsFiniteSet(U)
  BY <1>1, FS_Subset
<1>3. Cardinality(S) \in Nat /\ Cardinality(U) \in Nat /\ Cardinality(S) <= Cardinality(U)
  BY <1>2, FS_Subset, FS_CardinalityType
<1> QED BY <1>3

\* An answer keeps its truth: holders and final failures only get more.
LEMMA AnswerStays ==
    ASSUME DeliveryInv, [Next]_vars, NEW x \in answers
    PROVE  AnswerGood(x)'
<1>1. DeliveryTypes /\ StoreInv /\ AnswerGood(x) /\ x.seq \in Seqs /\ x.key \in Keys
  BY DEF DeliveryInv, DeliveryTypes
<1>2. Holders(x.seq) \subseteq Holders(x.seq)'
  BY <1>1, TowersKeep DEF Holders
<1>3. Failed(x.seq, x.key) \subseteq Failed(x.seq, x.key)'
  BY <1>1, RowsKeep DEF Failed, RowKeys, Terminal
<1>4. /\ Holders(x.seq) \subseteq Towers /\ Holders(x.seq)' \subseteq Towers
      /\ Failed(x.seq, x.key) \subseteq Towers /\ Failed(x.seq, x.key)' \subseteq Towers
  BY DEF Holders, Failed
<1>5. x.answer = "quorum_met" => Cardinality(Holders(x.seq)') >= 2
  BY <1>1, <1>2, <1>4, GrowingCount DEF AnswerGood
<1>6. x.answer = "final" => Cardinality(Failed(x.seq, x.key)') >= 2
  BY <1>1, <1>3, <1>4, GrowingCount DEF AnswerGood
<1> QED BY <1>5, <1>6 DEF AnswerGood

\* Of three results of which fewer than two are a delivery or may be
\* retried, two are final.
LEMMA FinalCount ==
    ASSUME DeliveryInv, NEW r \in Requests, Respond(r), IsQuorum(req[r].call),
           QuorumAnswer(r) = "final"
    PROVE  Cardinality(Failed(req[r].call.seq, req[r].call.key)) >= 2
<1> DEFINE got == req[r].got
           D == {w \in Towers : got[w] = "DELIVERED"}
           R == {w \in Towers : got[w] = "FAILED_RETRYABLE"}
           F == Failed(req[r].call.seq, req[r].call.key)
<1>1. /\ Serving(r) /\ req[r].call.targets = Recipients
      /\ \A i \in 1..3 : got[Recipients[i]] # "none"
  BY DeliveryAssumption DEF Respond, IsQuorum
<1>2. /\ IsFiniteSet(Towers) /\ \A i \in 1..3 : Recipients[i] \in Towers
      /\ \A i, j \in 1..3 : Recipients[i] = Recipients[j] => i = j
  <2>1. IsFiniteSet(Towers) /\ Recipients \in Seq(Towers) /\ Len(Recipients) = 3
    BY DeliveryAssumption
  <2>2. DOMAIN Recipients = 1..3
    BY <2>1
  <2>3. \A i \in DOMAIN Recipients : Recipients[i] \in Towers
    BY <2>1
  <2> QED BY <2>1, <2>2, <2>3, DeliveryAssumption
<1>3. got \in [Towers -> Statuses \cup {"none"}]
  BY <1>1, HandlerFacts DEF DeliveryInv
<1>4. \A w \in Towers : got[w] # "PENDING"
  BY <1>1 DEF DeliveryInv, EntryGood
<1>5. \A w \in Towers : got[w] = "FAILED_FINAL" => w \in F
  BY <1>1 DEF DeliveryInv, EntryGood, Failed
<1>6. /\ IsFiniteSet(D) /\ IsFiniteSet(R) /\ IsFiniteSet(D \cup R) /\ IsFiniteSet(F)
      /\ Cardinality(D) \in Nat /\ Cardinality(R) \in Nat
      /\ Cardinality(D \cup R) = Cardinality(D) + Cardinality(R)
  <2>1. D \subseteq Towers /\ R \subseteq Towers /\ F \subseteq Towers
    BY DEF Failed
  <2>2. IsFiniteSet(D) /\ IsFiniteSet(R) /\ IsFiniteSet(F)
    BY <1>2, <2>1, FS_Subset
  <2>3. D \cap R = {}
    OBVIOUS
  <2>4. Cardinality(D) \in Nat /\ Cardinality(R) \in Nat /\ Cardinality(D \cap R) = 0
    BY <2>2, <2>3, FS_CardinalityType, FS_EmptySet
  <2>5. /\ IsFiniteSet(D \cup R)
        /\ Cardinality(D \cup R) = Cardinality(D) + Cardinality(R) - Cardinality(D \cap R)
    BY <2>2, FS_Union
  <2> QED BY <2>2, <2>4, <2>5
<1>7. Cardinality(D) + Cardinality(R) < 2
  <2>1. ~(Count(r, "DELIVERED") + Count(r, "FAILED_RETRYABLE") >= 2)
    BY DEF QuorumAnswer, QUORUM_REQUIRED
  <2>2. Count(r, "DELIVERED") = Cardinality(D) /\ Count(r, "FAILED_RETRYABLE") = Cardinality(R)
    BY DEF Count
  <2> QED BY <1>6, <2>1, <2>2
<1>8. \A w \in Towers : got[w] \notin {"none"} => w \in F \/ w \in D \cup R
  BY <1>3, <1>4, <1>5 DEF Statuses, Terminal
<1>9. \A i, j \in 1..3 :
        i # j => Recipients[i] \in F \/ Recipients[j] \in F
  <2> SUFFICES ASSUME NEW i \in 1..3, NEW j \in 1..3, i # j,
                      Recipients[i] \in D \cup R, Recipients[j] \in D \cup R
               PROVE  FALSE
    BY <1>1, <1>2, <1>8
  <2>1. Recipients[i] # Recipients[j]
    BY <1>2
  <2>2. Cardinality(D \cup R) >= 2
    BY <1>6, <2>1, TwoMembers
  <2> QED BY <1>6, <1>7, <2>2
<1> HIDE DEF F, D, R
<1>10. \E i, j \in 1..3 : i # j /\ Recipients[i] \in F /\ Recipients[j] \in F
  BY <1>9
<1>11. PICK i \in 1..3, j \in 1..3 : i # j /\ Recipients[i] \in F /\ Recipients[j] \in F
  BY <1>10
<1>12. Recipients[i] # Recipients[j]
  BY <1>2, <1>11
<1>13. Cardinality(F) >= 2
  BY <1>6, <1>11, <1>12, TwoMembers
<1> QED BY <1>13 DEF F

\* The towers counted as delivered hold the package.
LEMMA MetCount ==
    ASSUME DeliveryInv, NEW r \in Requests, Respond(r), QuorumAnswer(r) = "quorum_met"
    PROVE  Cardinality(Holders(req[r].call.seq)) >= 2
<1> DEFINE D == {w \in Towers : req[r].got[w] = "DELIVERED"}
<1>1. D \subseteq Holders(req[r].call.seq)
  BY DEF Respond, DeliveryInv, EntryGood, Holders
<1>2. Cardinality(D) >= 2
  BY DEF QuorumAnswer, QUORUM_REQUIRED, Count
<1>3. D \subseteq Towers /\ Holders(req[r].call.seq) \subseteq Towers
  BY DEF Holders
<1> QED BY <1>1, <1>2, <1>3, GrowingCount

LEMMA AnswersStep ==
    ASSUME DeliveryInv, [Next]_vars, NEW x \in answers'
    PROVE  AnswerGood(x)'
<1>1. CASE x \in answers
  BY <1>1, AnswerStays
<1>2. ASSUME NEW r \in Requests, Respond(r), x \notin answers
      PROVE  AnswerGood(x)'
  <2>1. /\ IsQuorum(req[r].call)
        /\ x = [seq |-> req[r].call.seq, key |-> req[r].call.key,
                answer |-> QuorumAnswer(r)]
    BY <1>2 DEF Respond
  <2>2. held' = held /\ rows' = rows
    BY <1>2 DEF Respond, storeVars
  <2>3. AnswerGood(x)
    BY <1>2, <2>1, FinalCount, MetCount DEF AnswerGood
  <2> QED BY <2>2, <2>3 DEF AnswerGood, Holders, Failed
<1>3. ASSUME \A r \in Requests : ~Respond(r)
      PROVE  answers' = answers
  <2>1. ASSUME NEW r \in Requests, NEW w \in Towers,
               BeginCompleted(r, w) \/ BeginAttempt(r, w) \/ BeginConflicts(r, w)
                 \/ Finish(r, w) \/ FinishedByOther(r, w)
        PROVE  answers' = answers
    BY <2>1 DEF BeginCompleted, BeginAttempt, BeginConflicts, Finish, FinishedByOther
  <2>2. ASSUME NEW r \in Requests, NEW w \in Towers, Post(r, w)
        PROVE  answers' = answers
    BY <2>2 DEF Post, PostMisrouted, PostAnswered, PostAnswerLost, PostFails, PostDenied,
                Returns
  <2>3. ASSUME NEW r \in Requests, Abandon(r) \/ \E call \in Asked : Call(r, call)
        PROVE  answers' = answers
    BY <2>3 DEF Abandon, Call
  <2>4. (UNCHANGED vars \/ Sign \/ \E w \in Towers, p \in Packages : Arrive(w, p))
        => answers' = answers
    BY DEF vars, hubVars, Sign, Arrive
  <2> QED BY <1>3, <2>1, <2>2, <2>3, <2>4 DEF Next, Handle
<1> QED BY <1>1, <1>2, <1>3

-----------------------------------------------------------------------------
(* The theorems                                                            *)

LEMMA DeliveryInvInit == Init => DeliveryInv
<1> SUFFICES ASSUME Init
             PROVE  DeliveryInv
  OBVIOUS
<1>1. StoreInv /\ DeliveryTypes
  BY TypesInit, StoreInitInv DEF Init
<1>2. \A k \in RowKeys : RowGood(k)
  BY DEF Init, NoRow, RowGood
<1>3. \A r \in Requests : ~Serving(r)
  BY DEF Init, Serving
<1> QED BY <1>1, <1>2, <1>3 DEF Init, DeliveryInv

LEMMA DeliveryInvStep == DeliveryInv /\ [Next]_vars => DeliveryInv'
<1> SUFFICES ASSUME DeliveryInv, [Next]_vars
             PROVE  DeliveryInv'
  OBVIOUS
<1>1. DeliveryTypes /\ StoreInv
  BY DEF DeliveryInv
<1>2. DeliveryTypes' /\ StoreInv'
  BY <1>1, TypesStep, TowersKeep
<1>3. \A k \in RowKeys : RowGood(k)'
  BY RowsGoodStep
<1>4. \A r \in Requests : Serving(r)' =>
         \A w \in Towers : (WorkerGood(req[r], w) /\ EntryGood(req[r], w))'
  BY HandlersStep
<1>5. \A x \in answers' : AnswerGood(x)'
  BY AnswersStep
<1> QED BY <1>2, <1>3, <1>4, <1>5 DEF DeliveryInv

\* Rows, workers, handlers and towers agree, in every interleaving of the
\* handlers of api.rs with the calls to the towers.
THEOREM DeliveryInvariant == Spec => []DeliveryInv
BY DeliveryInvInit, DeliveryInvStep, PTL DEF Spec

\* A row that finish_recovery_delivery set to DELIVERED is a package held.
THEOREM DeliveredIsAlwaysHeld == Spec => []DeliveredIsHeld
<1>1. DeliveryInv => DeliveredIsHeld
  BY DEF DeliveryInv, RowGood, DeliveredIsHeld
<1> QED BY <1>1, DeliveryInvariant, PTL

\* A row that is FAILED_FINAL is a package refused, or turned away before
\* the tower.
THEOREM FailedIsAlwaysRefused == Spec => []FailedIsRefused
<1>1. DeliveryInv => FailedIsRefused
  BY DEF DeliveryInv, RowGood, FinallyRefused, FailedIsRefused
<1> QED BY <1>1, DeliveryInvariant, PTL

\* A tower that holds a signed state's package can defend the state, though
\* its head may have moved on.
LEMMA HoldersDefend ==
    ASSUME StoreInv, NEW s \in Seqs
    PROVE  Holders(s) \subseteq Defenders(s)
<1> SUFFICES ASSUME NEW w \in Towers, Official[s] \in held[w]
             PROVE  \E q \in HeldAt(w, head[w]) :
                      q.seq >= s /\ IsPrefix(Official[s].entries, q.entries)
  BY DEF Holders, Defenders
<1> DEFINE p == Official[s]
<1>1. /\ p \in Packages /\ p.seq = s /\ s \in Nat /\ p.entries \in Seq(Entries)
      /\ s <= head[w] /\ s > 0 /\ head[w] \in Nat
  BY SeqsFacts, PackageAssumption
     DEF StoreInv, HeldIsOneLedger, HeldIsGood, StoreTypeOK
<1>2. PICK q \in HeldAt(w, head[w]) : TRUE
  BY <1>1 DEF StoreInv, HeldIsOneLedger
<1>3. q \in held[w] /\ q.seq = head[w]
  BY DEF HeldAt
<1>4. CASE q.seq = p.seq
  BY <1>1, <1>3, <1>4, PrefixReflexive DEF StoreInv, HeldIsOneLedger, HeldAt
<1>5. CASE q.seq > p.seq
  BY <1>1, <1>3, <1>5 DEF StoreInv, HeldIsOneLedger, HeldAt
<1> QED BY <1>1, <1>3, <1>4, <1>5

\* A client told quorum_met, or that no retry helps, is told the truth for
\* good.
THEOREM QuorumAnswersAlwaysHold == Spec => []QuorumAnswersHold
<1>1. DeliveryInv => QuorumAnswersHold
  <2> SUFFICES ASSUME DeliveryInv, NEW x \in answers
               PROVE  /\ x.answer = "quorum_met" => Cardinality(Defenders(x.seq)) >= 2
                      /\ x.answer = "final" => Cardinality(Failed(x.seq, x.key)) >= 2
    BY DEF QuorumAnswersHold, Failed
  <2>1. AnswerGood(x) /\ x.seq \in Seqs /\ StoreInv
    BY DEF DeliveryInv, DeliveryTypes
  <2>2. /\ Holders(x.seq) \subseteq Defenders(x.seq)
        /\ Holders(x.seq) \subseteq Towers /\ Defenders(x.seq) \subseteq Towers
    BY <2>1, HoldersDefend DEF Holders, Defenders
  <2> QED BY <2>1, <2>2, GrowingCount DEF AnswerGood
<1> QED BY <1>1, DeliveryInvariant, PTL
=============================================================================
