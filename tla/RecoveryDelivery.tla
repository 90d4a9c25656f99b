-------------------------- MODULE RecoveryDelivery --------------------------
(***************************************************************************)
(* How the HUB brings a signed state's RecoveryPackage to the watchtowers: *)
(* hub-v3_6/src/lib.rs (v36_recovery_deliveries), api.rs (the delivery     *)
(* handlers) and transport.rs, composed with the towers of PackageStore.   *)
(*                                                                         *)
(*     Begin      begin_recovery_delivery: the row becomes PENDING         *)
(*     Post*      the transport's call to the tower, in a worker, while    *)
(*                the HUB's store is unlocked                              *)
(*     Finish     finish_recovery_delivery: PENDING becomes the result     *)
(*     Respond    the handler's HTTP answer                                *)
(*                                                                         *)
(* One HUB process serves these calls; begin and finish hold its store's   *)
(* mutex, and are one action each.  Handlers interleave everywhere else.   *)
(* A handler may vanish at any await, when its client hangs up or the HUB  *)
(* dies: Abandon.  Its workers' calls may still arrive, and packages also  *)
(* come from operators' scripts: Arrive.                                   *)
(*                                                                         *)
(* attempt_count, last_error and the times are written and never read.     *)
(* The package of a sequence never changes (HubStore), so that the hashes  *)
(* of a row cannot differ from those of a later call for it.               *)
(***************************************************************************)
EXTENDS PackageStore

CONSTANTS
    Official,   \* the packages of the HUB's states, by state_sequence
    Foreign,    \* the packages each tower gets that are not the HUB's
    Recipients, \* recipient_ids() of the transport, in order
    Keys,       \* idempotency_key
    Requests,   \* the handlers running at one time
    Asked,      \* the calls clients make
    Denying     \* towers a call may fail for good on the way to

QUORUM_REQUIRED == 2

\* WatchtowerHttpTransportSet::new insists on three recipients, all different.
\* The HUB's own packages are one ledger (proved of HubStore).
ASSUME DeliveryAssumption ==
    /\ IsFiniteSet(Towers)
    /\ Official \in Seq(Packages)
    /\ \A i \in DOMAIN Official :
         /\ Official[i].seq = i /\ Official[i].valid /\ Storable(Official[i])
         /\ \A j \in 1..(i - 1) : Extends(Official[i], Official[j])
    /\ Foreign \in [Towers -> SUBSET Packages]
    /\ Recipients \in Seq(Towers) /\ Len(Recipients) = 3
    /\ \A i, j \in 1..3 : Recipients[i] = Recipients[j] => i = j

VARIABLES
    signed,     \* latest_sequence: the states that have a package
    rows,       \* v36_recovery_deliveries
    req,        \* the handlers and their workers
    answers     \* history: the quorum answers given that say yes or never

hubVars == <<signed, rows, req, answers>>
vars == <<storeVars, hubVars>>

-----------------------------------------------------------------------------
(* Values                                                                  *)

Seqs == DOMAIN Official

Terminal == {"DELIVERED", "FAILED_FINAL"}
Statuses == Terminal \cup {"PENDING", "FAILED_RETRYABLE"}
Kinds == {"MERCHANT", "WATCHTOWER"}

RowKeys == Seqs \X Towers \X Keys
NoRow == [kind |-> "none", status |-> "none"]
Rows == [kind : Kinds, status : Statuses]

\* What a worker is doing for a handler, and what deliver returned.
Workers == {"none", "posting", "ok", "retryable", "final"}
ResultOf == [ ok |-> "DELIVERED", retryable |-> "FAILED_RETRYABLE",
              final |-> "FAILED_FINAL" ]

\* A handler: what it was asked, how many of its targets it has begun with,
\* and each target's worker and entry in "deliveries".
Calls == [seq : Seqs, key : Keys, kind : Kinds,
          targets : {Recipients} \cup {<<w>> : w \in Towers}]
Idle == [call |-> "none"]
Gone == [call |-> "abandoned"]
Handlers == [call : Calls, begun : 0..3, worker : [Towers -> Workers],
             got : [Towers -> Statuses \cup {"none"}]]

Handler(call) ==
    [ call |-> call, begun |-> 0, worker |-> [w \in Towers |-> "none"],
      got |-> [w \in Towers |-> "none"] ]

\* deliver_recovery_package_quorum asks for all the recipients at once.
IsQuorum(call) == call.targets = Recipients

ASSUME AskedAssumption ==
    /\ Asked \subseteq Calls
    /\ \A call \in Asked : IsQuorum(call) => call.kind = "WATCHTOWER"

Init ==
    /\ StoreInit
    /\ signed = 0
    /\ rows = [k \in RowKeys |-> NoRow]
    /\ req = [r \in Requests |-> Idle]
    /\ answers = {}

-----------------------------------------------------------------------------
(* The HUB                                                                 *)

Serving(r) == req[r] \notin {Idle, Gone}
PackageFor(r) == Official[req[r].call.seq]
RowOf(r, w) == <<req[r].call.seq, w, req[r].call.key>>

\* A reservation is signed (HubStore's CommitState).
Sign ==
    /\ signed < Len(Official)
    /\ signed' = signed + 1
    /\ UNCHANGED <<storeVars, rows, req, answers>>

CallUnsigned(r, call) ==                                             \* mutant
    /\ ~Serving(r)
    /\ req' = [req EXCEPT ![r] = Handler(call)]
    /\ UNCHANGED <<storeVars, signed, rows, answers>>

\* recovery_package finds no package of a state before it is signed: the
\* handlers answer 404, and begin_recovery_delivery writes no row.
Call(r, call) ==
    /\ ~Serving(r)
    /\ call.seq <= signed
    /\ req' = [req EXCEPT ![r] = Handler(call)]
    /\ UNCHANGED <<storeVars, signed, rows, answers>>

\* The next recipient to begin with, and the next whose worker is awaited.
BeginsWith(r, w) ==
    LET h == req[r] IN
    /\ h.begun < Len(h.call.targets)
    /\ w = h.call.targets[h.begun + 1]

AwaitsNext(r, w) ==
    LET h == req[r] IN
    /\ h.begun = Len(h.call.targets)
    /\ \E i \in DOMAIN h.call.targets :
         /\ w = h.call.targets[i]
         /\ h.got[w] = "none"
         /\ \A j \in 1..(i - 1) : h.got[h.call.targets[j]] # "none"

\* begin_recovery_delivery returns the existing result of a completed key.
BeginCompleted(r, w) ==
    LET row == rows[RowOf(r, w)] IN
    /\ BeginsWith(r, w)
    /\ row.kind = req[r].call.kind
    /\ row.status \in Terminal
    /\ req' = [req EXCEPT ![r].begun = @ + 1, ![r].got[w] = row.status]
    /\ UNCHANGED <<storeVars, signed, rows, answers>>

BeginUnlessPending(r, w) ==                                          \* mutant
    LET row == rows[RowOf(r, w)] IN
    /\ BeginsWith(r, w)
    /\ row = NoRow \/ row.status = "FAILED_RETRYABLE"
    /\ rows' = [rows EXCEPT ![RowOf(r, w)] =
                    [kind |-> req[r].call.kind, status |-> "PENDING"]]
    /\ req' = [req EXCEPT ![r].begun = @ + 1, ![r].worker[w] = "posting"]
    /\ UNCHANGED <<storeVars, signed, answers>>

\* A new or retried delivery, for which a worker is started.
BeginAttempt(r, w) ==
    LET row == rows[RowOf(r, w)] IN
    /\ BeginsWith(r, w)
    /\ \/ row = NoRow
       \/ row.kind = req[r].call.kind /\ row.status \notin Terminal
    /\ rows' = [rows EXCEPT ![RowOf(r, w)] =
                    [kind |-> req[r].call.kind, status |-> "PENDING"]]
    /\ req' = [req EXCEPT ![r].begun = @ + 1, ![r].worker[w] = "posting"]
    /\ UNCHANGED <<storeVars, signed, answers>>

\* NonceConflict: the key is bound to another recipient_kind.  The handler
\* returns; what it has begun with other recipients is left PENDING.
BeginConflicts(r, w) ==
    LET row == rows[RowOf(r, w)] IN
    /\ BeginsWith(r, w)
    /\ row # NoRow /\ row.kind # req[r].call.kind
    /\ req' = [req EXCEPT ![r] = Idle]
    /\ UNCHANGED <<storeVars, signed, rows, answers>>

\* finish_recovery_delivery, whichever attempt the row is PENDING for.
FinishAnyway(r, w) ==                                                \* mutant
    /\ AwaitsNext(r, w)
    /\ req[r].worker[w] \in DOMAIN ResultOf
    /\ rows' = [rows EXCEPT ![RowOf(r, w)].status = ResultOf[req[r].worker[w]]]
    /\ req' = [req EXCEPT ![r].got[w] = ResultOf[req[r].worker[w]]]
    /\ UNCHANGED <<storeVars, signed, answers>>

Finish(r, w) ==
    /\ AwaitsNext(r, w)
    /\ req[r].worker[w] \in DOMAIN ResultOf
    /\ rows[RowOf(r, w)].status = "PENDING"
    /\ rows' = [rows EXCEPT ![RowOf(r, w)].status = ResultOf[req[r].worker[w]]]
    /\ req' = [req EXCEPT ![r].got[w] = ResultOf[req[r].worker[w]]]
    /\ UNCHANGED <<storeVars, signed, answers>>

\* Another attempt has finished the row: a delivery by it counts, anything
\* else is a StateConflict, at which the handler returns.
FinishedByOther(r, w) ==
    /\ AwaitsNext(r, w)
    /\ req[r].worker[w] \in DOMAIN ResultOf
    /\ rows[RowOf(r, w)].status # "PENDING"
    /\ req' = IF rows[RowOf(r, w)].status = "DELIVERED"
                THEN [req EXCEPT ![r].got[w] = "DELIVERED"]
                ELSE [req EXCEPT ![r] = Idle]
    /\ UNCHANGED <<storeVars, signed, rows, answers>>

Count(r, status) == Cardinality({w \in Towers : req[r].got[w] = status})

AnswerOffByOne(r) ==                                                 \* mutant
    IF Count(r, "DELIVERED") >= QUORUM_REQUIRED THEN "quorum_met"
    ELSE IF Count(r, "DELIVERED") + Count(r, "FAILED_RETRYABLE") > QUORUM_REQUIRED
           THEN "retry"
           ELSE "final"

\* The HTTP status of the quorum handler: 200, 503, 422.
QuorumAnswer(r) ==
    IF Count(r, "DELIVERED") >= QUORUM_REQUIRED THEN "quorum_met"
    ELSE IF Count(r, "DELIVERED") + Count(r, "FAILED_RETRYABLE") >= QUORUM_REQUIRED
           THEN "retry"
           ELSE "final"

Respond(r) ==
    LET h == req[r] IN
    /\ Serving(r)
    /\ \A i \in DOMAIN h.call.targets : h.got[h.call.targets[i]] # "none"
    /\ answers' =
         IF IsQuorum(h.call) /\ QuorumAnswer(r) # "retry"
           THEN answers \cup {[seq |-> h.call.seq, key |-> h.call.key,
                               answer |-> QuorumAnswer(r)]}
           ELSE answers
    /\ req' = [req EXCEPT ![r] = Idle]
    /\ UNCHANGED <<storeVars, signed, rows>>

Abandon(r) ==
    /\ Serving(r)
    /\ req' = [req EXCEPT ![r] = Gone]
    /\ UNCHANGED <<storeVars, signed, rows, answers>>

-----------------------------------------------------------------------------
(* WatchtowerHttpTransport::deliver and the towers' answers                *)

Posting(r, w) == Serving(r) /\ req[r].worker[w] = "posting"

Returns(r, w, result) ==
    /\ req' = [req EXCEPT ![r].worker[w] = result]
    /\ UNCHANGED <<signed, rows, answers>>

Routed(r, w) ==
    /\ req[r].call.kind = "WATCHTOWER"
    /\ \E i \in DOMAIN Recipients : Recipients[i] = w

PostMisrouted(r, w) ==
    /\ Posting(r, w)
    /\ ~Routed(r, w)
    /\ Returns(r, w, "final")
    /\ UNCHANGED storeVars

PostedIsDelivered(r, w) ==                                           \* mutant
    /\ Posting(r, w) /\ Routed(r, w)
    /\ AcceptPackage(w, PackageFor(r)) \/ Refuse(w, PackageFor(r))
    /\ Returns(r, w, "ok")

\* 200 with the package's hash, or INVALID_PACKAGE, a 400.
PostAnswered(r, w) ==
    /\ Posting(r, w) /\ Routed(r, w)
    /\ \/ AcceptPackage(w, PackageFor(r)) /\ Returns(r, w, "ok")
       \/ Refuse(w, PackageFor(r)) /\ Returns(r, w, "final")

\* The tower did its part; a timeout, a broken connection, a 5xx or an
\* unreadable body is what comes back.
PostAnswerLost(r, w) ==
    /\ Posting(r, w) /\ Routed(r, w)
    /\ AcceptPackage(w, PackageFor(r)) \/ Refuse(w, PackageFor(r))
    /\ Returns(r, w, "retryable")

PostFailsForGood(r, w) ==                                            \* mutant
    /\ Posting(r, w) /\ Routed(r, w)
    /\ Returns(r, w, "final")
    /\ UNCHANGED storeVars

\* The call failed before the tower did anything.
PostFails(r, w) ==
    /\ Posting(r, w) /\ Routed(r, w)
    /\ Returns(r, w, "retryable")
    /\ UNCHANGED storeVars

\* 401, a proxy's 4xx, or a client that cannot be built: not retryable,
\* whatever the tower would say.
PostDenied(r, w) ==
    /\ Posting(r, w) /\ Routed(r, w)
    /\ w \in Denying
    /\ Returns(r, w, "final")
    /\ UNCHANGED storeVars

\* A package comes to a tower without a handler waiting for the answer.
Arrive(w, p) ==
    /\ p \in Foreign[w] \cup {Official[i] : i \in 1..signed}
    /\ AcceptPackage(w, p) \/ Refuse(w, p)
    /\ UNCHANGED hubVars

-----------------------------------------------------------------------------
(* Specification                                                           *)

Post(r, w) ==
    \/ PostMisrouted(r, w)
    \/ PostAnswered(r, w)
    \/ PostAnswerLost(r, w)
    \/ PostFails(r, w)
    \/ PostDenied(r, w)

Handle(r) ==
    \/ \E w \in Towers :
         \/ BeginCompleted(r, w)
         \/ BeginAttempt(r, w)
         \/ BeginConflicts(r, w)
         \/ Finish(r, w)
         \/ FinishedByOther(r, w)
    \/ Respond(r)

Next ==
    \/ Sign
    \/ \E r \in Requests :
         \/ \E call \in Asked : Call(r, call)
         \/ Serving(r) /\ Handle(r)
         \/ \E w \in Towers : Post(r, w)
         \/ Abandon(r)
    \/ \E w \in Towers, p \in Packages : Arrive(w, p)

Spec == Init /\ [][Next]_vars

-----------------------------------------------------------------------------
(* Safety                                                                  *)

DeliveryTypes ==
    /\ StoreTypeOK
    /\ signed \in 0..Len(Official)
    /\ rows \in [RowKeys -> Rows \cup {NoRow}]
    /\ req \in [Requests -> Handlers \cup {Idle, Gone}]
    /\ answers \subseteq [seq : Seqs, key : Keys, answer : {"quorum_met", "final"}]

\* Nothing is delivered of a state before the HUB has signed it.
OnlySigned ==
    /\ \A k \in RowKeys : rows[k] # NoRow => k[1] <= signed
    /\ \A r \in Requests : Serving(r) => req[r].call.seq <= signed

\* Rows, handlers and answers are of the calls that clients make, and of
\* states that are signed: a package the HUB may still sign differently, or
\* never, has no row, no handler and no worker on the way to a tower.
DeliveryTypeOK == DeliveryTypes /\ OnlySigned

\* A delivery that is DELIVERED is held by the tower, whichever of several
\* attempts wrote the result and whatever became of the others.
DeliveredIsHeld ==
    \A k \in RowKeys :
        rows[k].status = "DELIVERED" => Official[k[1]] \in held[k[2]]

\* A delivery to a tower that is FAILED_FINAL really is: the tower keeps the
\* package as refused (and by AnswersStand never accepts it), unless
\* something before the tower turned the call away.
FailedIsRefused ==
    \A k \in RowKeys :
        rows[k] = [kind |-> "WATCHTOWER", status |-> "FAILED_FINAL"] =>
            \/ k[2] \in Denying
            \/ \A i \in DOMAIN Recipients : Recipients[i] # k[2]
            \/ Official[k[1]] \in quarantine[k[2]]

\* The towers that would challenge with a state at least as good as state s.
Defenders(s) ==
    {w \in Towers : \E q \in HeldAt(w, head[w]) :
        q.seq >= s /\ IsPrefix(Official[s].entries, q.entries)}

\* A client told quorum_met may rely on it from then on: two towers can
\* defend the state.  One told that no retry helps is told the truth: two
\* of the deliveries under its key are final failures.
QuorumAnswersHold ==
    \A x \in answers :
        /\ x.answer = "quorum_met" => Cardinality(Defenders(x.seq)) >= 2
        /\ x.answer = "final" =>
             Cardinality({w \in Towers :
                 rows[<<x.seq, w, x.key>>].status = "FAILED_FINAL"}) >= 2

\* "A DELIVERED or FAILED_FINAL record is terminal" (HTTP-API.md:66), though
\* several attempts may be on their way for one record.
CompletedStays ==
    [][ \A k \in RowKeys :
          rows[k].status \in Terminal => rows'[k] = rows[k] ]_vars

-----------------------------------------------------------------------------
(* Liveness                                                                *)

QuorumCalls == {call \in Asked : IsQuorum(call)}

\* Handlers and workers wait for nothing but each other; a call has a
\* timeout.  A tower is not for ever unreachable.  Clients keep asking for
\* the quorum with one key, as HTTP-API.md:66 tells them, and clients and
\* the HUB stop dropping requests some day.
Fairness ==
    /\ \A r \in Requests :
         /\ WF_vars(Serving(r) /\ Handle(r))
         /\ \A w \in Towers : WF_vars(Post(r, w)) /\ SF_vars(PostAnswered(r, w))
    /\ \A call \in QuorumCalls : SF_vars(\E r \in Requests : Call(r, call))

FairSpec == Spec /\ Fairness /\ <>[][~\E r \in Requests : Abandon(r)]_vars

\* Every signed state clients ask to deliver can be defended by two towers
\* in the end, although packages overtake each other, so that a tower may
\* refuse a state's package for having a later one, and although one tower's
\* proxy may turn every call away.
SignedReachesQuorum ==
    \A call \in QuorumCalls :
        signed >= call.seq ~> Cardinality(Defenders(call.seq)) >= 2

\* A delivery left PENDING by a crash is completed by the retries.
PendingCompletes ==
    \A k \in {<<call.seq, w, call.key>> : call \in QuorumCalls, w \in Towers} :
        rows[k].status = "PENDING" ~> rows[k].status \in Terminal
=============================================================================
