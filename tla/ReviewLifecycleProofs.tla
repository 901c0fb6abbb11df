----------------------- MODULE ReviewLifecycleProofs -----------------------
(***************************************************************************)
(* Proofs about ReviewLifecycle: the provider is dispatched once, a review *)
(* that is over stays as it is, and leases move forward.                   *)
(***************************************************************************)
EXTENDS ReviewLifecycle, TLAPS

(* The dispatch count is only bounded together with the status it is bound to. *)
IInv == ReviewTypeOK /\ ReviewDispatchOnce

(* What the fields of an event are. *)
LEMMA EventFields ==
    ASSUME NEW e \in ReviewEvents
    PROVE  /\ e.type \in {"claimed", "renewed", "dispatched", "succeeded", "failed",
                          "requeued", "reconciliation"}
           /\ e.by \in Principals
           /\ e.at \in Nat /\ e.until \in Nat /\ e.token \in Nat
           /\ e.snapshot \in Snapshots
  BY ReviewBounds, JobBounds DEF ReviewEvents, Times

(* An event folds into a state of the same authors. *)
LEMMA FoldTyped ==
    ASSUME NEW r \in ReviewState, NEW e \in ReviewEvents
    PROVE  ReviewFold(r, e) \in ReviewState /\ ReviewFold(r, e).actors = r.actors
  <1>1. CASE e.type = "claimed"
    BY <1>1, EventFields DEF ReviewFold, ClaimReview, ReviewState, ReviewStatus
  <1>2. CASE e.type = "renewed"
    BY <1>2, EventFields DEF ReviewFold, RenewReview, ReviewState, ReviewStatus
  <1>3. CASE e.type = "dispatched"
    <2>1. ReviewFold(r, e) = DispatchReview(r, e)
      BY <1>3 DEF ReviewFold
    <2>2. r.dispatches + 1 \in Nat
      BY DEF ReviewState
    <2>3. [r EXCEPT !.dispatches = r.dispatches + 1] \in ReviewState
      BY <2>2 DEF ReviewState
    <2>4. DispatchReview(r, e)
              = [[r EXCEPT !.dispatches = r.dispatches + 1] EXCEPT !.status = "dispatched"]
      BY DEF DispatchReview, ReviewState
    <2>5. QED
      BY <2>1, <2>3, <2>4 DEF ReviewState, ReviewStatus
  <1>4. CASE e.type \in {"succeeded", "failed", "requeued", "reconciliation"}
    <2>1. ReviewFold(r, e) = [r EXCEPT !.status = e.type]
      BY <1>4 DEF ReviewFold
    <2>2. QED
      BY <1>4, <2>1 DEF ReviewState, ReviewStatus
  <1>5. QED
    BY <1>1, <1>2, <1>3, <1>4, EventFields

(* An accepted event leads from a typed state to a typed state. *)
LEMMA ApplyTyped ==
    ASSUME NEW r \in ReviewState, NEW e \in ReviewEvents
    PROVE  ReviewApply(r, e) \in ReviewState
  BY FoldTyped, EventFields DEF ReviewApply, ReviewState

(* An accepted event keeps the count of dispatches to the one. *)
LEMMA ApplyDispatchesOnce ==
    ASSUME NEW r \in ReviewState, NEW e \in ReviewEvents, ReviewAccepts(r, e), ReviewedOnce(r)
    PROVE  ReviewedOnce(ReviewApply(r, e))
  <1>0. /\ ReviewApply(r, e).status = ReviewFold(r, e).status
        /\ ReviewApply(r, e).dispatches = ReviewFold(r, e).dispatches
    BY FoldTyped DEF ReviewApply, ReviewState
  <1>1. CASE e.type = "claimed"
    BY <1>0, <1>1 DEF ReviewFold, ClaimReview, ReviewState, ReviewStatus, ReviewedOnce,
       ReviewAccepts, ReviewClaimAccepted
  <1>2. CASE e.type = "renewed"
    BY <1>0, <1>2 DEF ReviewFold, RenewReview, ReviewState, ReviewStatus, ReviewedOnce,
       ReviewAccepts, RenewAccepted
  <1>3. CASE e.type = "dispatched"
    <2>1. ReviewFold(r, e) = DispatchReview(r, e) /\ r.status = "claimed"
      BY <1>3 DEF ReviewFold, ReviewAccepts, ReviewDispatchAccepted
    <2>2. QED
      BY <1>0, <2>1 DEF DispatchReview, ReviewState, ReviewStatus, ReviewedOnce
  <1>4. CASE e.type = "requeued"
    BY <1>0, <1>4 DEF ReviewFold, ReviewState, ReviewStatus, ReviewedOnce, ReviewAccepts,
       ReviewRequeueAccepted
  <1>5. CASE e.type = "succeeded"
    BY <1>0, <1>5 DEF ReviewFold, ReviewState, ReviewStatus, ReviewedOnce, ReviewAccepts,
       ReviewSuccessAccepted
  <1>6. CASE e.type = "failed"
    BY <1>0, <1>6 DEF ReviewFold, ReviewState, ReviewStatus, ReviewedOnce, ReviewAccepts,
       ReviewFailureAccepted
  <1>7. CASE e.type = "reconciliation"
    BY <1>0, <1>7 DEF ReviewFold, ReviewState, ReviewStatus, ReviewedOnce, ReviewAccepts,
       ReviewReconcileAccepted
  <1>8. QED
    BY <1>1, <1>2, <1>3, <1>4, <1>5, <1>6, <1>7, EventFields

(* Nothing is accepted once a review is over. *)
LEMMA OverRefuses ==
    ASSUME NEW r \in ReviewState, NEW e \in ReviewEvents, r.status \in Over
    PROVE  ~ ReviewAccepts(r, e)
  <1>1. SUFFICES ASSUME ReviewAccepts(r, e) PROVE FALSE
    OBVIOUS
  <1>2. CASE e.type = "claimed"
    BY <1>1, <1>2 DEF Over, ReviewAccepts, ReviewClaimAccepted
  <1>3. CASE e.type = "renewed"
    BY <1>1, <1>3 DEF Over, ReviewAccepts, RenewAccepted
  <1>4. CASE e.type = "dispatched"
    BY <1>1, <1>4 DEF Over, ReviewAccepts, ReviewDispatchAccepted
  <1>5. CASE e.type = "succeeded"
    BY <1>1, <1>5 DEF Over, ReviewAccepts, ReviewSuccessAccepted
  <1>6. CASE e.type = "failed"
    BY <1>1, <1>6 DEF Over, ReviewAccepts, ReviewFailureAccepted
  <1>7. CASE e.type = "requeued"
    BY <1>1, <1>7 DEF Over, ReviewAccepts, ReviewRequeueAccepted
  <1>8. CASE e.type = "reconciliation"
    BY <1>1, <1>8 DEF Over, ReviewAccepts, ReviewReconcileAccepted
  <1>9. QED
    BY <1>2, <1>3, <1>4, <1>5, <1>6, <1>7, <1>8, EventFields

(* An accepted event moves the lease forward. *)
LEMMA ApplyForward ==
    ASSUME NEW r \in ReviewState, NEW e \in ReviewEvents, ReviewAccepts(r, e)
    PROVE  ReviewForward(r, ReviewApply(r, e))
  <1>0. r.status \notin Over
    BY OverRefuses
  <1>1. /\ ReviewApply(r, e).token = ReviewFold(r, e).token
        /\ ReviewApply(r, e).expires = ReviewFold(r, e).expires
        /\ ReviewApply(r, e).worker = ReviewFold(r, e).worker
        /\ ReviewApply(r, e).snapshot = ReviewFold(r, e).snapshot
        /\ r.actors \subseteq ReviewApply(r, e).actors
    BY FoldTyped DEF ReviewApply, ReviewState
  <1>2. CASE e.type = "claimed"
    <2>1. ReviewFold(r, e) = ClaimReview(r, e) /\ ReviewClaimAccepted(r, e)
      BY <1>2 DEF ReviewFold, ReviewAccepts
    <2>2. QED
      BY <1>0, <1>1, <2>1, EventFields DEF ClaimReview, ReviewState, ReviewForward,
         ReviewClaimAccepted
  <1>3. CASE e.type = "renewed"
    BY <1>0, <1>1, <1>3, EventFields DEF ReviewFold, RenewReview, ReviewState, ReviewForward,
       ReviewAccepts, RenewAccepted
  <1>4. CASE e.type = "dispatched"
    <2>1. ReviewFold(r, e) = DispatchReview(r, e)
      BY <1>4 DEF ReviewFold
    <2>2. QED
      BY <1>0, <1>1, <2>1 DEF DispatchReview, ReviewState, ReviewForward
  <1>5. CASE e.type \in {"succeeded", "failed", "requeued", "reconciliation"}
    <2>1. ReviewFold(r, e) = [r EXCEPT !.status = e.type]
      BY <1>5 DEF ReviewFold
    <2>2. QED
      BY <1>0, <1>1, <2>1 DEF ReviewState, ReviewForward
  <1>6. QED
    BY <1>2, <1>3, <1>4, <1>5, EventFields

(* IInv is inductive. *)
THEOREM ReviewInductive == ReviewSpec => []IInv
  <1>1. ReviewInit => IInv
    BY JobNone DEF ReviewInit, IInv, ReviewTypeOK, ReviewDispatchOnce, ReviewedOnce, Unreviewed,
       ReviewState, ReviewStatus
  <1>2. IInv /\ [ReviewNext]_review => IInv'
    <2>1. CASE UNCHANGED review
      BY <2>1 DEF IInv, ReviewTypeOK, ReviewDispatchOnce
    <2>2. ASSUME IInv, NEW e \in ReviewEvents, ReviewAccepts(review, e),
                 review' = ReviewApply(review, e)
          PROVE  IInv'
      BY <2>2, ApplyTyped, ApplyDispatchesOnce DEF IInv, ReviewTypeOK, ReviewDispatchOnce
    <2>3. QED
      BY <2>1, <2>2 DEF ReviewNext
  <1>3. QED
    BY <1>1, <1>2, PTL DEF ReviewSpec

(* fold_review_lifecycle keeps the shape of ReviewLifecycleState. *)
THEOREM ReviewTypeCorrect == ReviewSpec => []ReviewTypeOK
  BY ReviewInductive, PTL DEF IInv

(* For every number of workers, tokens and times the reviewer is dispatched at most
   once, and never before a review that is requeued. *)
THEOREM ReviewDispatchedOnce == ReviewSpec => []ReviewDispatchOnce
  BY ReviewInductive, PTL DEF IInv

(* A decided review never changes again, every lease of a review is of one snapshot
   and its expiry and token only grow. *)
THEOREM ReviewGoesForward == ReviewSpec => ReviewMovesForward
  <1>1. ReviewTypeOK /\ [ReviewNext]_review => [ReviewForward(review, review')]_review
    BY ApplyForward DEF ReviewTypeOK, ReviewNext
  <1>2. QED
    BY <1>1, ReviewTypeCorrect, PTL DEF ReviewSpec, ReviewMovesForward
=============================================================================
