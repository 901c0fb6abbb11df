-------------------------- MODULE ReviewLifecycle --------------------------
(***************************************************************************)
(* The review of one run: which events fold_review_lifecycle               *)
(* (orchestration/review_lifecycle.py) accepts and the state it folds them *)
(* into.  As a specification it is a review stream to which anybody may    *)
(* append what the fold accepts, with any clock.                           *)
(*                                                                         *)
(* A lease digest covers the token, the worker and the expiry time, so a   *)
(* lease is known by its token and its expiry, and a renewed lease is      *)
(* another lease.  attempt and fencing_token always move together; token   *)
(* stands for both.                                                        *)
(***************************************************************************)
EXTENDS Jobs

CONSTANT MaxTime  \* bound: the latest time explored

ASSUME ReviewBounds == MaxTime \in Nat

VARIABLE review

ReviewStatus == {"none", "claimed", "dispatched", "succeeded", "failed", "requeued",
                 "reconciliation"}
Over == {"succeeded", "failed", "reconciliation"}

(* actors are the authors of the stream's events; dispatches counts the provider
   dispatches on record (a history variable). *)
ReviewState ==
    [status     : ReviewStatus,
     worker     : Principals \cup {None},
     token      : Nat,
     expires    : Nat,
     snapshot   : Snapshots \cup {None},
     dispatches : Nat,
     actors     : SUBSET Principals]

(* No stream yet. *)
Unreviewed ==
    [status |-> "none", worker |-> None, token |-> 0, expires |-> 0, snapshot |-> None,
     dispatches |-> 0, actors |-> {}]

Times == 0 .. MaxTime

(* by is the author, at the time recorded in the event; token and expires name the
   lease it is about, until is the new expiry of a claim or a renewal. *)
ReviewEvents ==
    [type : {"claimed", "renewed", "dispatched", "succeeded", "failed", "requeued",
             "reconciliation"},
     by : Principals, at : Times, token : 1 .. MaxToken, expires : Times, until : Times,
     snapshot : Snapshots]

----------------------------------------------------------------------------
(* The fold's checks *)

OnReviewLease(r, e) == e.token = r.token /\ e.expires = r.expires

(* _active_lease: the holder, in time. *)
ByReviewer(r, e) == OnReviewLease(r, e) /\ e.by = r.worker
InTime(r, e) == e.at <= r.expires

(* Seeded fault: the snapshot may change between attempts. *)
ClaimOfAnything(r, e) ==
    /\ r.status \in {"none", "requeued"}
    /\ e.token = r.token + 1
    /\ e.until > e.at

ReviewClaimAccepted(r, e) ==
    /\ r.status \in {"none", "requeued"}
    /\ e.token = r.token + 1
    /\ e.until > e.at
    /\ r.snapshot \in {None, e.snapshot}

RenewAccepted(r, e) ==
    /\ r.status = "claimed"
    /\ ByReviewer(r, e)
    /\ e.until > e.at
    /\ e.until > r.expires

ReviewDispatchAccepted(r, e) == r.status = "claimed" /\ ByReviewer(r, e) /\ InTime(r, e)

ReviewSuccessAccepted(r, e) == r.status = "dispatched" /\ ByReviewer(r, e) /\ InTime(r, e)

ReviewFailureAccepted(r, e) == r.status \in {"claimed", "dispatched"} /\ ByReviewer(r, e)

(* _host_transition: anybody, about the lease that is active. *)
ReviewRequeueAccepted(r, e) == r.status = "claimed" /\ OnReviewLease(r, e)

ReviewReconcileAccepted(r, e) == r.status = "dispatched" /\ OnReviewLease(r, e)

ReviewAccepts(r, e) ==
    CASE e.type = "claimed"        -> ReviewClaimAccepted(r, e)
      [] e.type = "renewed"        -> RenewAccepted(r, e)
      [] e.type = "dispatched"     -> ReviewDispatchAccepted(r, e)
      [] e.type = "succeeded"      -> ReviewSuccessAccepted(r, e)
      [] e.type = "failed"         -> ReviewFailureAccepted(r, e)
      [] e.type = "requeued"       -> ReviewRequeueAccepted(r, e)
      [] e.type = "reconciliation" -> ReviewReconcileAccepted(r, e)

----------------------------------------------------------------------------
(* The fold's assignments *)

ClaimReview(r, e) ==
    [r EXCEPT !.status = "claimed", !.worker = e.by, !.token = e.token,
              !.expires = e.until, !.snapshot = e.snapshot]

RenewReview(r, e) == [r EXCEPT !.expires = e.until]

DispatchReview(r, e) == [r EXCEPT !.status = "dispatched", !.dispatches = @ + 1]

ReviewFold(r, e) ==
    CASE e.type = "claimed"    -> ClaimReview(r, e)
      [] e.type = "renewed"    -> RenewReview(r, e)
      [] e.type = "dispatched" -> DispatchReview(r, e)
      [] e.type \in {"succeeded", "failed", "requeued", "reconciliation"} ->
             [r EXCEPT !.status = e.type]

ReviewApply(r, e) == [ReviewFold(r, e) EXCEPT !.actors = @ \cup {e.by}]

----------------------------------------------------------------------------
ReviewInit == review = Unreviewed

(* ReviewRuntimeService._append *)
ReviewNext == \E e \in ReviewEvents : ReviewAccepts(review, e) /\ review' = ReviewApply(review, e)

ReviewSpec == ReviewInit /\ [][ReviewNext]_review

----------------------------------------------------------------------------
(* Properties *)

(* The folded state has the shape ReviewLifecycleState declares. *)
ReviewTypeOK == review \in ReviewState

(* The reviewer is called at most once: a lease that reached the provider is never
   requeued or claimed again, and a review succeeds or needs reconciliation only
   after the one dispatch. *)
ReviewedOnce(r) ==
    /\ r.dispatches <= 1
    /\ r.status \in {"none", "claimed", "requeued"} => r.dispatches = 0
    /\ r.status \in {"dispatched", "succeeded", "reconciliation"} => r.dispatches = 1
ReviewDispatchOnce == ReviewedOnce(review)

(* A review never goes back.  One that is over stays as it is: what verification
   reads does not change.  Before that a lease lasts until it is requeued: its worker
   keeps it, its expiry only moves forward, and all leases of a review are of one
   snapshot with rising tokens. *)
ReviewForward(r, s) ==
    /\ r.status \in Over => s = r
    /\ s.token = r.token => s.expires >= r.expires /\ s.worker = r.worker
    /\ s.token # r.token => s.token = r.token + 1 /\ r.status \in {"none", "requeued"}
    /\ r.snapshot # None => s.snapshot = r.snapshot
    /\ r.actors \subseteq s.actors
ReviewMovesForward == [][ReviewForward(review, review')]_review
=============================================================================
