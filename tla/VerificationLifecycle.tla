----------------------- MODULE VerificationLifecycle -----------------------
(***************************************************************************)
(* The verification of one reviewed run: which events                      *)
(* fold_verification_lifecycle (orchestration/verification_lifecycle.py)   *)
(* accepts and the state it folds them into.  Verification is              *)
(* deterministic: unlike a review its lease is not renewed, an expired     *)
(* lease may still complete, and an interrupted one is simply done again.  *)
(***************************************************************************)
EXTENDS Jobs

VARIABLE verification

VerificationStatus == {"none", "claimed", "completed", "failed", "requeued"}
VerificationOver == {"completed", "failed"}

(* reports counts the reports recorded as the result (a history variable). *)
VerificationState ==
    [status   : VerificationStatus,
     worker   : Principals \cup {None},
     token    : Nat,
     snapshot : Snapshots \cup {None},
     reports  : Nat]

Unverified ==
    [status |-> "none", worker |-> None, token |-> 0, snapshot |-> None, reports |-> 0]

VerificationEvents ==
    [type : {"claimed", "completed", "failed", "requeued"},
     by : Principals, token : 1 .. MaxToken, snapshot : Snapshots]

----------------------------------------------------------------------------
(* The fold's checks *)

(* Seeded fault: the token starts again with every claim. *)
ClaimFromOne(v, e) ==
    /\ v.status \in {"none", "requeued"}
    /\ e.token = 1
    /\ v.snapshot \in {None, e.snapshot}

VerificationClaimAccepted(v, e) ==
    /\ v.status \in {"none", "requeued"}
    /\ e.token = v.token + 1
    /\ v.snapshot \in {None, e.snapshot}

(* _active_lease: the holder; the expiry time does not matter. *)
TerminalAccepted(v, e) == v.status = "claimed" /\ e.token = v.token /\ e.by = v.worker

(* _host_transition, by somebody else than the worker. *)
VerificationRequeueAccepted(v, e) ==
    v.status = "claimed" /\ e.token = v.token /\ e.by # v.worker

VerificationAccepts(v, e) ==
    CASE e.type = "claimed"                -> VerificationClaimAccepted(v, e)
      [] e.type \in {"completed", "failed"} -> TerminalAccepted(v, e)
      [] e.type = "requeued"               -> VerificationRequeueAccepted(v, e)

----------------------------------------------------------------------------
(* The fold's assignments *)

ClaimVerification(v, e) ==
    [v EXCEPT !.status = "claimed", !.worker = e.by, !.token = e.token, !.snapshot = e.snapshot]

VerificationApply(v, e) ==
    CASE e.type = "claimed"   -> ClaimVerification(v, e)
      [] e.type = "completed" -> [v EXCEPT !.status = "completed", !.reports = @ + 1]
      [] e.type \in {"failed", "requeued"} -> [v EXCEPT !.status = e.type]

----------------------------------------------------------------------------
VerificationInit == verification = Unverified

(* VerificationRuntimeService._append *)
VerificationNext ==
    \E e \in VerificationEvents :
        VerificationAccepts(verification, e) /\ verification' = VerificationApply(verification, e)

VerificationSpec == VerificationInit /\ [][VerificationNext]_verification

----------------------------------------------------------------------------
(* Properties *)

(* The folded state has the shape VerificationLifecycleState declares. *)
VerificationTypeOK == verification \in VerificationState

(* A verification has one result, however often it is requeued and however late
   the worker of an expired lease reports. *)
OneReport(v) == v.reports = IF v.status = "completed" THEN 1 ELSE 0
ReportOnce == OneReport(verification)

(* A verification never goes back: it stays as it is once it is over, tokens rise by
   one with every lease, a lease's worker stays, and all leases are of one snapshot:
   what the first claim bound is what the result is about. *)
VerificationForward(v, s) ==
    /\ v.status \in VerificationOver => s = v
    /\ s.token = v.token => s.worker = v.worker
    /\ s.token # v.token => s.token = v.token + 1 /\ v.status \in {"none", "requeued"}
    /\ v.snapshot # None => s.snapshot = v.snapshot
VerificationMovesForward == [][VerificationForward(verification, verification')]_verification
=============================================================================
