-------------------- MODULE VerificationLifecycleProofs --------------------
(***************************************************************************)
(* Proofs about VerificationLifecycle: one report, for the snapshot of the *)
(* first claim, and nothing after it.                                      *)
(***************************************************************************)
EXTENDS VerificationLifecycle, TLAPS

(* The count of reports is only known together with the status. *)
IInv == VerificationTypeOK /\ ReportOnce

(* What the fields of an event are. *)
LEMMA EventFields ==
    ASSUME NEW e \in VerificationEvents
    PROVE  /\ e.type \in {"claimed", "completed", "failed", "requeued"}
           /\ e.by \in Principals /\ e.token \in Nat /\ e.snapshot \in Snapshots
  BY JobBounds DEF VerificationEvents

(* The four kinds of accepted event: what the fold checked and what it assigns. *)
LEMMA Accepted ==
    ASSUME NEW v \in VerificationState, NEW e \in VerificationEvents, VerificationAccepts(v, e)
    PROVE  \/ /\ v.status \in {"none", "requeued"}
              /\ e.token = v.token + 1
              /\ v.snapshot \in {None, e.snapshot}
              /\ VerificationApply(v, e) = ClaimVerification(v, e)
           \/ /\ v.status = "claimed"
              /\ VerificationApply(v, e)
                     = [v EXCEPT !.status = "completed", !.reports = v.reports + 1]
           \/ /\ v.status = "claimed"
              /\ VerificationApply(v, e) = [v EXCEPT !.status = "failed"]
           \/ /\ v.status = "claimed"
              /\ VerificationApply(v, e) = [v EXCEPT !.status = "requeued"]
  <1>1. CASE e.type = "claimed"
    BY <1>1 DEF VerificationAccepts, VerificationClaimAccepted, VerificationApply
  <1>2. CASE e.type = "completed"
    BY <1>2 DEF VerificationAccepts, TerminalAccepted, VerificationApply
  <1>3. CASE e.type = "failed"
    BY <1>3 DEF VerificationAccepts, TerminalAccepted, VerificationApply
  <1>4. CASE e.type = "requeued"
    BY <1>4 DEF VerificationAccepts, VerificationRequeueAccepted, VerificationApply
  <1>5. QED
    BY <1>1, <1>2, <1>3, <1>4, EventFields

(* An accepted event keeps the state typed and the report single, and moves the
   leases forward. *)
LEMMA AcceptedStep ==
    ASSUME NEW v \in VerificationState, OneReport(v),
           NEW e \in VerificationEvents, VerificationAccepts(v, e)
    PROVE  /\ VerificationApply(v, e) \in VerificationState
           /\ OneReport(VerificationApply(v, e))
           /\ VerificationForward(v, VerificationApply(v, e))
  <1>1. CASE /\ v.status \in {"none", "requeued"}
             /\ e.token = v.token + 1
             /\ v.snapshot \in {None, e.snapshot}
             /\ VerificationApply(v, e) = ClaimVerification(v, e)
    <2> DEFINE s == VerificationApply(v, e)
    <2>1. /\ s \in VerificationState
          /\ s.status = "claimed" /\ s.token = e.token /\ s.snapshot = e.snapshot
          /\ s.reports = v.reports
      BY <1>1, EventFields DEF ClaimVerification, VerificationState, VerificationStatus
    <2>2. v.reports = 0 /\ v.status \notin VerificationOver
      BY <1>1 DEF OneReport, VerificationOver
    <2>3. VerificationForward(v, s)
      BY <1>1, <2>1, <2>2, EventFields DEF VerificationForward, VerificationState
    <2>4. QED
      BY <2>1, <2>2, <2>3 DEF OneReport
  <1>2. CASE /\ v.status = "claimed"
             /\ VerificationApply(v, e)
                    = [v EXCEPT !.status = "completed", !.reports = v.reports + 1]
    <2> DEFINE s == VerificationApply(v, e)
    <2>1. v.reports + 1 = 1
      BY <1>2 DEF OneReport
    <2>2. s = [v EXCEPT !.status = "completed", !.reports = 1]
      BY <1>2, <2>1
    <2>3. /\ s \in VerificationState
          /\ s.status = "completed" /\ s.reports = 1
          /\ s.token = v.token /\ s.worker = v.worker /\ s.snapshot = v.snapshot
      <3>1. [v EXCEPT !.reports = 1] \in VerificationState
        BY DEF VerificationState
      <3>2. s = [[v EXCEPT !.reports = 1] EXCEPT !.status = "completed"]
        BY <2>2 DEF VerificationState
      <3>3. QED
        BY <3>1, <3>2 DEF VerificationState, VerificationStatus
    <2>4. QED
      BY <1>2, <2>3 DEF OneReport, VerificationForward, VerificationOver
  <1>3. CASE /\ v.status = "claimed"
             /\ VerificationApply(v, e) = [v EXCEPT !.status = "failed"]
    BY <1>3 DEF VerificationState, VerificationStatus, OneReport, VerificationForward,
       VerificationOver
  <1>4. CASE /\ v.status = "claimed"
             /\ VerificationApply(v, e) = [v EXCEPT !.status = "requeued"]
    BY <1>4 DEF VerificationState, VerificationStatus, OneReport, VerificationForward,
       VerificationOver
  <1>5. QED
    BY <1>1, <1>2, <1>3, <1>4, Accepted

(* IInv is inductive. *)
THEOREM VerificationInductive == VerificationSpec => []IInv
  <1>1. VerificationInit => IInv
    BY JobNone DEF VerificationInit, IInv, VerificationTypeOK, ReportOnce, OneReport, Unverified,
       VerificationState, VerificationStatus
  <1>2. IInv /\ [VerificationNext]_verification => IInv'
    BY AcceptedStep DEF IInv, VerificationTypeOK, ReportOnce, VerificationNext
  <1>3. QED
    BY <1>1, <1>2, PTL DEF VerificationSpec

(* fold_verification_lifecycle keeps the shape of VerificationLifecycleState. *)
THEOREM VerificationTypeCorrect == VerificationSpec => []VerificationTypeOK
  BY VerificationInductive, PTL DEF IInv

(* A verification has one report exactly when it is completed, for every number of
   workers and attempts. *)
THEOREM VerificationReportsOnce == VerificationSpec => []ReportOnce
  BY VerificationInductive, PTL DEF IInv

(* A decided verification never changes again, tokens rise one by one and every lease
   is of the snapshot of the first. *)
THEOREM VerificationGoesForward == VerificationSpec => VerificationMovesForward
  <1>1. IInv /\ [VerificationNext]_verification
            => [VerificationForward(verification, verification')]_verification
    BY AcceptedStep DEF IInv, VerificationTypeOK, ReportOnce, VerificationNext
  <1>2. QED
    BY <1>1, VerificationInductive, PTL DEF VerificationSpec, VerificationMovesForward
=============================================================================
