------------------------ MODULE ReviewPipelineProofs ------------------------
(***************************************************************************)
(* Proofs about ReviewPipeline: for every number of runs, configurations,  *)
(* crashes and restarts a review calls its provider once, workers hold the *)
(* leases they think they hold, no lease is forgotten, and nobody reviews  *)
(* or verifies his own work.                                               *)
(***************************************************************************)
EXTENDS ReviewPipeline, TLAPS

----------------------------------------------------------------------------
(* The inductive invariant, said of each run and of each process by itself *)

ReviewerStates == Process({"down", "reconcile", "idle"} \cup ReviewerBusy)
VerifierStates == Process({"down", "reconcile", "idle"} \cup VerifierBusy)

(* A verification as VF!VerificationState has it; its snapshot is the token of a
   succeeded review. *)
Verification ==
    [status : VF!VerificationStatus, worker : Principals \cup {None}, token : Nat,
     snapshot : Nat \cup {None}, reports : Nat]

(* The review x of run r, of which author is the executor and n are the calls. *)
ReviewOK(x, n, author, r) ==
    /\ RV!ReviewedOnce(x)
    /\ n <= x.dispatches
    /\ x.status # "none" => author # None /\ r \notin Generated /\ x.worker # author

(* What the busy worker p knows of the review x it works on: where it is in _execute
   tells whether the dispatch is on record and the provider was called. *)
HoldsReview(p, x, n) ==
    /\ x.worker = p.config.reviewer /\ x.token = p.token /\ x.expires = p.expires
    /\ p.pc \in {"prepare", "renew", "dispatch"} => x.status = "claimed"
    /\ p.pc = "call" => x.status = "dispatched" /\ n = 0
    /\ p.pc = "record" => x.status = "dispatched" /\ n > 0
    /\ p.pc = "fail" => x.status = "claimed" \/ (x.status = "dispatched" /\ n > 0)
    /\ p.pc \in {"dispatch", "call"} => p.at + Lease <= p.expires

(* An active lease is the one worked on, or the next start or the reconciliation
   under way gets to it. *)
AttendedReview(p, x, r) ==
    x.status \in {"claimed", "dispatched"} =>
        \/ p.pc = "down"
        \/ p.pc = "reconcile" /\ r \in p.todo
        \/ p.pc \in ReviewerBusy /\ p.run = r

(* The verification v of run r, with review x and executor author. *)
VerificationOK(v, x, author, r) ==
    v.status # "none" =>
        /\ author # None /\ r \notin Generated
        /\ x.status = "succeeded" /\ x.token = v.snapshot
        /\ v.worker \notin {author} \cup x.actors

HoldsVerification(p, v) ==
    v.status = "claimed" /\ v.worker = p.config.verifier /\ v.token = p.token

AttendedVerification(p, v, r) ==
    v.status = "claimed" =>
        \/ p.pc = "down"
        \/ p.pc = "reconcile" /\ r \in p.todo
        \/ p.pc \in VerifierBusy /\ p.run = r

PipelineTypes ==
    /\ executor \in [Runs -> Principals \cup {None}]
    /\ reviews \in [Runs -> RV!ReviewState]
    /\ verifications \in [Runs -> Verification]
    /\ reviewed \in Seq(Runs)
    /\ reviewer \in ReviewerStates
    /\ verifier \in VerifierStates
    /\ calls \in [Runs -> Nat]
    /\ now \in Nat

PipelineInv ==
    /\ PipelineTypes
    /\ \A r \in Runs : /\ ReviewOK(reviews[r], calls[r], executor[r], r)
                       /\ AttendedReview(reviewer, reviews[r], r)
                       /\ VerificationOK(verifications[r], reviews[r], executor[r], r)
                       /\ AttendedVerification(verifier, verifications[r], r)
    /\ \A j \in DOMAIN reviewed : reviews[reviewed[j]].status = "succeeded"
    /\ reviewer.pc # "down" => reviewer.config \in Configs
    /\ verifier.pc # "down" => verifier.config \in Configs
    /\ reviewer.pc \in ReviewerBusy =>
          /\ reviewer.run \in Runs
          /\ HoldsReview(reviewer, reviews[reviewer.run], calls[reviewer.run])
    /\ verifier.pc \in VerifierBusy =>
          /\ verifier.run \in Runs
          /\ HoldsVerification(verifier, verifications[verifier.run])

----------------------------------------------------------------------------
(* What the folds make of an event *)

LEMMA Claimed ==
    ASSUME NEW x \in RV!ReviewState, NEW e, e.type = "claimed", e.by \in Principals,
           e.token \in Nat, e.until \in Nat, e.snapshot \in Runs
    PROVE  /\ RV!ReviewApply(x, e) \in RV!ReviewState
           /\ RV!ReviewApply(x, e).status = "claimed" /\ RV!ReviewApply(x, e).worker = e.by
           /\ RV!ReviewApply(x, e).token = e.token /\ RV!ReviewApply(x, e).expires = e.until
           /\ RV!ReviewApply(x, e).dispatches = x.dispatches
  <1>1. RV!ReviewFold(x, e) = RV!ClaimReview(x, e)
    BY DEF RV!ReviewFold
  <1>2. /\ RV!ClaimReview(x, e) \in RV!ReviewState
        /\ RV!ClaimReview(x, e).status = "claimed" /\ RV!ClaimReview(x, e).worker = e.by
        /\ RV!ClaimReview(x, e).token = e.token /\ RV!ClaimReview(x, e).expires = e.until
        /\ RV!ClaimReview(x, e).dispatches = x.dispatches
    BY DEF RV!ClaimReview, RV!ReviewState, RV!ReviewStatus
  <1>3. QED
    BY <1>1, <1>2 DEF RV!ReviewApply, RV!ReviewState

LEMMA Renewed ==
    ASSUME NEW x \in RV!ReviewState, NEW e, e.type = "renewed", e.by \in Principals,
           e.until \in Nat
    PROVE  /\ RV!ReviewApply(x, e) \in RV!ReviewState
           /\ RV!ReviewApply(x, e).status = x.status /\ RV!ReviewApply(x, e).worker = x.worker
           /\ RV!ReviewApply(x, e).token = x.token /\ RV!ReviewApply(x, e).expires = e.until
           /\ RV!ReviewApply(x, e).dispatches = x.dispatches
  <1>1. RV!ReviewFold(x, e) = RV!RenewReview(x, e)
    BY DEF RV!ReviewFold
  <1>2. /\ RV!RenewReview(x, e) \in RV!ReviewState
        /\ RV!RenewReview(x, e).status = x.status /\ RV!RenewReview(x, e).worker = x.worker
        /\ RV!RenewReview(x, e).token = x.token /\ RV!RenewReview(x, e).expires = e.until
        /\ RV!RenewReview(x, e).dispatches = x.dispatches
    BY DEF RV!RenewReview, RV!ReviewState
  <1>3. QED
    BY <1>1, <1>2 DEF RV!ReviewApply, RV!ReviewState

LEMMA Dispatched ==
    ASSUME NEW x \in RV!ReviewState, NEW e, e.type = "dispatched", e.by \in Principals
    PROVE  /\ RV!ReviewApply(x, e) \in RV!ReviewState
           /\ RV!ReviewApply(x, e).status = "dispatched" /\ RV!ReviewApply(x, e).worker = x.worker
           /\ RV!ReviewApply(x, e).token = x.token /\ RV!ReviewApply(x, e).expires = x.expires
           /\ RV!ReviewApply(x, e).dispatches = x.dispatches + 1
  <1> DEFINE n == x.dispatches + 1
             y == [[x EXCEPT !.dispatches = n] EXCEPT !.status = "dispatched"]
  <1>1. RV!ReviewFold(x, e) = RV!DispatchReview(x, e)
    BY DEF RV!ReviewFold
  <1>2. RV!DispatchReview(x, e) = y
    BY DEF RV!DispatchReview, RV!ReviewState
  <1>3. n \in Nat
    BY DEF RV!ReviewState
  <1> HIDE DEF n
  <1>4. /\ y \in RV!ReviewState /\ y.status = "dispatched" /\ y.worker = x.worker
        /\ y.token = x.token /\ y.expires = x.expires /\ y.dispatches = n
    BY <1>3 DEF RV!ReviewState, RV!ReviewStatus
  <1> HIDE DEF y
  <1>5. QED
    BY <1>1, <1>2, <1>4 DEF RV!ReviewApply, RV!ReviewState, n

LEMMA Ended ==
    ASSUME NEW x \in RV!ReviewState, NEW e, e.by \in Principals,
           e.type \in {"succeeded", "failed", "requeued", "reconciliation"}
    PROVE  /\ RV!ReviewApply(x, e) \in RV!ReviewState
           /\ RV!ReviewApply(x, e).status = e.type /\ RV!ReviewApply(x, e).worker = x.worker
           /\ RV!ReviewApply(x, e).token = x.token /\ RV!ReviewApply(x, e).expires = x.expires
           /\ RV!ReviewApply(x, e).dispatches = x.dispatches
  <1> DEFINE y == [x EXCEPT !.status = e.type]
  <1>1. RV!ReviewFold(x, e) = y
    BY DEF RV!ReviewFold
  <1>2. /\ y \in RV!ReviewState /\ y.status = e.type /\ y.worker = x.worker
        /\ y.token = x.token /\ y.expires = x.expires /\ y.dispatches = x.dispatches
    BY DEF RV!ReviewState, RV!ReviewStatus
  <1> HIDE DEF y
  <1>3. QED
    BY <1>1, <1>2 DEF RV!ReviewApply, RV!ReviewState

(* What the fields of a review are. *)
LEMMA ReviewFields ==
    ASSUME NEW x \in RV!ReviewState
    PROVE  /\ x.token \in Nat /\ x.expires \in Nat /\ x.dispatches \in Nat
           /\ x.status \in RV!ReviewStatus /\ x.actors \in SUBSET Principals
  BY DEF RV!ReviewState

----------------------------------------------------------------------------
(* Steps of the review worker *)

(* It changes only itself. *)
LEMMA ReviewerStays ==
    ASSUME PipelineInv, NEW p \in ReviewerStates, reviewer' = p,
           UNCHANGED <<executor, reviews, reviewed, verifications, verifier, calls, now>>,
           \A s \in Runs : AttendedReview(p, reviews[s], s),
           p.pc # "down" => p.config \in Configs,
           p.pc \in ReviewerBusy =>
               p.run \in Runs /\ HoldsReview(p, reviews[p.run], calls[p.run])
    PROVE  PipelineInv'
  BY DEF PipelineInv, PipelineTypes

(* It appends to the review of run r, or calls the provider for it. *)
LEMMA ReviewerWorks ==
    ASSUME PipelineInv, NEW r \in Runs, NEW x \in RV!ReviewState, NEW n \in Nat,
           NEW p \in ReviewerStates,
           reviews' = [reviews EXCEPT ![r] = x], calls' = [calls EXCEPT ![r] = n],
           reviewer' = p, UNCHANGED <<executor, verifications, verifier, now>>,
           reviewed' = IF x.status = "succeeded" THEN Append(reviewed, r) ELSE reviewed,
           reviews[r].status # "succeeded",
           ReviewOK(x, n, executor[r], r),
           AttendedReview(p, x, r),
           \A s \in Runs \ {r} : AttendedReview(p, reviews[s], s),
           p.pc # "down" => p.config \in Configs,
           p.pc \in ReviewerBusy => p.run = r /\ HoldsReview(p, x, n)
    PROVE  PipelineInv'
  <1>1. /\ reviews' \in [Runs -> RV!ReviewState] /\ calls' \in [Runs -> Nat]
        /\ reviews'[r] = x /\ calls'[r] = n
        /\ \A s \in Runs \ {r} : reviews'[s] = reviews[s] /\ calls'[s] = calls[s]
    BY DEF PipelineInv, PipelineTypes
  <1>2. PipelineTypes'
    <2>1. reviewed' \in Seq(Runs)
      BY DEF PipelineInv, PipelineTypes
    <2>2. QED
      BY <1>1, <2>1 DEF PipelineInv, PipelineTypes
  <1>3. \A s \in Runs : /\ ReviewOK(reviews'[s], calls'[s], executor[s], s)
                        /\ AttendedReview(p, reviews'[s], s)
    BY <1>1 DEF PipelineInv
  <1>4. \A s \in Runs : VerificationOK(verifications[s], reviews'[s], executor[s], s)
    <2>1. verifications[r].status = "none"
      BY DEF PipelineInv, VerificationOK
    <2>2. VerificationOK(verifications[r], reviews'[r], executor[r], r)
      BY <2>1 DEF VerificationOK
    <2>3. QED
      BY <1>1, <2>2 DEF PipelineInv
  <1>5. \A j \in DOMAIN reviewed' : reviews'[reviewed'[j]].status = "succeeded"
    <2>1. reviewed \in Seq(Runs) /\ Len(reviewed) \in Nat /\ DOMAIN reviewed = 1 .. Len(reviewed)
      BY DEF PipelineInv, PipelineTypes
    <2>2. \A j \in DOMAIN reviewed : reviews'[reviewed[j]].status = "succeeded"
      BY <1>1, <2>1 DEF PipelineInv
    <2>3. CASE x.status = "succeeded"
      <3>1. reviewed' = Append(reviewed, r)
        BY <2>3
      <3>2. \A j \in DOMAIN reviewed' : (j \in DOMAIN reviewed /\ reviewed'[j] = reviewed[j]) \/ reviewed'[j] = r
        BY <2>1, <3>1
      <3>3. QED
        BY <1>1, <2>2, <2>3, <3>2
    <2>4. CASE x.status # "succeeded"
      BY <2>2, <2>4
    <2>5. QED
      BY <2>3, <2>4
  <1>6. QED
    BY <1>1, <1>2, <1>3, <1>4, <1>5 DEF PipelineInv

(* What is known of the worker at a step, and of the run it works on. *)
LEMMA ReviewerKnows ==
    ASSUME PipelineInv
    PROVE  /\ reviewer \in ReviewerStates
           /\ reviewer.pc \in {"down", "reconcile", "idle"} \cup ReviewerBusy
           /\ reviewer.token \in Nat /\ reviewer.expires \in Nat /\ reviewer.at \in Nat
           /\ reviewer.todo \in SUBSET Runs
           /\ now \in Nat /\ now + Lease \in Nat /\ Lease \in Nat /\ MaxLatency \in Nat
           /\ \A r \in Runs : reviews[r] \in RV!ReviewState /\ calls[r] \in Nat
           /\ reviewer.pc # "down" =>
                 /\ reviewer.config \in Configs
                 /\ reviewer.config.reviewer \in Principals
                 /\ reviewer.config.reviewSupervisor \in Principals
  <1>1. reviewer \in ReviewerStates /\ now \in Nat
        /\ \A r \in Runs : reviews[r] \in RV!ReviewState /\ calls[r] \in Nat
    BY DEF PipelineInv, PipelineTypes
  <1>2. /\ reviewer.pc \in {"down", "reconcile", "idle"} \cup ReviewerBusy
        /\ reviewer.token \in Nat /\ reviewer.expires \in Nat /\ reviewer.at \in Nat
        /\ reviewer.todo \in SUBSET Runs
    BY <1>1 DEF ReviewerStates, Process
  <1>3. Lease \in Nat /\ MaxLatency \in Nat /\ now + Lease \in Nat
    BY <1>1, LeaseAssumption
  <1>4. QED
    BY <1>1, <1>2, <1>3, ConfigsSeparate DEF PipelineInv

(* When a worker is idle, or about a run, no other lease is active. *)
LEMMA OthersRest ==
    ASSUME PipelineInv, reviewer.pc \in {"idle"} \cup ReviewerBusy, NEW s \in Runs,
           reviewer.pc \in ReviewerBusy => s # reviewer.run
    PROVE  \A p : AttendedReview(p, reviews[s], s)
  BY DEF PipelineInv, AttendedReview, ReviewerBusy

(* Idle and down as states. *)
LEMMA RestStates ==
    ASSUME NEW p, p.config \in Configs
    PROVE  /\ Idle(p) \in ReviewerStates /\ Idle(p) \in VerifierStates
           /\ Down \in ReviewerStates /\ Down \in VerifierStates
           /\ Idle(p).pc = "idle" /\ Idle(p).config = p.config /\ Down.pc = "down"
  BY DEF Idle, Down, ReviewerStates, VerifierStates, Process

LEMMA DownState == Down \in ReviewerStates /\ Down \in VerifierStates /\ Down.pc = "down"
  BY DEF Down, ReviewerStates, VerifierStates, Process

(* Whatever ends or starts the process. *)
LEMMA ReviewerGoesDown ==
    ASSUME PipelineInv, reviewer' = Down,
           UNCHANGED <<executor, reviews, reviewed, verifications, verifier, calls, now>>
    PROVE  PipelineInv'
  BY DownState, ReviewerStays DEF AttendedReview, ReviewerBusy

LEMMA ReviewerStarts ==
    ASSUME PipelineInv, NEW c \in Configs, StartReviewer(c),
           UNCHANGED <<executor, reviewed, verifications, verifier, calls, now>>
    PROVE  PipelineInv'
  <1> DEFINE p == [Down EXCEPT !.pc = "reconcile", !.config = c,
                               !.todo = {r \in Runs : reviews[r].status # "none"}]
  <1>1. p \in ReviewerStates /\ p.pc = "reconcile" /\ p.config = c
        /\ p.todo = {r \in Runs : reviews[r].status # "none"}
    BY DEF Down, ReviewerStates, Process
  <1>2. reviewer' = p /\ UNCHANGED reviews
    BY DEF StartReviewer
  <1> HIDE DEF p
  <1>3. \A s \in Runs : AttendedReview(p, reviews[s], s)
    BY <1>1 DEF AttendedReview
  <1>4. QED
    BY <1>1, <1>2, <1>3, ReviewerStays DEF ReviewerBusy

(* reconcile *)
LEMMA ReviewerReconciles ==
    ASSUME PipelineInv, NEW r \in Runs, ReconcileReview(r),
           UNCHANGED <<executor, reviewed, verifications, verifier, calls, now>>
    PROVE  PipelineInv'
  <1> DEFINE p == [reviewer EXCEPT !.todo = @ \ {r}]
             x == reviews[r]
  <1>1. reviewer.pc = "reconcile" /\ reviewer.config \in Configs /\ r \in reviewer.todo
        /\ reviewer.config.reviewSupervisor \in Principals /\ x \in RV!ReviewState
    BY ReviewerKnows DEF ReconcileReview
  <1>2. p \in ReviewerStates /\ p.pc = "reconcile" /\ p.config = reviewer.config
        /\ p.todo = reviewer.todo \ {r}
    BY <1>1, ReviewerKnows DEF ReviewerStates, Process
  <1>3. \A s \in Runs \ {r} : AttendedReview(p, reviews[s], s)
    <2>1. \A s \in Runs : AttendedReview(reviewer, reviews[s], s)
      BY DEF PipelineInv
    <2> HIDE DEF p
    <2>2. QED
      BY <1>1, <1>2, <2>1 DEF AttendedReview, ReviewerBusy
  <1> HIDE DEF p
  <1>4. CASE ~Active(r) /\ reviewer' = p /\ UNCHANGED reviews
    <2>1. AttendedReview(p, reviews[r], r)
      BY <1>4 DEF Active, AttendedReview
    <2>2. QED
      BY <1>1, <1>2, <1>3, <1>4, <2>1, ReviewerStays DEF ReviewerBusy
  <1>5. CASE /\ Active(r) /\ reviewer' = p
             /\ AppendReview(ReconciliationEvent(r, reviewer.config.reviewSupervisor))
    <2> DEFINE e == ReconciliationEvent(r, reviewer.config.reviewSupervisor)
               y == RV!ReviewApply(x, e)
    <2>1. e.by = reviewer.config.reviewSupervisor /\ e.snapshot = r
          /\ e.type = (IF x.status = "claimed" THEN "requeued" ELSE "reconciliation")
      BY DEF ReconciliationEvent, ReviewEvent
    <2>2. reviews' = [reviews EXCEPT ![r] = y]
      BY <1>5, <2>1 DEF AppendReview
    <2>3. x.status \in {"claimed", "dispatched"}
      BY <1>5 DEF Active
    <2>4. e.type \in {"requeued", "reconciliation"}
          /\ e.type = (IF x.status = "claimed" THEN "requeued" ELSE "reconciliation")
      BY <2>1
    <2> HIDE DEF e
    <2>5. /\ y \in RV!ReviewState /\ y.status = e.type /\ y.worker = x.worker
          /\ y.dispatches = x.dispatches
      BY <1>1, <2>1, <2>4, Ended
    <2> HIDE DEF y
    <2>6. ReviewOK(x, calls[r], executor[r], r)
      BY DEF PipelineInv
    <2>7. ReviewOK(y, calls[r], executor[r], r)
      BY <2>3, <2>4, <2>5, <2>6 DEF ReviewOK, RV!ReviewedOnce
    <2>8. AttendedReview(p, y, r)
      BY <2>4, <2>5 DEF AttendedReview
    <2>9. calls' = [calls EXCEPT ![r] = calls[r]] /\ calls[r] \in Nat
      BY DEF PipelineInv, PipelineTypes
    <2>10. y.status # "succeeded" /\ x.status # "succeeded"
      BY <2>3, <2>4, <2>5
    <2>11. p.pc \notin ReviewerBusy
      BY <1>2 DEF ReviewerBusy
    <2>12. QED
      BY <1>1, <1>2, <1>3, <1>5, <2>2, <2>5, <2>7, <2>8, <2>9, <2>10, <2>11, ReviewerWorks
  <1>6. CASE reviewer' = Down /\ UNCHANGED reviews
    BY <1>6, ReviewerGoesDown
  <1>7. QED
    BY <1>4, <1>5, <1>6 DEF ReconcileReview, p

LEMMA ReviewerReconciled ==
    ASSUME PipelineInv, Reconciled,
           UNCHANGED <<executor, reviewed, verifications, verifier, calls, now>>
    PROVE  PipelineInv'
  <1>1. reviewer.pc = "reconcile" /\ reviewer.todo = {} /\ reviewer.config \in Configs
        /\ reviewer' = Idle(reviewer) /\ UNCHANGED reviews
    BY ReviewerKnows DEF Reconciled
  <1>2. \A s \in Runs : AttendedReview(Idle(reviewer), reviews[s], s)
    <2>1. \A s \in Runs : AttendedReview(reviewer, reviews[s], s)
      BY DEF PipelineInv
    <2>2. QED
      BY <1>1, <2>1 DEF AttendedReview, ReviewerBusy
  <1>3. QED
    BY <1>1, <1>2, RestStates, ReviewerStays DEF ReviewerBusy

(* run_once *)
LEMMA ReviewerClaims ==
    ASSUME PipelineInv, NEW r \in Runs, Claim(r),
           UNCHANGED <<executor, reviewed, verifications, verifier, calls, now>>
    PROVE  PipelineInv'
  <1> DEFINE x == reviews[r]
             k == x.token + 1
             p == [reviewer EXCEPT !.pc = "prepare", !.run = r, !.token = k, !.expires = now + Lease]
             e == ReviewEvent("claimed", r, reviewer.config.reviewer, now, k, 0, now + Lease)
             y == RV!ReviewApply(x, e)
  <1>1. /\ reviewer.pc = "idle" /\ reviewer.config \in Configs
        /\ reviewer.config.reviewer \in Principals /\ now + Lease \in Nat
        /\ x \in RV!ReviewState /\ x.token \in Nat /\ calls[r] \in Nat
    BY ReviewerKnows, ReviewFields DEF Claim
  <1>2. k \in Nat
    BY <1>1
  <1>3. /\ reviewer' = p /\ AppendReview(e) /\ executor[r] # None /\ r \notin Generated
        /\ x.status \in {"none", "requeued"} /\ reviewer.config.reviewer # executor[r]
    BY DEF Claim, IsNextReview, Reviewable, SucceededByNodes
  <1> HIDE DEF k
  <1>4. e.type = "claimed" /\ e.by = reviewer.config.reviewer /\ e.token = k
        /\ e.until = now + Lease /\ e.snapshot = r
    BY DEF ReviewEvent
  <1>5. p \in ReviewerStates /\ p.pc = "prepare" /\ p.run = r /\ p.token = k
        /\ p.expires = now + Lease /\ p.config = reviewer.config
    BY <1>1, <1>2, ReviewerKnows DEF ReviewerStates, Process, ReviewerBusy
  <1> HIDE DEF e, p
  <1>6. reviews' = [reviews EXCEPT ![r] = y]
    BY <1>3, <1>4 DEF AppendReview
  <1>7. /\ y \in RV!ReviewState /\ y.status = "claimed" /\ y.worker = reviewer.config.reviewer
        /\ y.token = k /\ y.expires = now + Lease /\ y.dispatches = x.dispatches
    BY <1>1, <1>2, <1>4, Claimed
  <1> HIDE DEF y
  <1>8. ReviewOK(x, calls[r], executor[r], r)
    BY DEF PipelineInv
  <1>9. ReviewOK(y, calls[r], executor[r], r)
    BY <1>3, <1>7, <1>8 DEF ReviewOK, RV!ReviewedOnce
  <1>10. AttendedReview(p, y, r) /\ \A s \in Runs \ {r} : AttendedReview(p, reviews[s], s)
    <2>1. AttendedReview(p, y, r)
      BY <1>5 DEF AttendedReview, ReviewerBusy
    <2>2. reviewer.pc \in {"idle"} \cup ReviewerBusy /\ reviewer.pc \notin ReviewerBusy
      BY <1>1 DEF ReviewerBusy
    <2>3. QED
      BY <2>1, <2>2, OthersRest
  <1>11. HoldsReview(p, y, calls[r])
    BY <1>5, <1>7 DEF HoldsReview
  <1>12. calls' = [calls EXCEPT ![r] = calls[r]]
    BY DEF PipelineInv, PipelineTypes
  <1>13. y.status # "succeeded" /\ x.status # "succeeded"
    BY <1>3, <1>7
  <1>14. QED
    BY <1>1, <1>3, <1>5, <1>6, <1>7, <1>9, <1>10, <1>11, <1>12, <1>13, ReviewerWorks

(* _execute: the worker is about its run. *)
LEMMA BusyKnows ==
    ASSUME PipelineInv, reviewer.pc \in ReviewerBusy
    PROVE  LET x == reviews[reviewer.run] IN
           /\ reviewer.run \in Runs /\ x \in RV!ReviewState /\ calls[reviewer.run] \in Nat
           /\ HoldsReview(reviewer, x, calls[reviewer.run])
           /\ ReviewOK(x, calls[reviewer.run], executor[reviewer.run], reviewer.run)
           /\ x.status \in {"claimed", "dispatched"}
           /\ reviewer.config \in Configs /\ reviewer.config.reviewer \in Principals
           /\ reviewer.pc # "down"
  <1>1. reviewer.run \in Runs /\ HoldsReview(reviewer, reviews[reviewer.run], calls[reviewer.run])
    BY DEF PipelineInv
  <1>2. reviewer.pc # "down"
    BY DEF ReviewerBusy
  <1>3. reviews[reviewer.run].status \in {"claimed", "dispatched"}
    BY <1>1 DEF HoldsReview, ReviewerBusy
  <1>4. ReviewOK(reviews[reviewer.run], calls[reviewer.run], executor[reviewer.run], reviewer.run)
    BY <1>1 DEF PipelineInv
  <1>5. QED
    BY <1>1, <1>2, <1>3, <1>4, ReviewerKnows

LEMMA BusyWorks ==
    ASSUME PipelineInv, reviewer.pc \in ReviewerBusy, NEW y \in RV!ReviewState, NEW n \in Nat,
           NEW p \in ReviewerStates,
           reviews' = [reviews EXCEPT ![reviewer.run] = y],
           calls' = [calls EXCEPT ![reviewer.run] = n],
           reviewer' = p, UNCHANGED <<executor, verifications, verifier, now>>,
           reviewed' = IF y.status = "succeeded" THEN Append(reviewed, reviewer.run)
                                                 ELSE reviewed,
           RV!ReviewedOnce(y), n <= y.dispatches, y.worker = reviews[reviewer.run].worker,
           p.config = reviewer.config,
           \/ p.pc \in ReviewerBusy /\ p.run = reviewer.run /\ HoldsReview(p, y, n)
           \/ p.pc = "idle" /\ y.status \notin {"claimed", "dispatched"}
    PROVE  PipelineInv'
  <1> DEFINE r == reviewer.run
  <1>1. /\ r \in Runs /\ ReviewOK(reviews[r], calls[r], executor[r], r)
        /\ reviews[r].status \in {"claimed", "dispatched"} /\ reviewer.config \in Configs
    BY BusyKnows
  <1>2. ReviewOK(y, n, executor[r], r)
    BY <1>1 DEF ReviewOK
  <1>3. AttendedReview(p, y, r)
    BY DEF AttendedReview
  <1>4. \A s \in Runs \ {r} : AttendedReview(p, reviews[s], s)
    BY OthersRest
  <1>5. "idle" \notin ReviewerBusy
    BY DEF ReviewerBusy
  <1> HIDE DEF r
  <1>6. QED
    <2>1. /\ reviews' = [reviews EXCEPT ![r] = y] /\ calls' = [calls EXCEPT ![r] = n]
          /\ reviewed' = IF y.status = "succeeded" THEN Append(reviewed, r) ELSE reviewed
          /\ p.pc \in ReviewerBusy => p.run = r /\ HoldsReview(p, y, n)
      BY <1>5 DEF r
    <2>2. reviews[r].status # "succeeded"
      BY <1>1
    <2>3. QED
      BY <1>1, <1>2, <1>3, <1>4, <2>1, <2>2, ReviewerWorks

(* ... and changes only where it is. *)
LEMMA BusyStays ==
    ASSUME PipelineInv, reviewer.pc \in ReviewerBusy, NEW p \in ReviewerStates, reviewer' = p,
           UNCHANGED <<executor, reviews, reviewed, verifications, verifier, calls, now>>,
           p.pc \in ReviewerBusy, p.config = reviewer.config, p.run = reviewer.run,
           HoldsReview(p, reviews[reviewer.run], calls[reviewer.run])
    PROVE  PipelineInv'
  <1>1. reviewer.run \in Runs /\ reviewer.config \in Configs
    BY BusyKnows
  <1>2. \A s \in Runs : AttendedReview(p, reviews[s], s)
    <2>1. \A s \in Runs \ {reviewer.run} : AttendedReview(p, reviews[s], s)
      BY OthersRest
    <2>2. AttendedReview(p, reviews[reviewer.run], reviewer.run)
      BY DEF AttendedReview
    <2>3. QED
      BY <2>1, <2>2
  <1>3. QED
    BY <1>1, <1>2, ReviewerStays

LEMMA ReviewerFaults ==
    ASSUME PipelineInv, ReviewFault,
           UNCHANGED <<executor, reviewed, verifications, verifier, calls, now>>
    PROVE  PipelineInv'
  <1> DEFINE p == [reviewer EXCEPT !.pc = "fail"]
  <1>1. reviewer.pc \in {"prepare", "record"} /\ reviewer' = p /\ UNCHANGED reviews
        /\ reviewer.pc \in ReviewerBusy
    BY DEF ReviewFault, ReviewerTo, ReviewerBusy
  <1>2. p \in ReviewerStates /\ p.pc = "fail" /\ p.config = reviewer.config /\ p.run = reviewer.run
        /\ p.token = reviewer.token /\ p.expires = reviewer.expires /\ p.pc \in ReviewerBusy
    BY ReviewerKnows DEF ReviewerStates, Process, ReviewerBusy
  <1>3. HoldsReview(reviewer, reviews[reviewer.run], calls[reviewer.run])
    BY <1>1, BusyKnows
  <1> HIDE DEF p
  <1>4. HoldsReview(p, reviews[reviewer.run], calls[reviewer.run])
    BY <1>1, <1>2, <1>3 DEF HoldsReview
  <1>5. QED
    BY <1>1, <1>2, <1>4, BusyStays

LEMMA ReviewerPrepares ==
    ASSUME PipelineInv, Prepare,
           UNCHANGED <<executor, reviewed, verifications, verifier, calls, now>>
    PROVE  PipelineInv'
  <1> DEFINE to == IF now + Lease > reviewer.expires THEN "renew" ELSE "dispatch"
             p == [reviewer EXCEPT !.at = now, !.pc = to]
  <1>1. reviewer.pc = "prepare" /\ reviewer' = p /\ UNCHANGED reviews
        /\ reviewer.pc \in ReviewerBusy
    BY DEF Prepare, ReviewerBusy
  <1>2. now \in Nat /\ Lease \in Nat /\ reviewer.expires \in Nat
    BY ReviewerKnows
  <1>3. to \in {"renew", "dispatch"} /\ (to = "dispatch" => now + Lease <= reviewer.expires)
    BY <1>2
  <1> HIDE DEF to
  <1>4. p \in ReviewerStates /\ p.pc = to /\ p.config = reviewer.config /\ p.run = reviewer.run
        /\ p.token = reviewer.token /\ p.expires = reviewer.expires /\ p.at = now
        /\ p.pc \in ReviewerBusy
    BY <1>3, ReviewerKnows DEF ReviewerStates, Process, ReviewerBusy
  <1>5. HoldsReview(reviewer, reviews[reviewer.run], calls[reviewer.run])
    BY <1>1, BusyKnows
  <1> HIDE DEF p
  <1>6. HoldsReview(p, reviews[reviewer.run], calls[reviewer.run])
    BY <1>1, <1>3, <1>4, <1>5 DEF HoldsReview
  <1>7. QED
    BY <1>1, <1>4, <1>6, BusyStays

(* An event of the worker. *)
LEMMA WorkerEvent ==
    ASSUME NEW type, NEW at, NEW until
    PROVE  LET e == ByReviewWorker(type, at, until) IN
           /\ e.type = type /\ e.by = reviewer.config.reviewer /\ e.at = at
           /\ e.until = until /\ e.snapshot = reviewer.run
  BY DEF ByReviewWorker, ReviewEvent

LEMMA ReviewerRenews ==
    ASSUME PipelineInv, RenewLease,
           UNCHANGED <<executor, reviewed, verifications, verifier, calls, now>>
    PROVE  PipelineInv'
  <1> DEFINE r == reviewer.run
             x == reviews[r]
             t == reviewer.at + Lease
             e == ByReviewWorker("renewed", reviewer.at, t)
             y == RV!ReviewApply(x, e)
             p == [reviewer EXCEPT !.pc = "dispatch", !.expires = t]
  <1>1. reviewer.pc = "renew" /\ reviewer.pc \in ReviewerBusy /\ reviewer' = p /\ AppendReview(e)
    BY DEF RenewLease, ReviewerBusy
  <1>2. /\ r \in Runs /\ x \in RV!ReviewState /\ calls[r] \in Nat
        /\ HoldsReview(reviewer, x, calls[r]) /\ ReviewOK(x, calls[r], executor[r], r)
        /\ reviewer.config.reviewer \in Principals
    BY <1>1, BusyKnows
  <1>3. t \in Nat /\ reviewer.at \in Nat /\ Lease \in Nat /\ t <= t
    BY ReviewerKnows
  <1>4. e.type = "renewed" /\ e.by = reviewer.config.reviewer /\ e.until = t /\ e.snapshot = r
    BY WorkerEvent
  <1> DEFINE at == reviewer.at
  <1>5. at + Lease = t
    OBVIOUS
  <1> HIDE DEF e, t, r
  <1>6. p \in ReviewerStates /\ p.pc = "dispatch" /\ p.config = reviewer.config /\ p.run = r
        /\ p.token = reviewer.token /\ p.expires = t /\ p.at = reviewer.at /\ p.pc \in ReviewerBusy
    BY <1>3, ReviewerKnows DEF ReviewerStates, Process, ReviewerBusy, r
  <1> HIDE DEF p
  <1>7. reviews' = [reviews EXCEPT ![r] = y]
    BY <1>1, <1>4 DEF AppendReview
  <1>8. /\ y \in RV!ReviewState /\ y.status = x.status /\ y.worker = x.worker
        /\ y.token = x.token /\ y.expires = t /\ y.dispatches = x.dispatches
    BY <1>2, <1>3, <1>4, Renewed
  <1> HIDE DEF y
  <1>9. x.status = "claimed" /\ x.worker = reviewer.config.reviewer /\ x.token = reviewer.token
    BY <1>1, <1>2 DEF HoldsReview
  <1>10. HoldsReview(p, y, calls[r])
    BY <1>3, <1>5, <1>6, <1>8, <1>9 DEF HoldsReview
  <1>11. RV!ReviewedOnce(y) /\ calls[r] <= y.dispatches
    BY <1>2, <1>8 DEF ReviewOK, RV!ReviewedOnce
  <1>12. calls' = [calls EXCEPT ![r] = calls[r]] /\ y.status # "succeeded"
    BY <1>8, <1>9 DEF PipelineInv, PipelineTypes
  <1>13. QED
    BY <1>1, <1>2, <1>6, <1>7, <1>8, <1>10, <1>11, <1>12, BusyWorks DEF r

(* The window: with a whole lease ahead the call has its configured latency. *)
LEMMA WholeLatency ==
    ASSUME PipelineInv, reviewer.pc \in {"dispatch", "call"}
    PROVE  ProviderLatency = MaxLatency /\ reviewer.at + MaxLatency <= reviewer.expires
  <1> DEFINE ex == reviewer.expires
             at == reviewer.at
  <1>1. at \in Nat /\ ex \in Nat /\ Lease \in Nat /\ MaxLatency \in Nat /\ MaxLatency < Lease
    BY ReviewerKnows, LeaseAssumption
  <1>2. at + Lease <= ex
    BY DEF PipelineInv, HoldsReview, ReviewerBusy
  <1> DEFINE w == (ex - at) - (Lease - MaxLatency)
  <1>3. ProviderLatency = Min({MaxLatency, w})
    BY DEF ProviderLatency
  <1> HIDE DEF ex, at
  <1>4. w \in Int /\ MaxLatency <= w
    BY <1>1, <1>2
  <1> HIDE DEF w
  <1>5. Min({MaxLatency, w}) = MaxLatency
    BY <1>1, <1>4 DEF Min
  <1>6. at + MaxLatency <= ex
    BY <1>1, <1>2
  <1>7. QED
    BY <1>3, <1>5, <1>6 DEF ex, at

LEMMA ReviewerDispatches ==
    ASSUME PipelineInv, RecordProviderDispatch,
           UNCHANGED <<executor, reviewed, verifications, verifier, calls, now>>
    PROVE  PipelineInv'
  <1> DEFINE r == reviewer.run
             x == reviews[r]
             e == ByReviewWorker("dispatched", reviewer.at, 0)
             y == RV!ReviewApply(x, e)
             p == [reviewer EXCEPT !.pc = "call"]
  <1>0. reviewer.pc = "dispatch" /\ reviewer.pc \in ReviewerBusy
    BY DEF RecordProviderDispatch, ReviewerBusy
  <1>1. reviewer' = p /\ AppendReview(e)
    <2>1. ProviderLatency >= 1
      BY <1>0, WholeLatency, LeaseAssumption
    <2>2. QED
      BY <2>1 DEF RecordProviderDispatch, ReviewerTo
  <1>2. /\ r \in Runs /\ x \in RV!ReviewState /\ calls[r] \in Nat
        /\ HoldsReview(reviewer, x, calls[r]) /\ ReviewOK(x, calls[r], executor[r], r)
        /\ reviewer.config.reviewer \in Principals
    BY <1>0, BusyKnows
  <1>4. e.type = "dispatched" /\ e.by = reviewer.config.reviewer /\ e.snapshot = r
    BY WorkerEvent
  <1> HIDE DEF e, r
  <1>6. p \in ReviewerStates /\ p.pc = "call" /\ p.config = reviewer.config /\ p.run = r
        /\ p.token = reviewer.token /\ p.expires = reviewer.expires /\ p.at = reviewer.at
        /\ p.pc \in ReviewerBusy
    BY ReviewerKnows DEF ReviewerStates, Process, ReviewerBusy, r
  <1> HIDE DEF p
  <1>7. reviews' = [reviews EXCEPT ![r] = y]
    BY <1>1, <1>4 DEF AppendReview
  <1>8. /\ y \in RV!ReviewState /\ y.status = "dispatched" /\ y.worker = x.worker
        /\ y.token = x.token /\ y.expires = x.expires /\ y.dispatches = x.dispatches + 1
    BY <1>2, <1>4, Dispatched
  <1> HIDE DEF y
  <1>9. x.status = "claimed"
    BY <1>0, <1>2 DEF HoldsReview
  <1>10. x.dispatches = 0 /\ calls[r] = 0 /\ y.dispatches = 1
    <2>1. x.dispatches = 0 /\ calls[r] <= x.dispatches
      BY <1>2, <1>9 DEF ReviewOK, RV!ReviewedOnce
    <2>2. QED
      BY <1>2, <1>8, <2>1
  <1>11. HoldsReview(p, y, calls[r])
    BY <1>0, <1>2, <1>6, <1>8, <1>10 DEF HoldsReview
  <1>12. RV!ReviewedOnce(y) /\ calls[r] <= y.dispatches
    BY <1>8, <1>10 DEF RV!ReviewedOnce
  <1>13. calls' = [calls EXCEPT ![r] = calls[r]] /\ y.status # "succeeded"
    BY <1>8 DEF PipelineInv, PipelineTypes
  <1>14. QED
    BY <1>0, <1>1, <1>2, <1>6, <1>7, <1>8, <1>11, <1>12, <1>13, BusyWorks DEF r

LEMMA ReviewerCalls ==
    ASSUME PipelineInv, CallReviewer,
           UNCHANGED <<executor, reviewed, verifications, verifier, now>>
    PROVE  PipelineInv'
  <1> DEFINE r == reviewer.run
             x == reviews[r]
             n == calls[r] + 1
             p == [reviewer EXCEPT !.pc = "record"]
  <1>1. /\ reviewer.pc = "call" /\ reviewer.pc \in ReviewerBusy /\ reviewer' = p
        /\ calls' = [calls EXCEPT ![r] = n] /\ reviews' = reviews
    BY DEF CallReviewer, ReviewerTo, ReviewerBusy
  <1>2. /\ r \in Runs /\ x \in RV!ReviewState /\ calls[r] \in Nat
        /\ HoldsReview(reviewer, x, calls[r]) /\ ReviewOK(x, calls[r], executor[r], r)
    BY <1>1, BusyKnows
  <1>3. x.status = "dispatched" /\ calls[r] = 0
    BY <1>1, <1>2 DEF HoldsReview
  <1>4. n = 1 /\ x.dispatches = 1
    BY <1>2, <1>3 DEF ReviewOK, RV!ReviewedOnce
  <1> HIDE DEF n, r
  <1>6. p \in ReviewerStates /\ p.pc = "record" /\ p.config = reviewer.config /\ p.run = r
        /\ p.token = reviewer.token /\ p.expires = reviewer.expires
        /\ p.pc \in ReviewerBusy
    BY ReviewerKnows DEF ReviewerStates, Process, ReviewerBusy, r
  <1> HIDE DEF p
  <1>7. reviews' = [reviews EXCEPT ![r] = x]
    BY <1>1 DEF PipelineInv, PipelineTypes
  <1>8. HoldsReview(p, x, n)
    BY <1>2, <1>3, <1>4, <1>6 DEF HoldsReview
  <1>9. RV!ReviewedOnce(x) /\ n <= x.dispatches /\ n \in Nat /\ x.status # "succeeded"
    BY <1>2, <1>3, <1>4 DEF ReviewOK
  <1>10. QED
    BY <1>1, <1>2, <1>6, <1>7, <1>8, <1>9, BusyWorks DEF r

(* record_success and record_failure end the review. *)
LEMMA ReviewerEnds ==
    ASSUME PipelineInv, reviewer.pc \in ReviewerBusy,
           NEW type \in {"succeeded", "failed"}, AppendReview(ByReviewWorker(type, now, 0)),
           type = "succeeded" => reviewer.pc = "record",
           reviewed' = IF type = "succeeded" THEN Append(reviewed, reviewer.run) ELSE reviewed,
           reviewer' = Idle(reviewer), UNCHANGED <<executor, verifications, verifier, calls, now>>
    PROVE  PipelineInv'
  <1> DEFINE r == reviewer.run
             x == reviews[r]
             e == ByReviewWorker(type, now, 0)
             y == RV!ReviewApply(x, e)
             p == Idle(reviewer)
  <1>2. /\ r \in Runs /\ x \in RV!ReviewState /\ calls[r] \in Nat
        /\ HoldsReview(reviewer, x, calls[r]) /\ ReviewOK(x, calls[r], executor[r], r)
        /\ reviewer.config \in Configs /\ reviewer.config.reviewer \in Principals
    BY BusyKnows
  <1>4. e.type = type /\ e.by = reviewer.config.reviewer /\ e.snapshot = r
    BY WorkerEvent
  <1>6. p \in ReviewerStates /\ p.pc = "idle" /\ p.config = reviewer.config
    BY <1>2, RestStates
  <1> HIDE DEF e, p, r
  <1>7. reviews' = [reviews EXCEPT ![r] = y]
    BY <1>4 DEF AppendReview, e
  <1>8. /\ y \in RV!ReviewState /\ y.status = type /\ y.worker = x.worker
        /\ y.dispatches = x.dispatches
    BY <1>2, <1>4, Ended
  <1> HIDE DEF y
  <1>9. type = "succeeded" => x.status = "dispatched"
    BY <1>2 DEF HoldsReview
  <1>10. RV!ReviewedOnce(y) /\ calls[r] <= y.dispatches
    BY <1>2, <1>8, <1>9 DEF ReviewOK, RV!ReviewedOnce
  <1>11. calls' = [calls EXCEPT ![r] = calls[r]]
    BY DEF PipelineInv, PipelineTypes
  <1>12. reviewer' = p /\ y.status \notin {"claimed", "dispatched"}
         /\ reviewed' = IF y.status = "succeeded" THEN Append(reviewed, r) ELSE reviewed
    BY <1>8 DEF p, r
  <1>13. QED
    BY <1>2, <1>6, <1>7, <1>8, <1>10, <1>11, <1>12, BusyWorks DEF r

LEMMA ReviewerSucceeds ==
    ASSUME PipelineInv, RecordSuccess,
           UNCHANGED <<executor, verifications, verifier, calls, now>>
    PROVE  PipelineInv'
  <1>1. reviewer.pc = "record" /\ reviewer.pc \in ReviewerBusy
    BY DEF RecordSuccess, ReviewerBusy
  <1>2. CASE /\ AppendReview(ByReviewWorker("succeeded", now, 0))
             /\ reviewed' = Append(reviewed, reviewer.run)
             /\ reviewer' = Idle(reviewer)
    BY <1>1, <1>2, ReviewerEnds
  <1>3. CASE ReviewerTo("fail") /\ UNCHANGED <<reviews, reviewed>>
    <2> DEFINE p == [reviewer EXCEPT !.pc = "fail"]
    <2>1. reviewer' = p
      BY <1>3 DEF ReviewerTo
    <2>2. p \in ReviewerStates /\ p.pc = "fail" /\ p.config = reviewer.config /\ p.run = reviewer.run
          /\ p.token = reviewer.token /\ p.expires = reviewer.expires /\ p.pc \in ReviewerBusy
      BY ReviewerKnows DEF ReviewerStates, Process, ReviewerBusy
    <2>3. HoldsReview(reviewer, reviews[reviewer.run], calls[reviewer.run])
      BY <1>1, BusyKnows
    <2> HIDE DEF p
    <2>4. HoldsReview(p, reviews[reviewer.run], calls[reviewer.run])
      BY <1>1, <2>2, <2>3 DEF HoldsReview
    <2>5. QED
      BY <1>1, <1>3, <2>1, <2>2, <2>4, BusyStays
  <1>4. QED
    BY <1>2, <1>3 DEF RecordSuccess

LEMMA ReviewerFails ==
    ASSUME PipelineInv, RecordFailure,
           UNCHANGED <<executor, reviewed, verifications, verifier, calls, now>>
    PROVE  PipelineInv'
  BY ReviewerEnds DEF RecordFailure, ReviewerBusy

----------------------------------------------------------------------------
(* Steps of the verification worker *)

LEMMA VerificationClaimed ==
    ASSUME NEW v \in Verification, NEW e, e.type = "claimed", e.by \in Principals,
           e.token \in Nat, e.snapshot \in Nat
    PROVE  LET w == VF!VerificationApply(v, e) IN
           /\ w \in Verification /\ w.status = "claimed" /\ w.worker = e.by
           /\ w.token = e.token /\ w.snapshot = e.snapshot
  <1>1. VF!VerificationApply(v, e) = VF!ClaimVerification(v, e)
    BY DEF VF!VerificationApply
  <1>2. QED
    BY <1>1 DEF VF!ClaimVerification, Verification, VF!VerificationStatus

LEMMA VerificationEnded ==
    ASSUME NEW v \in Verification, NEW e, e.type \in {"completed", "failed", "requeued"}
    PROVE  LET w == VF!VerificationApply(v, e) IN
           /\ w \in Verification /\ w.status = e.type /\ w.worker = v.worker
           /\ w.token = v.token /\ w.snapshot = v.snapshot
  <1>1. CASE e.type = "completed"
    <2> DEFINE n == v.reports + 1
               w == [[v EXCEPT !.reports = n] EXCEPT !.status = "completed"]
    <2>1. VF!VerificationApply(v, e) = w
      BY <1>1 DEF VF!VerificationApply, Verification
    <2>2. n \in Nat
      BY DEF Verification
    <2> HIDE DEF n
    <2>3. /\ w \in Verification /\ w.status = "completed" /\ w.worker = v.worker
          /\ w.token = v.token /\ w.snapshot = v.snapshot
      BY <2>2 DEF Verification, VF!VerificationStatus
    <2> HIDE DEF w
    <2>4. QED
      BY <1>1, <2>1, <2>3
  <1>2. CASE e.type \in {"failed", "requeued"}
    <2>1. VF!VerificationApply(v, e) = [v EXCEPT !.status = e.type]
      BY <1>2 DEF VF!VerificationApply
    <2>2. QED
      BY <1>2, <2>1 DEF Verification, VF!VerificationStatus
  <1>3. QED
    BY <1>1, <1>2

LEMMA VerifierKnows ==
    ASSUME PipelineInv
    PROVE  /\ verifier \in VerifierStates
           /\ verifier.pc \in {"down", "reconcile", "idle"} \cup VerifierBusy
           /\ verifier.token \in Nat /\ verifier.todo \in SUBSET Runs
           /\ \A r \in Runs : verifications[r] \in Verification /\ reviews[r] \in RV!ReviewState
           /\ verifier.pc # "down" =>
                 /\ verifier.config \in Configs /\ verifier.config.verifier \in Principals
  <1>1. verifier \in VerifierStates
        /\ \A r \in Runs : verifications[r] \in Verification /\ reviews[r] \in RV!ReviewState
    BY DEF PipelineInv, PipelineTypes
  <1>2. /\ verifier.pc \in {"down", "reconcile", "idle"} \cup VerifierBusy
        /\ verifier.token \in Nat /\ verifier.todo \in SUBSET Runs
    BY <1>1 DEF VerifierStates, Process
  <1>3. QED
    BY <1>1, <1>2, ConfigsSeparate DEF PipelineInv

LEMMA VerifierStays ==
    ASSUME PipelineInv, NEW p \in VerifierStates, verifier' = p,
           UNCHANGED <<executor, reviews, reviewed, verifications, reviewer, calls, now>>,
           \A s \in Runs : AttendedVerification(p, verifications[s], s),
           p.pc # "down" => p.config \in Configs,
           p.pc \in VerifierBusy =>
               p.run \in Runs /\ HoldsVerification(p, verifications[p.run])
    PROVE  PipelineInv'
  BY DEF PipelineInv, PipelineTypes

LEMMA VerifierWorks ==
    ASSUME PipelineInv, NEW r \in Runs, NEW v \in Verification, NEW p \in VerifierStates,
           verifications' = [verifications EXCEPT ![r] = v], verifier' = p,
           UNCHANGED <<executor, reviews, reviewed, reviewer, calls, now>>,
           VerificationOK(v, reviews[r], executor[r], r),
           AttendedVerification(p, v, r),
           \A s \in Runs \ {r} : AttendedVerification(p, verifications[s], s),
           p.pc # "down" => p.config \in Configs,
           p.pc \in VerifierBusy => p.run = r /\ HoldsVerification(p, v)
    PROVE  PipelineInv'
  <1>1. /\ verifications' \in [Runs -> Verification] /\ verifications'[r] = v
        /\ \A s \in Runs \ {r} : verifications'[s] = verifications[s]
    BY DEF PipelineInv, PipelineTypes
  <1>2. \A s \in Runs : /\ VerificationOK(verifications'[s], reviews[s], executor[s], s)
                        /\ AttendedVerification(p, verifications'[s], s)
    BY <1>1 DEF PipelineInv
  <1>3. QED
    BY <1>1, <1>2 DEF PipelineInv, PipelineTypes

LEMMA VerifierGoesDown ==
    ASSUME PipelineInv, verifier' = Down,
           UNCHANGED <<executor, reviews, reviewed, verifications, reviewer, calls, now>>
    PROVE  PipelineInv'
  BY DownState, VerifierStays DEF AttendedVerification, VerifierBusy

LEMMA VerifierOthersRest ==
    ASSUME PipelineInv, verifier.pc \in {"idle"} \cup VerifierBusy, NEW s \in Runs,
           verifier.pc \in VerifierBusy => s # verifier.run
    PROVE  \A p : AttendedVerification(p, verifications[s], s)
  BY DEF PipelineInv, AttendedVerification, VerifierBusy

LEMMA VerifierStarts ==
    ASSUME PipelineInv, NEW c \in Configs, StartVerifier(c),
           UNCHANGED <<executor, reviews, reviewed, reviewer, calls, now>>
    PROVE  PipelineInv'
  <1> DEFINE p == [Down EXCEPT !.pc = "reconcile", !.config = c,
                               !.todo = {r \in Runs : verifications[r].status # "none"}]
  <1>1. p \in VerifierStates /\ p.pc = "reconcile" /\ p.config = c
        /\ p.todo = {r \in Runs : verifications[r].status # "none"}
    BY DEF Down, VerifierStates, Process
  <1>2. verifier' = p /\ UNCHANGED verifications
    BY DEF StartVerifier
  <1> HIDE DEF p
  <1>3. \A s \in Runs : AttendedVerification(p, verifications[s], s)
    BY <1>1 DEF AttendedVerification
  <1>4. QED
    BY <1>1, <1>2, <1>3, VerifierStays DEF VerifierBusy

LEMMA VerifierReconciles ==
    ASSUME PipelineInv, NEW r \in Runs, ReconcileVerification(r),
           UNCHANGED <<executor, reviews, reviewed, reviewer, calls, now>>
    PROVE  PipelineInv'
  <1> DEFINE p == [verifier EXCEPT !.todo = @ \ {r}]
             v == verifications[r]
  <1>1. verifier.pc = "reconcile" /\ verifier.config \in Configs /\ r \in verifier.todo
        /\ v \in Verification
    BY VerifierKnows DEF ReconcileVerification
  <1>2. p \in VerifierStates /\ p.pc = "reconcile" /\ p.config = verifier.config
        /\ p.todo = verifier.todo \ {r}
    BY <1>1, VerifierKnows DEF VerifierStates, Process
  <1>3. \A s \in Runs \ {r} : AttendedVerification(p, verifications[s], s)
    <2>1. \A s \in Runs : AttendedVerification(verifier, verifications[s], s)
      BY DEF PipelineInv
    <2> HIDE DEF p
    <2>2. QED
      BY <1>1, <1>2, <2>1 DEF AttendedVerification, VerifierBusy
  <1> DEFINE e == VerificationEvent("requeued", r, verifier.config.verifySupervisor, v.token, 1)
  <1> HIDE DEF p
  <1>4. CASE v.status # "claimed" /\ verifier' = p /\ UNCHANGED verifications
    <2>1. AttendedVerification(p, v, r)
      BY <1>4 DEF AttendedVerification
    <2>2. QED
      BY <1>1, <1>2, <1>3, <1>4, <2>1, VerifierStays DEF VerifierBusy
  <1>5. CASE v.status = "claimed" /\ AppendVerification(r, e) /\ verifier' = p
    <2> DEFINE w == VF!VerificationApply(v, e)
    <2>1. e.type = "requeued"
      BY DEF VerificationEvent
    <2>2. verifications' = [verifications EXCEPT ![r] = w]
      BY <1>5 DEF AppendVerification
    <2> HIDE DEF e
    <2>3. w \in Verification /\ w.status = "requeued" /\ w.worker = v.worker
          /\ w.token = v.token /\ w.snapshot = v.snapshot
      BY <1>1, <2>1, VerificationEnded
    <2> HIDE DEF w
    <2>4. VerificationOK(v, reviews[r], executor[r], r)
      BY DEF PipelineInv
    <2>5. VerificationOK(w, reviews[r], executor[r], r)
      BY <1>5, <2>3, <2>4 DEF VerificationOK
    <2>6. AttendedVerification(p, w, r) /\ p.pc \notin VerifierBusy
      BY <1>2, <2>3 DEF AttendedVerification, VerifierBusy
    <2>7. QED
      BY <1>1, <1>2, <1>3, <1>5, <2>2, <2>3, <2>5, <2>6, VerifierWorks
  <1>6. CASE verifier' = Down /\ UNCHANGED verifications
    BY <1>6, VerifierGoesDown
  <1>7. QED
    BY <1>4, <1>5, <1>6 DEF ReconcileVerification, p

LEMMA VerifierIdles ==
    ASSUME PipelineInv, VerifierReconciled,
           UNCHANGED <<executor, reviews, reviewed, reviewer, calls, now>>
    PROVE  PipelineInv'
  <1>1. verifier.pc = "reconcile" /\ verifier.todo = {} /\ verifier.config \in Configs
        /\ verifier' = Idle(verifier) /\ UNCHANGED verifications
    BY VerifierKnows DEF VerifierReconciled
  <1>2. \A s \in Runs : AttendedVerification(Idle(verifier), verifications[s], s)
    <2>1. \A s \in Runs : AttendedVerification(verifier, verifications[s], s)
      BY DEF PipelineInv
    <2>2. QED
      BY <1>1, <2>1 DEF AttendedVerification, VerifierBusy
  <1>3. QED
    BY <1>1, <1>2, RestStates, VerifierStays DEF VerifierBusy

(* claim: the review is over and on record, and its token is what is bound. *)
LEMMA VerifierClaims ==
    ASSUME PipelineInv, NEW r \in Runs, ClaimForVerification(r),
           UNCHANGED <<executor, reviews, reviewed, reviewer, calls, now>>
    PROVE  PipelineInv'
  <1> DEFINE v == verifications[r]
             k == v.token + 1
             t == reviews[r].token
             p == [verifier EXCEPT !.pc = "prepare", !.run = r, !.token = k]
             e == VerificationEvent("claimed", r, verifier.config.verifier, k, t)
             w == VF!VerificationApply(v, e)
  <1>1. /\ verifier.pc = "idle" /\ verifier.config \in Configs
        /\ verifier.config.verifier \in Principals /\ v \in Verification
        /\ t \in Nat
    BY VerifierKnows, ReviewFields DEF ClaimForVerification
  <1>2. k \in Nat
    BY <1>1 DEF Verification
  <1>3. /\ verifier' = p /\ AppendVerification(r, e)
        /\ verifier.config.verifier \notin {executor[r]} \cup reviews[r].actors
    BY DEF ClaimForVerification, Involved
  <1>4. reviews[r].status = "succeeded"
    BY DEF ClaimForVerification, IsNextVerification, PipelineInv
  <1>5. executor[r] # None /\ r \notin Generated
    BY <1>4 DEF PipelineInv, ReviewOK
  <1> HIDE DEF k
  <1>6. e.type = "claimed" /\ e.by = verifier.config.verifier /\ e.token = k /\ e.snapshot = t
    BY DEF VerificationEvent
  <1>7. p \in VerifierStates /\ p.pc = "prepare" /\ p.run = r /\ p.token = k
        /\ p.config = verifier.config
    BY <1>1, <1>2, VerifierKnows DEF VerifierStates, Process, VerifierBusy
  <1> HIDE DEF e, p
  <1>8. verifications' = [verifications EXCEPT ![r] = w]
    BY <1>3 DEF AppendVerification
  <1>9. w \in Verification /\ w.status = "claimed" /\ w.worker = verifier.config.verifier
        /\ w.token = k /\ w.snapshot = t
    BY <1>1, <1>2, <1>6, VerificationClaimed
  <1> HIDE DEF w
  <1>10. VerificationOK(w, reviews[r], executor[r], r)
    BY <1>3, <1>4, <1>5, <1>9 DEF VerificationOK
  <1>11. AttendedVerification(p, w, r)
    BY <1>7 DEF AttendedVerification, VerifierBusy
  <1>12. \A s \in Runs \ {r} : AttendedVerification(p, verifications[s], s)
    <2>1. verifier.pc \in {"idle"} \cup VerifierBusy /\ verifier.pc \notin VerifierBusy
      BY <1>1 DEF VerifierBusy
    <2>2. QED
      BY <2>1, VerifierOthersRest
  <1>13. HoldsVerification(p, w)
    BY <1>7, <1>9 DEF HoldsVerification
  <1>14. QED
    BY <1>1, <1>3, <1>7, <1>8, <1>9, <1>10, <1>11, <1>12, <1>13, VerifierWorks

(* A step within the cycle. *)
LEMMA VerifierMovesOn ==
    ASSUME PipelineInv, verifier.pc \in VerifierBusy, NEW pc \in VerifierBusy,
           verifier' = [verifier EXCEPT !.pc = pc],
           UNCHANGED <<executor, reviews, reviewed, verifications, reviewer, calls, now>>
    PROVE  PipelineInv'
  <1> DEFINE p == [verifier EXCEPT !.pc = pc]
  <1>1. p \in VerifierStates /\ p.pc = pc /\ p.config = verifier.config /\ p.run = verifier.run
        /\ p.token = verifier.token
    BY VerifierKnows DEF VerifierStates, Process
  <1>2. /\ verifier.run \in Runs /\ HoldsVerification(verifier, verifications[verifier.run])
        /\ verifier.config \in Configs
    BY VerifierKnows DEF PipelineInv, VerifierBusy
  <1>3. verifier' = p
    OBVIOUS
  <1> HIDE DEF p
  <1>4. HoldsVerification(p, verifications[p.run])
    BY <1>1, <1>2 DEF HoldsVerification
  <1>5. \A s \in Runs : AttendedVerification(p, verifications[s], s)
    <2>1. \A s \in Runs \ {verifier.run} : AttendedVerification(p, verifications[s], s)
      BY VerifierOthersRest
    <2>2. AttendedVerification(p, verifications[verifier.run], verifier.run)
      BY <1>1 DEF AttendedVerification
    <2>3. QED
      BY <2>1, <2>2
  <1>6. QED
    BY <1>1, <1>2, <1>3, <1>4, <1>5, VerifierStays

(* record_completed and record_failure. *)
LEMMA VerifierEnds ==
    ASSUME PipelineInv, verifier.pc \in VerifierBusy, NEW type \in {"completed", "failed"},
           AppendVerification(verifier.run, ByVerifier(type)), verifier' = Idle(verifier),
           UNCHANGED <<executor, reviews, reviewed, reviewer, calls, now>>
    PROVE  PipelineInv'
  <1> DEFINE r == verifier.run
             v == verifications[r]
             e == ByVerifier(type)
             w == VF!VerificationApply(v, e)
             p == Idle(verifier)
  <1>1. /\ r \in Runs /\ HoldsVerification(verifier, v) /\ verifier.config \in Configs
        /\ v \in Verification /\ VerificationOK(v, reviews[r], executor[r], r)
    BY VerifierKnows DEF PipelineInv, VerifierBusy
  <1>2. e.type = type
    BY DEF ByVerifier, VerificationEvent
  <1>3. p \in VerifierStates /\ p.pc = "idle" /\ p.config = verifier.config
    BY <1>1, RestStates
  <1>4. verifications' = [verifications EXCEPT ![r] = w]
    BY DEF AppendVerification
  <1>5. verifier' = p
    OBVIOUS
  <1>6. \A s \in Runs \ {r} : \A q : AttendedVerification(q, verifications[s], s)
    BY VerifierOthersRest
  <1> HIDE DEF e, p, r
  <1>7. w \in Verification /\ w.status = type /\ w.worker = v.worker /\ w.snapshot = v.snapshot
    BY <1>1, <1>2, VerificationEnded
  <1> HIDE DEF w
  <1>8. VerificationOK(w, reviews[r], executor[r], r)
    BY <1>1, <1>7 DEF VerificationOK, HoldsVerification
  <1>9. AttendedVerification(p, w, r) /\ p.pc \notin VerifierBusy
    BY <1>3, <1>7 DEF AttendedVerification, VerifierBusy
  <1>10. QED
    BY <1>1, <1>3, <1>4, <1>5, <1>6, <1>7, <1>8, <1>9, VerifierWorks

----------------------------------------------------------------------------
(* The theorems *)

LEMMA PipelineStarts == Init => PipelineInv
  <1> SUFFICES ASSUME Init PROVE PipelineInv
    OBVIOUS
  <1>1. RV!Unreviewed \in RV!ReviewState /\ RV!Unreviewed.status = "none"
        /\ RV!Unreviewed.dispatches = 0
    BY DEF RV!Unreviewed, RV!ReviewState, RV!ReviewStatus
  <1>2. VF!Unverified \in Verification /\ VF!Unverified.status = "none"
    BY DEF VF!Unverified, Verification, VF!VerificationStatus
  <1>3. PipelineTypes
    BY <1>1, <1>2, DownState DEF Init, PipelineTypes
  <1>4. \A r \in Runs : reviews[r] = RV!Unreviewed /\ calls[r] = 0 /\ verifications[r] = VF!Unverified
    BY DEF Init
  <1>5. \A r \in Runs : /\ ReviewOK(reviews[r], calls[r], executor[r], r)
                        /\ AttendedReview(reviewer, reviews[r], r)
                        /\ VerificationOK(verifications[r], reviews[r], executor[r], r)
                        /\ AttendedVerification(verifier, verifications[r], r)
    BY <1>1, <1>2, <1>4 DEF ReviewOK, RV!ReviewedOnce, AttendedReview, VerificationOK,
       AttendedVerification
  <1>6. reviewed = <<>> /\ reviewer.pc = "down" /\ verifier.pc = "down"
    BY DownState DEF Init
  <1>7. QED
    BY <1>3, <1>5, <1>6 DEF PipelineInv, ReviewerBusy, VerifierBusy

LEMMA EnvironmentSteps ==
    ASSUME PipelineInv,
           \/ \E r \in Runs, c \in Configs : RunSucceeds(r, c)
           \/ Tick \/ CrashReviewer \/ CrashVerifier
    PROVE  PipelineInv'
  <1>1. ASSUME NEW r \in Runs, NEW c \in Configs, RunSucceeds(r, c) PROVE PipelineInv'
    <2>1. c.executor \in Principals /\ executor[r] = None
      BY <1>1, ConfigsSeparate DEF RunSucceeds
    <2>2. executor' = [executor EXCEPT ![r] = c.executor]
          /\ UNCHANGED <<reviews, reviewed, verifications, reviewer, verifier, calls, now>>
      BY <1>1 DEF RunSucceeds
    <2>3. /\ executor' \in [Runs -> Principals \cup {None}]
          /\ \A s \in Runs \ {r} : executor'[s] = executor[s]
      BY <2>1, <2>2 DEF PipelineInv, PipelineTypes
    <2>4. reviews[r].status = "none" /\ verifications[r].status = "none"
      BY <2>1 DEF PipelineInv, ReviewOK, VerificationOK
    <2>5. \A s \in Runs : /\ ReviewOK(reviews[s], calls[s], executor'[s], s)
                          /\ VerificationOK(verifications[s], reviews[s], executor'[s], s)
      <3>1. ReviewOK(reviews[r], calls[r], executor'[r], r)
        BY <2>4 DEF PipelineInv, ReviewOK
      <3>2. VerificationOK(verifications[r], reviews[r], executor'[r], r)
        BY <2>4 DEF VerificationOK
      <3>3. QED
        BY <2>3, <3>1, <3>2 DEF PipelineInv
    <2>6. QED
      BY <2>2, <2>3, <2>5 DEF PipelineInv, PipelineTypes
  <1>2. CASE Tick
    <2>1. now' \in Nat
      BY <1>2 DEF Tick, PipelineInv, PipelineTypes
    <2>2. QED
      BY <1>2, <2>1 DEF Tick, PipelineInv, PipelineTypes
  <1>3. CASE CrashReviewer
    BY <1>3, ReviewerGoesDown DEF CrashReviewer
  <1>4. CASE CrashVerifier
    BY <1>4, VerifierGoesDown DEF CrashVerifier
  <1>5. QED
    BY <1>1, <1>2, <1>3, <1>4

LEMMA ReviewerKeeps == ASSUME PipelineInv, ReviewerNext PROVE PipelineInv'
  <1>0. UNCHANGED <<executor, verifications, verifier, now>>
    BY DEF ReviewerNext
  <1>1. CASE CallReviewer /\ UNCHANGED reviewed
    BY <1>0, <1>1, ReviewerCalls
  <1>2. CASE RecordSuccess /\ UNCHANGED calls
    BY <1>0, <1>2, ReviewerSucceeds
  <1>3. CASE /\ \/ \E c \in Configs : StartReviewer(c)
                \/ \E r \in Runs : ReconcileReview(r) \/ Claim(r)
                \/ Reconciled \/ CandidateFails \/ ReviewFault \/ Prepare \/ RenewLease
                \/ RecordProviderDispatch \/ RecordFailure
             /\ UNCHANGED <<reviewed, calls>>
    <2>1. ASSUME NEW c \in Configs, StartReviewer(c) PROVE PipelineInv'
      BY <1>0, <1>3, <2>1, ReviewerStarts
    <2>2. ASSUME NEW r \in Runs, ReconcileReview(r) PROVE PipelineInv'
      BY <1>0, <1>3, <2>2, ReviewerReconciles
    <2>3. ASSUME NEW r \in Runs, Claim(r) PROVE PipelineInv'
      BY <1>0, <1>3, <2>3, ReviewerClaims
    <2>4. CASE Reconciled
      BY <1>0, <1>3, <2>4, ReviewerReconciled
    <2>5. CASE CandidateFails
      BY <1>0, <1>3, <2>5, ReviewerGoesDown DEF CandidateFails
    <2>6. CASE ReviewFault
      BY <1>0, <1>3, <2>6, ReviewerFaults
    <2>7. CASE Prepare
      BY <1>0, <1>3, <2>7, ReviewerPrepares
    <2>8. CASE RenewLease
      BY <1>0, <1>3, <2>8, ReviewerRenews
    <2>9. CASE RecordProviderDispatch
      BY <1>0, <1>3, <2>9, ReviewerDispatches
    <2>10. CASE RecordFailure
      BY <1>0, <1>3, <2>10, ReviewerFails
    <2>11. QED
      BY <1>3, <2>1, <2>2, <2>3, <2>4, <2>5, <2>6, <2>7, <2>8, <2>9, <2>10
  <1>4. QED
    BY <1>1, <1>2, <1>3 DEF ReviewerNext, ReviewerSteps

LEMMA VerifierKeeps == ASSUME PipelineInv, VerifierNext PROVE PipelineInv'
  <1>0. UNCHANGED <<executor, reviews, reviewed, reviewer, calls, now>>
    BY DEF VerifierNext
  <1>1. ASSUME NEW c \in Configs, StartVerifier(c) PROVE PipelineInv'
    BY <1>0, <1>1, VerifierStarts
  <1>2. ASSUME NEW r \in Runs, ReconcileVerification(r) PROVE PipelineInv'
    BY <1>0, <1>2, VerifierReconciles
  <1>3. ASSUME NEW r \in Runs, ClaimForVerification(r) PROVE PipelineInv'
    BY <1>0, <1>3, VerifierClaims
  <1>4. CASE VerifierReconciled
    BY <1>0, <1>4, VerifierIdles
  <1>5. CASE PrepareVerification
    <2>1. UNCHANGED verifications /\ verifier.pc \in VerifierBusy
          /\ \E pc \in VerifierBusy : verifier' = [verifier EXCEPT !.pc = pc]
      BY <1>5 DEF PrepareVerification, VerifierBusy
    <2>2. QED
      BY <1>0, <2>1, VerifierMovesOn
  <1>6. CASE RecordCompleted
    <2>1. verifier.pc \in VerifierBusy /\ "fail" \in VerifierBusy
      BY <1>6 DEF RecordCompleted, VerifierBusy
    <2>2. CASE /\ AppendVerification(verifier.run, ByVerifier("completed"))
               /\ verifier' = Idle(verifier)
      BY <1>0, <2>1, <2>2, VerifierEnds
    <2>3. CASE verifier' = [verifier EXCEPT !.pc = "fail"] /\ UNCHANGED verifications
      BY <1>0, <2>1, <2>3, VerifierMovesOn
    <2>4. QED
      BY <1>6, <2>2, <2>3 DEF RecordCompleted
  <1>7. CASE RecordVerificationFailure
    BY <1>0, <1>7, VerifierEnds DEF RecordVerificationFailure, VerifierBusy
  <1>8. QED
    BY <1>1, <1>2, <1>3, <1>4, <1>5, <1>6, <1>7 DEF VerifierNext

(* The invariant is inductive: no step of either worker, no crash and no restart with
   another configuration leaves it. *)
THEOREM PipelineInductive == Spec => []PipelineInv
  <1>1. PipelineInv /\ [Next]_vars => PipelineInv'
    <2> SUFFICES ASSUME PipelineInv, [Next]_vars PROVE PipelineInv'
      OBVIOUS
    <2>1. CASE UNCHANGED vars
      BY <2>1 DEF vars, PipelineInv, PipelineTypes
    <2>2. CASE Next
      BY <2>2, EnvironmentSteps, ReviewerKeeps, VerifierKeeps DEF Next
    <2>3. QED
      BY <2>1, <2>2
  <1>2. QED
    BY <1>1, PipelineStarts, PTL DEF Spec

(* However often the review worker crashes and is restarted, and whatever it is then
   configured with, a run's review calls the provider at most once and only after its
   dispatch is on record (ReviewWorker._execute, ReviewRuntimeService.reconcile). *)
THEOREM ReviewCalledOnce == Spec => []ReviewProviderOnce
  <1>1. PipelineInv => ReviewProviderOnce
    BY DEF PipelineInv, ReviewOK, RV!ReviewedOnce, ReviewProviderOnce
  <1>2. QED
    BY <1>1, PipelineInductive, PTL

(* From its claim to its last record the lease a worker holds in memory is the one on
   record, and the provider call always gets its whole configured latency. *)
THEOREM LeasesHeld == Spec => []WorkersHoldLeases
  <1>1. PipelineInv => WorkersHoldLeases
    <2> SUFFICES ASSUME PipelineInv PROVE WorkersHoldLeases
      OBVIOUS
    <2>1. ReviewerHoldsLease
      <3> SUFFICES ASSUME reviewer.pc \in ReviewerBusy PROVE ReviewerHoldsLease
        BY DEF ReviewerHoldsLease
      <3> DEFINE x == reviews[reviewer.run]
                 n == calls[reviewer.run]
      <3>1. HoldsReview(reviewer, x, n) /\ ReviewOK(x, n, executor[reviewer.run], reviewer.run)
            /\ n \in Nat
        BY BusyKnows
      <3>2. reviewer.pc \in {"prepare", "renew", "dispatch"} => n = 0
        BY <3>1 DEF HoldsReview, ReviewOK, RV!ReviewedOnce
      <3>3. reviewer.pc = "fail" /\ x.status = "claimed" => n = 0
        BY <3>1 DEF ReviewOK, RV!ReviewedOnce
      <3>4. x.status = IF n > 0 \/ reviewer.pc = "call" THEN "dispatched" ELSE "claimed"
        BY <3>1, <3>2, <3>3 DEF HoldsReview, ReviewerBusy
      <3>5. QED
        BY <3>1, <3>4 DEF HoldsReview, ReviewerHoldsLease
    <2>2. VerifierHoldsLease
      BY DEF PipelineInv, HoldsVerification, VerificationOK, VerifierHoldsLease
    <2>3. ProviderWindow
      BY WholeLatency DEF ProviderWindow
    <2>4. QED
      BY <2>1, <2>2, <2>3 DEF WorkersHoldLeases
  <1>2. QED
    BY <1>1, PipelineInductive, PTL

(* No lease is forgotten: one that is active is being worked on, or the next start of
   its worker gets to it. *)
THEOREM NothingOrphaned == Spec => []NoOrphans
  <1>1. PipelineInv => NoOrphans
    BY DEF PipelineInv, AttendedReview, AttendedVerification, NoOrphans, Active
  <1>2. QED
    BY <1>1, PipelineInductive, PTL

(* Nobody reviews what he executed, nor verifies what he executed or reviewed, and a
   verification stays about the run and the review it was claimed for. *)
THEOREM Independence == Spec => []Independent
  <1>1. PipelineInv => Independent
    BY DEF PipelineInv, ReviewOK, VerificationOK, Independent, SourceEventsMatch, SucceededByNodes
  <1>2. QED
    BY <1>1, PipelineInductive, PTL
=============================================================================
