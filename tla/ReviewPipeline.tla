--------------------------- MODULE ReviewPipeline ---------------------------
(***************************************************************************)
(* From a succeeded run to its verification: the review worker             *)
(* (bootstrap/review_worker.py, review_process.py) and the verification    *)
(* worker (verification_worker.py, verification_process.py) over the       *)
(* durable streams of ReviewLifecycle and VerificationLifecycle.           *)
(*                                                                         *)
(* worker_process_lock admits one process per role and only that process   *)
(* appends to the streams of its role, so an operation of                  *)
(* ReviewRuntimeService or VerificationRuntimeService is one step.  A      *)
(* process may crash between any two steps, also between a provider call   *)
(* and the record of its result, and may be restarted with another         *)
(* configuration.  The order in which reconcile walks the streams is left  *)
(* open.                                                                   *)
(***************************************************************************)
EXTENDS Integers, Sequences, SequencesExt, FiniteSetsExt, Absent

CONSTANTS
    Queue,       \* the runs, in the order they were queued
    Generated,   \* the runs of generated plans
    Principals,  \* worker and supervisor ids
    Configs,     \* the configurations the processes may be started with
    Lease,       \* lease_seconds of the review worker
    MaxLatency,  \* the latency budget of a provider call
    Faults,      \* whether evidence, artifacts, the provider or admission may fail
    MaxTime,     \* bound: the latest time explored
    MaxCrashes   \* bound: the crashes explored

Runs == Range(Queue)
MaxToken == MaxCrashes + 1

(* _require_separate_authority, with the worker # supervisor checks of the review
   and verification configurations. *)
SeparateAuthority(c) ==
    /\ c.reviewer # c.reviewSupervisor
    /\ c.verifier # c.verifySupervisor
    /\ c.executor \notin {c.reviewer, c.reviewSupervisor, c.verifier, c.verifySupervisor}
    /\ {c.reviewer, c.reviewSupervisor} \cap {c.verifier, c.verifySupervisor} = {}

ASSUME PipelineNone == None \notin Principals /\ None \notin Runs /\ Generated \subseteq Runs
ASSUME ConfigsSeparate ==
    \A c \in Configs :
        /\ c \in [executor : Principals, reviewer : Principals, reviewSupervisor : Principals,
                  verifier : Principals, verifySupervisor : Principals]
        /\ SeparateAuthority(c)
(* ReviewWorkerPolicy: the lease is longer than the call. *)
ASSUME LeaseAssumption == Lease \in Nat /\ MaxLatency \in 1 .. (Lease - 1)
ASSUME PipelineBounds == MaxTime \in Nat /\ MaxCrashes \in Nat /\ Faults \in BOOLEAN

VARIABLES
    executor,       \* by run: the author of run.succeeded, None before
    reviews,        \* by run: the folded review stream
    reviewed,       \* the runs with a succeeded review, in the order of those events
    verifications,  \* by run: the folded verification stream
    reviewer,       \* the review worker process
    verifier,       \* the verification worker process
    calls,          \* by run: provider calls made (history)
    now,            \* the clock
    crashes         \* crashes so far

vars == <<executor, reviews, reviewed, verifications, reviewer, verifier, calls, now, crashes>>

RV == INSTANCE ReviewLifecycle
          WITH Snapshots <- Runs, MaxTime <- MaxTime + Lease, review <- reviews
VF == INSTANCE VerificationLifecycle
          WITH Snapshots <- 1 .. MaxToken, verification <- verifications

----------------------------------------------------------------------------
(* State *)

(* config is what the process was started with; run, token, expires and at are
   locals of run_once and _execute; todo is what reconcile has still to visit. *)
Process(pcs) ==
    [pc : pcs, config : Configs \cup {None}, run : Runs \cup {None}, token : Nat,
     expires : Nat, at : Nat, todo : SUBSET Runs]

ReviewerBusy == {"prepare", "renew", "dispatch", "call", "record", "fail"}
VerifierBusy == {"prepare", "record", "fail"}

Down == [pc |-> "down", config |-> None, run |-> None, token |-> 0, expires |-> 0, at |-> 0,
         todo |-> {}]

Idle(p) == [Down EXCEPT !.pc = "idle", !.config = p.config]

Init ==
    /\ executor = [r \in Runs |-> None]
    /\ reviews = [r \in Runs |-> RV!Unreviewed]
    /\ reviewed = <<>>
    /\ verifications = [r \in Runs |-> VF!Unverified]
    /\ reviewer = Down
    /\ verifier = Down
    /\ calls = [r \in Runs |-> 0]
    /\ now = 0
    /\ crashes = 0

----------------------------------------------------------------------------
(* The environment *)

(* An execution worker of some configuration appends the event that ends the run well:
   run.succeeded, or execution.run.terminated for a generated plan.  review_run_ids
   offers the run for review in both cases. *)
RunSucceeds(r, c) ==
    /\ executor[r] = None
    /\ executor' = [executor EXCEPT ![r] = c.executor]
    /\ UNCHANGED <<reviews, reviewed, verifications, reviewer, verifier, calls, now, crashes>>

Tick ==
    /\ now < MaxTime
    /\ now' = now + 1
    /\ UNCHANGED <<executor, reviews, reviewed, verifications, reviewer, verifier, calls, crashes>>

CrashReviewer ==
    /\ reviewer.pc # "down"
    /\ crashes < MaxCrashes
    /\ crashes' = crashes + 1
    /\ reviewer' = Down
    /\ UNCHANGED <<executor, reviews, reviewed, verifications, verifier, calls, now>>

CrashVerifier ==
    /\ verifier.pc # "down"
    /\ crashes < MaxCrashes
    /\ crashes' = crashes + 1
    /\ verifier' = Down
    /\ UNCHANGED <<executor, reviews, reviewed, verifications, reviewer, calls, now>>

----------------------------------------------------------------------------
(* ReviewRuntimeService *)

ReviewEvent(type, r, by, at, token, expires, until) ==
    [type |-> type, by |-> by, at |-> at, token |-> token, expires |-> expires,
     until |-> until, snapshot |-> r]

(* An event of the review worker about the lease it holds. *)
ByReviewWorker(type, at, until) ==
    ReviewEvent(type, reviewer.run, reviewer.config.reviewer, at, reviewer.token,
                reviewer.expires, until)

(* _append: the event is folded before it is stored. *)
AppendReview(e) ==
    /\ RV!ReviewAccepts(reviews[e.snapshot], e)
    /\ reviews' = [reviews EXCEPT ![e.snapshot] = RV!ReviewApply(@, e)]

(* What reconcile does with one stream; a supervisor with the id of the lease's
   worker makes it raise, which ends the process. *)
ReconciliationEvent(r, by) ==
    ReviewEvent(IF reviews[r].status = "claimed" THEN "requeued" ELSE "reconciliation",
                r, by, now, reviews[r].token, reviews[r].expires, 0)

Active(r) == reviews[r].status \in {"claimed", "dispatched"}

(* Seeded fault: reconcile only requeues. *)
RequeueReviewOnly(r) ==
    /\ reviewer.pc = "reconcile"
    /\ r \in reviewer.todo
    /\ reviewer' = [reviewer EXCEPT !.todo = @ \ {r}]
    /\ IF reviews[r].status = "claimed"
         THEN AppendReview(ReconciliationEvent(r, reviewer.config.reviewSupervisor))
         ELSE UNCHANGED reviews

ReconcileReview(r) ==
    /\ reviewer.pc = "reconcile"
    /\ r \in reviewer.todo
    /\ \/ /\ ~ Active(r)
          /\ reviewer' = [reviewer EXCEPT !.todo = @ \ {r}]
          /\ UNCHANGED reviews
       \/ /\ Active(r)
          /\ reviewer.config.reviewSupervisor # reviews[r].worker
          /\ AppendReview(ReconciliationEvent(r, reviewer.config.reviewSupervisor))
          /\ reviewer' = [reviewer EXCEPT !.todo = @ \ {r}]
       \/ /\ Active(r)
          /\ reviewer.config.reviewSupervisor = reviews[r].worker
          /\ reviewer' = Down
          /\ UNCHANGED reviews

----------------------------------------------------------------------------
(* ReviewWorkerProcess.serve and ReviewWorker.run_once *)

(* Seeded fault: serve does not reconcile. *)
ServeAtOnce(c) ==
    /\ reviewer.pc = "down"
    /\ reviewer' = [Down EXCEPT !.pc = "idle", !.config = c]
    /\ UNCHANGED reviews

StartReviewer(c) ==
    /\ reviewer.pc = "down"
    /\ reviewer' = [Down EXCEPT !.pc = "reconcile", !.config = c,
                                !.todo = {r \in Runs : reviews[r].status # "none"}]
    /\ UNCHANGED reviews

Reconciled ==
    /\ reviewer.pc = "reconcile"
    /\ reviewer.todo = {}
    /\ reviewer' = Idle(reviewer)
    /\ UNCHANGED reviews

Reviewable(r) == executor[r] # None /\ reviews[r].status \in {"none", "requeued"}

(* _next_candidate: the first run in queue order. *)
IsNextReview(r) ==
    /\ Reviewable(r)
    /\ \A i, j \in DOMAIN Queue : Queue[j] = r /\ i < j => ~ Reviewable(Queue[i])

(* Building the candidate fails on bad evidence, outside any try: the process ends. *)
CandidateFails ==
    /\ Faults
    /\ reviewer.pc = "idle"
    /\ \E r \in Runs : IsNextReview(r)
    /\ reviewer' = Down
    /\ UNCHANGED reviews

(* _require_execution_event: the candidate's event must be run.succeeded. *)
SucceededByNodes(r) == r \notin Generated

(* A conflict, with the executor's id or for the type of the run's last event, leaves
   everything as it is: the next cycle tries the same run again. *)
Claim(r) ==
    /\ reviewer.pc = "idle"
    /\ IsNextReview(r)
    /\ SucceededByNodes(r)
    /\ reviewer.config.reviewer # executor[r]
    /\ AppendReview(ReviewEvent("claimed", r, reviewer.config.reviewer, now,
                                reviews[r].token + 1, 0, now + Lease))
    /\ reviewer' = [reviewer EXCEPT !.pc = "prepare", !.run = r,
                                    !.token = reviews[r].token + 1, !.expires = now + Lease]

----------------------------------------------------------------------------
(* ReviewWorker._execute *)

ReviewerTo(pc) == reviewer' = [reviewer EXCEPT !.pc = pc]

(* prepare_review_context, the context artifact, or the call, its artifacts and
   admission fail: the handler records the failure. *)
ReviewFault ==
    /\ Faults
    /\ reviewer.pc \in {"prepare", "record"}
    /\ ReviewerTo("fail")
    /\ UNCHANGED reviews

(* dispatched_at is read once the context is stored. *)
Prepare ==
    /\ reviewer.pc = "prepare"
    /\ reviewer' = [reviewer EXCEPT !.at = now,
                                    !.pc = IF now + Lease > reviewer.expires THEN "renew"
                                                                             ELSE "dispatch"]
    /\ UNCHANGED reviews

(* Seeded fault: the worker goes on with the lease it had. *)
RenewButKeepOldLease ==
    /\ reviewer.pc = "renew"
    /\ AppendReview(ByReviewWorker("renewed", reviewer.at, reviewer.at + Lease))
    /\ ReviewerTo("dispatch")

RenewLease ==
    /\ reviewer.pc = "renew"
    /\ AppendReview(ByReviewWorker("renewed", reviewer.at, reviewer.at + Lease))
    /\ reviewer' = [reviewer EXCEPT !.pc = "dispatch", !.expires = reviewer.at + Lease]

(* _provider_budget: what the call may take so that the reserve for recording its
   result is left of the lease. *)
ProviderLatency ==
    Min({MaxLatency, (reviewer.expires - reviewer.at) - (Lease - MaxLatency)})

(* Seeded fault: the provider is called before the dispatch is on record. *)
DispatchLater ==
    /\ reviewer.pc = "dispatch"
    /\ ReviewerTo("call")
    /\ UNCHANGED reviews

RecordProviderDispatch ==
    /\ reviewer.pc = "dispatch"
    /\ IF ProviderLatency >= 1
         THEN AppendReview(ByReviewWorker("dispatched", reviewer.at, 0)) /\ ReviewerTo("call")
         ELSE ReviewerTo("fail") /\ UNCHANGED reviews

CallReviewer ==
    /\ reviewer.pc = "call"
    /\ calls' = [calls EXCEPT ![reviewer.run] = @ + 1]
    /\ ReviewerTo("record")
    /\ UNCHANGED reviews

(* record_success refuses an expired lease, and the handler records a failure. *)
RecordSuccess ==
    /\ reviewer.pc = "record"
    /\ \/ /\ now <= reviewer.expires
          /\ AppendReview(ByReviewWorker("succeeded", now, 0))
          /\ reviewed' = Append(reviewed, reviewer.run)
          /\ reviewer' = Idle(reviewer)
       \/ /\ now > reviewer.expires
          /\ ReviewerTo("fail")
          /\ UNCHANGED <<reviews, reviewed>>

RecordFailure ==
    /\ reviewer.pc = "fail"
    /\ AppendReview(ByReviewWorker("failed", now, 0))
    /\ reviewer' = Idle(reviewer)

ReviewerSteps ==
    \/ /\ \/ \E c \in Configs : StartReviewer(c)
          \/ \E r \in Runs : ReconcileReview(r) \/ Claim(r)
          \/ Reconciled \/ CandidateFails \/ ReviewFault \/ Prepare \/ RenewLease
          \/ RecordProviderDispatch \/ RecordFailure
       /\ UNCHANGED <<reviewed, calls>>
    \/ CallReviewer /\ UNCHANGED reviewed
    \/ RecordSuccess /\ UNCHANGED calls

ReviewerNext ==
    /\ ReviewerSteps
    /\ UNCHANGED <<executor, verifications, verifier, now, crashes>>

----------------------------------------------------------------------------
(* VerificationRuntimeService *)

VerificationEvent(type, r, by, token, snapshot) ==
    [type |-> type, by |-> by, token |-> token, snapshot |-> snapshot]

AppendVerification(r, e) ==
    /\ VF!VerificationAccepts(verifications[r], e)
    /\ verifications' = [verifications EXCEPT ![r] = VF!VerificationApply(@, e)]

ByVerifier(type) ==
    VerificationEvent(type, verifier.run, verifier.config.verifier, verifier.token,
                      reviews[verifier.run].token)

ReconcileVerification(r) ==
    /\ verifier.pc = "reconcile"
    /\ r \in verifier.todo
    /\ \/ /\ verifications[r].status # "claimed"
          /\ verifier' = [verifier EXCEPT !.todo = @ \ {r}]
          /\ UNCHANGED verifications
       \/ /\ verifications[r].status = "claimed"
          /\ verifier.config.verifySupervisor # verifications[r].worker
          /\ AppendVerification(r, VerificationEvent("requeued", r,
                 verifier.config.verifySupervisor, verifications[r].token, 1))
          /\ verifier' = [verifier EXCEPT !.todo = @ \ {r}]
       \/ /\ verifications[r].status = "claimed"
          /\ verifier.config.verifySupervisor = verifications[r].worker
          /\ verifier' = Down
          /\ UNCHANGED verifications

----------------------------------------------------------------------------
(* VerificationWorkerProcess.serve and VerificationWorker *)

StartVerifier(c) ==
    /\ verifier.pc = "down"
    /\ verifier' = [Down EXCEPT !.pc = "reconcile", !.config = c,
                                !.todo = {r \in Runs : verifications[r].status # "none"}]
    /\ UNCHANGED verifications

VerifierReconciled ==
    /\ verifier.pc = "reconcile"
    /\ verifier.todo = {}
    /\ verifier' = Idle(verifier)
    /\ UNCHANGED verifications

Verifiable(r) == verifications[r].status \in {"none", "requeued"}

(* The first in the order of the review.succeeded events. *)
IsNextVerification(r) ==
    \E j \in DOMAIN reviewed :
        /\ reviewed[j] = r
        /\ Verifiable(r)
        /\ \A i \in 1 .. (j - 1) : ~ Verifiable(reviewed[i])

(* Seeded fault: only the last reviewer counts. *)
InvolvedNow(r) == {executor[r], reviews[r].worker}

(* _require_source_events: the run's executor and everybody who wrote to its review. *)
Involved(r) == {executor[r]} \cup reviews[r].actors

(* A conflict with somebody involved leaves everything as it is. *)
ClaimForVerification(r) ==
    /\ verifier.pc = "idle"
    /\ IsNextVerification(r)
    /\ verifier.config.verifier \notin Involved(r)
    /\ AppendVerification(r, VerificationEvent("claimed", r, verifier.config.verifier,
                                 verifications[r].token + 1, reviews[r].token))
    /\ verifier' = [verifier EXCEPT !.pc = "prepare", !.run = r,
                                    !.token = verifications[r].token + 1]

(* prepare_verification *)
PrepareVerification ==
    /\ verifier.pc = "prepare"
    /\ \/ verifier' = [verifier EXCEPT !.pc = "record"]
       \/ Faults /\ verifier' = [verifier EXCEPT !.pc = "fail"]
    /\ UNCHANGED verifications

(* The verifier or the report artifact may fail before record_completed. *)
RecordCompleted ==
    /\ verifier.pc = "record"
    /\ \/ /\ AppendVerification(verifier.run, ByVerifier("completed"))
          /\ verifier' = Idle(verifier)
       \/ /\ Faults
          /\ verifier' = [verifier EXCEPT !.pc = "fail"]
          /\ UNCHANGED verifications

RecordVerificationFailure ==
    /\ verifier.pc = "fail"
    /\ AppendVerification(verifier.run, ByVerifier("failed"))
    /\ verifier' = Idle(verifier)

VerifierNext ==
    /\ \/ \E c \in Configs : StartVerifier(c)
       \/ \E r \in Runs : ReconcileVerification(r) \/ ClaimForVerification(r)
       \/ VerifierReconciled \/ PrepareVerification \/ RecordCompleted
       \/ RecordVerificationFailure
    /\ UNCHANGED <<executor, reviews, reviewed, reviewer, calls, now, crashes>>

(* replay_verification compares the lease of a verification with the events that it
   was claimed for, as they are found now. *)
SourceEventsMatch(r) ==
    /\ executor[r] # None /\ SucceededByNodes(r)
    /\ reviews[r].status = "succeeded"
    /\ reviews[r].token = verifications[r].snapshot

----------------------------------------------------------------------------
Next ==
    \/ \E r \in Runs, c \in Configs : RunSucceeds(r, c)
    \/ Tick
    \/ CrashReviewer \/ CrashVerifier
    \/ ReviewerNext
    \/ VerifierNext

Spec == Init /\ [][Next]_vars

(* The daemon restarts a worker that ended and a worker goes on while it runs. *)
FairSpec == Spec /\ WF_vars(ReviewerNext) /\ WF_vars(VerifierNext)

----------------------------------------------------------------------------
(* Properties *)

(* Whatever crashes and restarts happen, a run's review makes at most one provider
   call, and only after its dispatch is on record: "A restart never repeats a
   provider call whose dispatch was recorded without a durable result". *)
ReviewProviderOnce ==
    \A r \in Runs : calls[r] <= reviews[r].dispatches /\ reviews[r].dispatches <= 1

(* The lease the review worker holds in memory. *)
ReviewerHoldsLease ==
    reviewer.pc \in ReviewerBusy =>
        LET r == reviews[reviewer.run] IN
        /\ r.status = IF calls[reviewer.run] > 0 \/ reviewer.pc = "call" THEN "dispatched"
                                                                          ELSE "claimed"
        /\ r.worker = reviewer.config.reviewer
        /\ r.token = reviewer.token
        /\ r.expires = reviewer.expires

(* The lease the verification worker holds in memory, and the succeeded review that
   it was claimed for. *)
VerifierHoldsLease ==
    verifier.pc \in VerifierBusy =>
        LET v == verifications[verifier.run] IN
        /\ v.status = "claimed"
        /\ v.worker = verifier.config.verifier
        /\ v.token = verifier.token
        /\ v.snapshot = reviews[verifier.run].token
        /\ reviews[verifier.run].status = "succeeded"

(* A provider call may take its whole configured latency and still leave the reserve
   for recording its result, however long preparation took: the budget is never cut
   short and the review never fails for want of a window. *)
ProviderWindow ==
    /\ reviewer.pc \in {"dispatch", "call"} => ProviderLatency = MaxLatency
    /\ reviewer.pc = "call" => reviewer.at + MaxLatency <= reviewer.expires

(* From the claim to the last record the lease a worker holds in memory is the lease
   on record, renewals included, and it is long enough for the call: no append of
   _execute is refused for its lease, so that a cycle never leaves a job behind that
   nobody owns. *)
WorkersHoldLeases == ReviewerHoldsLease /\ VerifierHoldsLease /\ ProviderWindow

(* A lease is either the one being worked on or waits for the next start: nothing
   is left claimed or dispatched while its worker is idle or busy with another run. *)
NoOrphans ==
    \A r \in Runs :
        /\ Active(r) => \/ reviewer.pc = "down"
                        \/ reviewer.pc = "reconcile" /\ r \in reviewer.todo
                        \/ reviewer.pc \in ReviewerBusy /\ reviewer.run = r
        /\ verifications[r].status = "claimed" =>
               \/ verifier.pc = "down"
               \/ verifier.pc = "reconcile" /\ r \in verifier.todo
               \/ verifier.pc \in VerifierBusy /\ verifier.run = r

(* Whoever executed a run does not review it, and whoever executed it or wrote to
   its review does not verify it, also when the configuration gives the roles to
   other ids between two starts.  Whenever a verification is replayed, the run and the
   review on record are the ones it was claimed for. *)
Independent ==
    \A r \in Runs :
        /\ reviews[r].status # "none" => reviews[r].worker # executor[r]
        /\ verifications[r].status # "none" =>
               /\ SourceEventsMatch(r)
               /\ verifications[r].worker \notin {executor[r]} \cup reviews[r].actors

(* Every succeeded run is reviewed or its review is decided otherwise, and every
   succeeded review is verified or its verification fails on record.  It takes that no
   run offered for review is one that claim refuses. *)
RunsReviewed ==
    \A r \in Runs :
        /\ executor[r] # None ~> reviews[r].status \in RV!Over
        /\ reviews[r].status = "succeeded" ~> verifications[r].status \in VF!VerificationOver
=============================================================================
