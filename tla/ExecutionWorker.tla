-------------------------- MODULE ExecutionWorker --------------------------
(***************************************************************************)
(* The execution worker of declared plans: one worker process             *)
(* (ExecutionWorkerProcess.serve and ExecutionWorker.run_once), the        *)
(* RuntimeService operations it calls, the API clients that submit and     *)
(* cancel runs, lease expiry, and crashes with restart.                    *)
(*                                                                         *)
(* What survives a crash is the event ledger (runs, queue, order) and the  *)
(* checkouts on disk.  Every RuntimeService operation reads a run, decides *)
(* on what it read, and appends a batch that is refused when the run has   *)
(* moved on meanwhile; reading and appending are separate steps here, with *)
(* every other actor's steps in between.                                   *)
(***************************************************************************)
EXTENDS RunGrammar, SequencesExt

CONSTANTS
    Runs,         \* run ids
    Writers,      \* nodes with the repository-write effect
    Clients,      \* API clients that cancel runs
    Worker,       \* the worker id of the process
    MaxRetained,  \* max_retained_successful_worktrees
    Expiry,       \* whether a lease may outlive its expiry time
    Faults,       \* whether Git, the provider, the checks and artifact storage may fail
    Modes,        \* the values of serve's argument once the process may be started with
    MaxCrashes    \* bound: crashes explored

ASSUME WorkerAssumption == Worker \in Workers /\ Writers \subseteq Nodes
ASSUME ConfigAssumption == MaxRetained \in Nat /\ MaxCrashes \in Nat
                           /\ {Expiry, Faults} \cup Modes \subseteq BOOLEAN

VARIABLES
    runs,     \* [Runs -> RunState]: each run stream, folded
    queue,    \* the submitted runs, in the order of their run.queued events
    order,    \* <<run, node>> in the order of their node.succeeded events
    disk,     \* [Runs -> [Tokens -> Checkout]]: the checkout of each lease
    expired,  \* runs whose active lease is past its expires_at
    calls,    \* [Runs -> [Nodes -> Nat]]: provider calls really made
    w,        \* the worker process
    api,      \* [Clients -> pending cancellation]
    crashes

durable == <<runs, queue, order>>
vars == <<runs, queue, order, disk, expired, calls, w, api, crashes>>

(* A checkout: no path, the clean base commit, uncommitted changes, committed
   changes, or a path Git does not recognise. *)
Checkout == {"absent", "unchanged", "dirty", "committed", "broken"}

(* The status of the last cycle of serve; "none" before the first. *)
Cycle == {"none", "idle", "claim-conflict", "node-succeeded", "node-failed", "node-canceled"}

(* Where serve and run_once are.  "append" is _append_run_transitions, entered
   from every operation that records something. *)
Control == {"down", "reconcile", "maintain", "recover", "trim", "remove", "record", "idle",
            "append", "create", "createFailed", "prepare", "execute", "dispatch", "propose", "apply",
            "commit", "checks", "succeed", "apiError", "error", "ack", "fail", "conflict",
            "exited"}

NoBatch == <<>>

(* pc, and the run and node at hand; in "append" the batch, the stream position
   it was built on and where to go when it is stored or refused; the positions of
   queue or of order still to visit; which sweep of the maintenance is under way and
   whether its removal worked; the last quota report; the cycle's status and the
   node it claimed; serve's argument once. *)
Idle == [pc |-> "idle", run |-> None, node |-> None,
         seq |-> 0, batch |-> NoBatch, ok |-> "idle", err |-> "idle",
         todo |-> {}, sweep |-> "idle", removed |-> FALSE, quota |-> TRUE, cycle |-> "none",
         claimed |-> <<None, None>>, once |-> FALSE]

Down == [Idle EXCEPT !.pc = "down"]

NoRequest == [run |-> None, seq |-> 0, batch |-> NoBatch]

Init ==
    /\ runs = [r \in Runs |-> Queued]
    /\ queue = <<>>
    /\ order = <<>>
    /\ disk = [r \in Runs |-> [f \in Tokens |-> "absent"]]
    /\ expired = {}
    /\ calls = [r \in Runs |-> [n \in Nodes |-> 0]]
    /\ w = Down
    /\ api = [c \in Clients |-> NoRequest]
    /\ crashes = 0

----------------------------------------------------------------------------
(* The event ledger *)

(* _append_run_transitions: the batch is folded onto the run that was loaded and
   stored if nobody has appended since.  recorded_at is the time of the append,
   so a batch built before the lease expired may be recorded after. *)
Stamp(e, late) == IF e \in WorkerEvents THEN [e EXCEPT !.late = late] ELSE e
Stamped(batch, late) == [i \in DOMAIN batch |-> Stamp(batch[i], late)]

(* Seeded fault: the batch is checked against the run as it was read only. *)
AppendableOnStaleRead(r, seq, batch) == TRUE

Appendable(r, seq, batch) == runs[r].seq = seq /\ AcceptsBatch(runs[r], batch)

Store(r, batch) ==
    /\ runs' = [runs EXCEPT ![r] = FoldBatch(@, batch)]
    /\ order' = IF batch[1].type = "node.succeeded"
                THEN Append(order, <<r, batch[1].node>>) ELSE order
    /\ expired' = IF batch[1].type = "node.claimed" THEN expired \ {r} ELSE expired

(* The worker goes on to append batch to run r about node n, then to ok, or to err. *)
Stage(r, n, batch, ok, err) ==
    w' = [w EXCEPT !.pc = "append", !.run = r, !.node = n, !.seq = runs[r].seq,
                   !.batch = batch, !.ok = ok, !.err = err]

Goto(pc) == w' = [w EXCEPT !.pc = pc]

Worktree(r, n) == disk[r][runs[r].fence[n]]
SetWorktree(r, n, d) == disk' = [disk EXCEPT ![r][runs[r].fence[n]] = d]

(* GitWorktreeLifecycle.retain: what inspecting the checkout can return. *)
Retain(r, n) ==
    LET d == Worktree(r, n)
    IN  (CASE d = "absent" -> {"missing"} [] d = "broken" -> {"error"} [] OTHER -> {d})
            \cup (IF Faults THEN {"error"} ELSE {})

(* _require_successful_worktree_candidate *)
CandidateStill(r, n, status) ==
    /\ runs[r].active = None
    /\ runs[r].node[n] = "succeeded"
    /\ runs[r].retained[n]
    /\ runs[r].cleanup[n] = status

----------------------------------------------------------------------------
(* Batches RuntimeService builds *)

LeaseEvent(type, r, n, insp) ==
    [type |-> type, node |-> n, fence |-> runs[r].fence[n], insp |-> insp]
WorkerEvent(type, r, n, insp) ==
    [type |-> type, node |-> n, fence |-> runs[r].fence[n], by |-> Worker,
     late |-> FALSE, insp |-> insp]
CleanupEvent(type, r, n, retained) ==
    [type |-> type, node |-> n, fence |-> runs[r].fence[n], retained |-> retained]
RunEvent(type, retained) == [type |-> type, retained |-> retained]

NewestFence(r) == Max({r.fence[n] : n \in Nodes})

ClaimBatch(r, n) ==
    <<[type |-> "node.claimed", node |-> n, attempt |-> runs[r].attempts[n] + 1,
       fence |-> NewestFence(runs[r]) + 1, by |-> Worker, late |-> FALSE]>>

SuccessBatch(r, n, insp) ==
    IF \A m \in Nodes \ {n} : runs[r].node[m] = "succeeded"
    THEN <<WorkerEvent("node.succeeded", r, n, insp), RunEvent("run.succeeded", TRUE)>>
    ELSE <<WorkerEvent("node.succeeded", r, n, insp)>>

FailureBatch(r, n, insp) ==
    <<WorkerEvent("node.failed", r, n, insp), RunEvent("run.failed", insp # "none")>>

CanceledBatch(r, n, insp) ==
    <<LeaseEvent("node.canceled", r, n, insp), RunEvent("run.canceled", TRUE)>>

MissingCanceledBatch(r, n) ==
    <<LeaseEvent("node.canceled", r, n, "none"), RunEvent("run.canceled", FALSE)>>

RequeueBatch(r, n, insp) == <<LeaseEvent("node.requeued", r, n, insp)>>

ReconciliationBatch(r, n, insp) ==
    <<LeaseEvent("node.reconciliation", r, n, insp), RunEvent("run.reconciliation", insp # "none")>>

----------------------------------------------------------------------------
(* API clients *)

(* submit_run: a run that is already there is answered and left alone. *)
SubmitRun(r) ==
    /\ r \notin ToSet(queue)
    /\ queue' = Append(queue, r)
    /\ UNCHANGED <<runs, order, disk, expired, calls, w, api, crashes>>

(* cancel_run, until the append.  A canceled or canceling run is answered and a
   run with another outcome is refused; neither changes anything. *)
LoadForCancel(c, r) ==
    /\ api[c] = NoRequest
    /\ r \in ToSet(queue)
    /\ runs[r].status \in {"queued", "running"}
    /\ ~runs[r].cancel
    /\ LET terminal == RunEvent("run.canceled", AnyRetained(runs[r], NodeStatus))
           request == [type |-> "run.cancel-requested"]
       IN  api' = [api EXCEPT ![c] =
               [run |-> r, seq |-> runs[r].seq,
                batch |-> IF runs[r].active = None THEN <<request, terminal>> ELSE <<request>>]]
    /\ UNCHANGED <<runs, queue, order, disk, expired, calls, w, crashes>>

AppendCancel(c) ==
    /\ api[c] # NoRequest
    /\ LET q == api[c]
       IN  IF Appendable(q.run, q.seq, q.batch)
           THEN Store(q.run, q.batch)
           ELSE UNCHANGED <<runs, order, expired>>
    /\ api' = [api EXCEPT ![c] = NoRequest]
    /\ UNCHANGED <<queue, disk, calls, w, crashes>>

----------------------------------------------------------------------------
(* The environment *)

LeaseExpires(r) ==
    /\ Expiry
    /\ runs[r].active # None
    /\ r \notin expired
    /\ expired' = expired \cup {r}
    /\ UNCHANGED <<runs, queue, order, disk, calls, w, api, crashes>>

(* A crash loses the worker's state and may tear the Git operation under way, which
   a removal is once the candidate has been checked. *)
Torn(pc, d) ==
    CASE pc = "create" /\ d = "absent"   -> {"absent", "unchanged", "broken"}
      [] pc = "apply" /\ d = "unchanged" -> {"unchanged", "dirty"}
      [] pc = "commit" /\ d = "dirty"    -> {"dirty", "committed"}
      [] pc = "remove"                   -> {d, "absent", "broken"}
      [] OTHER                           -> {d}

Crash ==
    /\ w.pc \notin {"down", "exited"}
    /\ crashes < MaxCrashes
    /\ crashes' = crashes + 1
    /\ w' = Down
    /\ IF \/ w.pc \in {"create", "apply", "commit"}
          \/ w.pc = "remove" /\ CandidateStill(w.run, w.node, "requested")
       THEN \E d \in Torn(w.pc, Worktree(w.run, w.node)) : SetWorktree(w.run, w.node, d)
       ELSE UNCHANGED disk
    /\ UNCHANGED <<runs, queue, order, expired, calls, api>>

(* Seeded fault: the restarted process goes on without reconciling. *)
RestartWithoutReconciling ==
    /\ w.pc \in {"down", "exited"}
    /\ \E once \in Modes : w' = [Idle EXCEPT !.pc = "maintain", !.once = once]
    /\ UNCHANGED <<runs, queue, order, disk, expired, calls, api, crashes>>

(* serve: the process lock is taken and startup reconciliation begins.  A process
   that ended is started again, by its supervisor or by the operator. *)
Restart ==
    /\ w.pc \in {"down", "exited"}
    /\ \E once \in Modes :
          w' = [Idle EXCEPT !.pc = "reconcile", !.todo = DOMAIN queue, !.once = once]
    /\ UNCHANGED <<runs, queue, order, disk, expired, calls, api, crashes>>

----------------------------------------------------------------------------
(* Steps of the worker process *)

Quiet == UNCHANGED <<runs, queue, order, disk, expired, calls, api, crashes>>

(* The worker when it has appended and goes on at pc. *)
At(pc) ==
    IF pc = "down" THEN Down
    ELSE [w EXCEPT !.pc = pc, !.seq = 0, !.batch = NoBatch, !.ok = "idle", !.err = "idle"]

(* _append_run_transitions, from the worker. *)
AppendBatch ==
    /\ w.pc = "append"
    /\ LET batch == Stamped(w.batch, w.run \in expired)
       IN  IF Appendable(w.run, w.seq, batch)
           THEN Store(w.run, batch) /\ w' = At(w.ok)
           ELSE UNCHANGED <<runs, order, expired>> /\ w' = At(w.err)
    /\ UNCHANGED <<queue, disk, calls, api, crashes>>

(* serve: the cycle is over; once=True ends the process, otherwise it idles. *)
EndCycle(cycle) ==
    w' = IF w.once THEN [w EXCEPT !.pc = "exited", !.cycle = cycle]
                   ELSE [Idle EXCEPT !.quota = w.quota]

ClaimConflict ==
    /\ w.pc = "conflict"
    /\ EndCycle("claim-conflict")
    /\ Quiet

(* Seeded fault: the cancellation is not looked at. *)
ReconciliationIgnoresCancel(r, n, found) ==
    CASE found = "missing" /\ ~runs[r].dispatched   -> RequeueBatch(r, n, "none")
      [] found = "unchanged" /\ ~runs[r].dispatched -> RequeueBatch(r, n, found)
      [] found \in {"missing", "error"}             -> ReconciliationBatch(r, n, "none")
      [] OTHER                                      -> ReconciliationBatch(r, n, found)

(* reconcile_startup: one run; its surviving lease, if it has one, is ended by
   what its checkout and its history say. *)
ReconciliationOf(r, n, found) ==
    CASE found = "missing" /\ runs[r].cancel     -> MissingCanceledBatch(r, n)
      [] found = "missing" /\ ~runs[r].cancel /\ runs[r].dispatched
                                                 -> ReconciliationBatch(r, n, "none")
      [] found = "missing" /\ ~runs[r].cancel /\ ~runs[r].dispatched
                                                 -> RequeueBatch(r, n, "none")
      [] found = "error"                         -> ReconciliationBatch(r, n, "none")
      [] found \in Inspection /\ runs[r].cancel  -> CanceledBatch(r, n, found)
      [] found = "unchanged" /\ ~runs[r].cancel /\ ~runs[r].dispatched
                                                 -> RequeueBatch(r, n, found)
      [] OTHER                                   -> ReconciliationBatch(r, n, found)

ReconcileNext ==
    /\ w.pc = "reconcile"
    /\ w.todo # {}
    /\ LET i == Min(w.todo)
           r == queue[i]
           n == runs[r].active
       IN  IF n = None
           THEN w' = [w EXCEPT !.todo = @ \ {i}]
           ELSE \E found \in Retain(r, n) :
                   w' = [w EXCEPT !.pc = "append", !.run = r, !.node = n, !.seq = runs[r].seq,
                                  !.batch = ReconciliationOf(r, n, found),
                                  !.ok = "reconcile", !.err = "down", !.todo = @ \ {i}]
    /\ Quiet

Reconciled ==
    /\ w.pc = "reconcile"
    /\ w.todo = {}
    /\ Goto("maintain")
    /\ Quiet

----------------------------------------------------------------------------
(* maintain_successful_worktrees *)

(* _successful_worktree_candidates: positions in order, oldest success first *)
Candidates ==
    {i \in DOMAIN order : /\ runs[order[i][1]].node[order[i][2]] = "succeeded"
                          /\ runs[order[i][1]].retained[order[i][2]]}
CandidatesIn(status) == {i \in Candidates : runs[order[i][1]].cleanup[order[i][2]] = status}
Excess == Cardinality(Candidates) - MaxRetained
Oldest(S, k) == {i \in S : Cardinality({j \in S : j < i}) < k}

(* First the cleanups that were requested and never finished ... *)
StartMaintenance ==
    /\ w.pc = "maintain"
    /\ w' = [w EXCEPT !.pc = "recover", !.sweep = "recover", !.todo = CandidatesIn("requested")]
    /\ Quiet

RecoverNext ==
    /\ w.pc = "recover"
    /\ w.todo # {}
    /\ LET i == Min(w.todo)
       IN  w' = [w EXCEPT !.pc = "remove", !.run = order[i][1], !.node = order[i][2],
                          !.todo = @ \ {i}]
    /\ Quiet

(* ... then the oldest eligible checkouts beyond the quota. *)
StartTrim ==
    /\ w.pc = "recover"
    /\ w.todo = {}
    /\ w' = [w EXCEPT !.pc = "trim", !.sweep = "trim",
                      !.todo = Oldest(CandidatesIn("eligible"), Excess)]
    /\ Quiet

TrimNext ==
    /\ w.pc = "trim"
    /\ w.todo # {}
    /\ LET i == Min(w.todo)
           r == order[i][1]
           n == order[i][2]
       IN  w' = IF CandidateStill(r, n, "eligible")
                THEN [w EXCEPT !.pc = "append", !.run = r, !.node = n, !.seq = runs[r].seq,
                               !.batch = <<CleanupEvent("cleanup.requested", r, n, TRUE)>>,
                               !.ok = "remove", !.err = "down", !.todo = @ \ {i}]
                ELSE Down
    /\ Quiet

(* remove_success: succeeds on a clean checkout or one already gone. *)
RemoveCheckout ==
    /\ w.pc = "remove"
    /\ LET d == Worktree(w.run, w.node)
       IN  IF ~CandidateStill(w.run, w.node, "requested")
           THEN w' = Down /\ UNCHANGED disk
           ELSE \/ /\ d \in {"absent", "unchanged", "committed"}
                   /\ SetWorktree(w.run, w.node, "absent")
                   /\ w' = [w EXCEPT !.pc = "record", !.removed = TRUE]
                \/ /\ Faults \/ d \in {"dirty", "broken"}
                   /\ \E left \in {d, "absent", "broken"} : SetWorktree(w.run, w.node, left)
                   /\ w' = [w EXCEPT !.pc = "record", !.removed = FALSE]
    /\ UNCHANGED <<runs, queue, order, expired, calls, api, crashes>>

RecordRemoval ==
    /\ w.pc = "record"
    /\ IF CandidateStill(w.run, w.node, "requested")
       THEN Stage(w.run, w.node,
                  IF w.removed
                  THEN <<CleanupEvent("cleanup.done", w.run, w.node, FALSE)>>
                  ELSE <<CleanupEvent("cleanup.failed", w.run, w.node,
                                      Worktree(w.run, w.node) # "absent")>>,
                  w.sweep, "down")
       ELSE w' = Down
    /\ Quiet

EndMaintenance ==
    /\ w.pc = "trim"
    /\ w.todo = {}
    /\ LET quota == Cardinality(Candidates) <= MaxRetained
       IN  w' = IF w.once /\ w.cycle # "none"
                THEN [w EXCEPT !.pc = "exited", !.quota = quota]
                ELSE [Idle EXCEPT !.quota = quota, !.once = w.once]
    /\ Quiet

----------------------------------------------------------------------------
(* One cycle: run_once, prepare_node, _execute *)

Ready(r, n) ==
    /\ runs[r].status \in {"queued", "running"}
    /\ ~runs[r].cancel
    /\ runs[r].active = None
    /\ runs[r].node[n] = "pending"
    /\ \A d \in DependsOn[n] : runs[r].node[d] = "succeeded"

HasReady(r) == \E n \in Nodes : Ready(r, n)

(* next_ready_node: the first run in queue order with a ready node; which of its
   ready nodes is the topological order's choice. *)
FirstReady(r) ==
    \E i \in DOMAIN queue :
        queue[i] = r /\ HasReady(r) /\ \A j \in 1 .. i - 1 : ~HasReady(queue[j])

(* The worker goes on to append its claim. *)
Claiming(r, n) ==
    w' = [w EXCEPT !.pc = "append", !.run = r, !.node = n, !.seq = runs[r].seq,
                   !.batch = ClaimBatch(r, n), !.ok = "create", !.err = "conflict",
                   !.claimed = <<r, n>>]

(* Seeded fault: the quota report is not consulted. *)
ClaimOverQuota(r, n) ==
    /\ w.pc = "idle"
    /\ FirstReady(r) /\ Ready(r, n)
    /\ NewestFence(runs[r]) < MaxFence
    /\ Claiming(r, n)
    /\ Quiet

ClaimNode(r, n) ==
    /\ w.pc = "idle"
    /\ w.quota
    /\ FirstReady(r) /\ Ready(r, n)
    /\ NewestFence(runs[r]) < MaxFence
    /\ Claiming(r, n)
    /\ Quiet

(* serve(once=True) with nothing to do, or no quota to do it. *)
NothingReady ==
    /\ w.once
    /\ w.pc = "idle"
    /\ ~w.quota \/ \A i \in DOMAIN queue : ~HasReady(queue[i])
    /\ EndCycle("idle")
    /\ Quiet

(* _require_active_spec and _require_active_worker, should_cancel_node *)
Holds == runs[w.run].active = w.node /\ runs[w.run].worker = Worker
ShouldCancel == runs[w.run].cancel \/ ~Holds

(* A recording operation: refused without the lease, else the batch is staged. *)
Record(batch, cycle, ok, err) ==
    w' = IF Holds
         THEN [w EXCEPT !.pc = "append", !.seq = runs[w.run].seq, !.batch = batch,
                        !.ok = ok, !.err = err, !.cycle = cycle]
         ELSE At(err)

CreateWorktree ==
    /\ w.pc = "create"
    /\ SetWorktree(w.run, w.node, "unchanged")
    /\ Goto("prepare")
    /\ UNCHANGED <<runs, queue, order, expired, calls, api, crashes>>

(* Creation fails and may leave a checkout, or something that is none. *)
CreateFails ==
    /\ Faults
    /\ w.pc = "create"
    /\ \E left \in {"absent", "unchanged", "broken"} : SetWorktree(w.run, w.node, left)
    /\ Goto("createFailed")
    /\ UNCHANGED <<runs, queue, order, expired, calls, api, crashes>>

(* _record_node_failure.  Before the checkout is prepared it may be missing. *)
RecordCreateFailure ==
    /\ w.pc = "createFailed"
    /\ \E found \in IF Worktree(w.run, w.node) = "absent" THEN {"missing"}
                    ELSE Retain(w.run, w.node) :
          Record(CASE found = "missing" -> FailureBatch(w.run, w.node, "none")
                   [] found = "error"   -> ReconciliationBatch(w.run, w.node, "none")
                   [] OTHER             -> FailureBatch(w.run, w.node, found),
                 "claim-conflict", "conflict", "conflict")
    /\ Quiet

(* Seeded fault: prepare_node returns although it recorded the cancellation. *)
PrepareGoesOnCanceled ==
    /\ w.pc = "prepare"
    /\ IF runs[w.run].cancel
       THEN Record(CanceledBatch(w.run, w.node, "unchanged"), "claim-conflict",
                   "execute", "conflict")
       ELSE Stage(w.run, w.node,
                  <<WorkerEvent("worktree.prepared", w.run, w.node, "unchanged")>>,
                  "execute", "conflict")
    /\ Quiet

(* prepare_node after the checkout exists: the run is loaded again. *)
PrepareNode ==
    /\ w.pc = "prepare"
    /\ IF runs[w.run].cancel
       THEN Record(CanceledBatch(w.run, w.node, "unchanged"), "claim-conflict",
                   "conflict", "conflict")
       ELSE Stage(w.run, w.node,
                  <<WorkerEvent("worktree.prepared", w.run, w.node, "unchanged")>>,
                  "execute", "conflict")
    /\ Quiet

(* _execute: evidence for a writing node, nothing for the others. *)
Execute ==
    /\ w.pc = "execute"
    /\ \/ ~ShouldCancel /\ Goto(IF w.node \in Writers THEN "dispatch" ELSE "commit")
       \/ ShouldCancel /\ Goto("error")
       \/ Faults /\ w.node \in Writers /\ Goto("error")
    /\ Quiet

(* Seeded fault: the provider is called before its dispatch is recorded. *)
DispatchUnrecorded ==
    /\ w.pc = "dispatch"
    /\ Goto(IF ShouldCancel THEN "error" ELSE "propose")
    /\ Quiet

RecordDispatch ==
    /\ w.pc = "dispatch"
    /\ IF ShouldCancel
       THEN Goto("error")
       ELSE Stage(w.run, w.node,
                  <<WorkerEvent("dispatch.started", w.run, w.node, "none")>>,
                  "propose", "apiError")
    /\ Quiet

CallProvider ==
    /\ w.pc = "propose"
    /\ calls' = [calls EXCEPT ![w.run][w.node] = @ + 1]
    /\ \/ Goto("apply")
       \/ Faults /\ Goto("error")
    /\ UNCHANGED <<runs, queue, order, disk, expired, api, crashes>>

(* TextChangeExecutor.execute: the effects, or a rollback that may not work. *)
ApplyChanges ==
    /\ w.pc = "apply"
    /\ \/ /\ ~ShouldCancel
          /\ SetWorktree(w.run, w.node, "dirty")
          /\ Goto("commit")
       \/ /\ ~ShouldCancel
          /\ Faults
          /\ \E left \in {"unchanged", "dirty"} : SetWorktree(w.run, w.node, left)
          /\ Goto("error")
       \/ ShouldCancel /\ Goto("error") /\ UNCHANGED disk
    /\ UNCHANGED <<runs, queue, order, expired, calls, api, crashes>>

(* A writer asks once more whether to go on.  Only a writer has changes. *)
CommitChanges ==
    /\ w.pc = "commit"
    /\ LET d == Worktree(w.run, w.node)
           done == IF d = "dirty" THEN "committed" ELSE d
       IN  IF w.node \in Writers /\ ShouldCancel
           THEN Goto("error") /\ UNCHANGED disk
           ELSE \/ SetWorktree(w.run, w.node, done) /\ Goto("checks")
                \/ /\ Faults
                   /\ \E left \in {d, done} : SetWorktree(w.run, w.node, left)
                   /\ Goto("error")
    /\ UNCHANGED <<runs, queue, order, expired, calls, api, crashes>>

(* The acceptance checks see the checkout read-only and poll for cancellation. *)
RunChecks ==
    /\ w.pc = "checks"
    /\ \/ Goto("succeed")
       \/ (Faults \/ ShouldCancel) /\ Goto("error")
    /\ Quiet

(* Seeded fault: a refused success is reported as recorded. *)
SuccessIgnoresRefusal ==
    /\ w.pc = "succeed"
    /\ IF ShouldCancel
       THEN Goto("error")
       ELSE \E found \in Retain(w.run, w.node) :
               IF found \in {"unchanged", "committed"}
               THEN Record(SuccessBatch(w.run, w.node, found), "node-succeeded",
                           "maintain", "maintain")
               ELSE Goto("apiError")
    /\ Quiet

(* record_node_success *)
RecordSuccess ==
    /\ w.pc = "succeed"
    /\ IF ShouldCancel
       THEN Goto("error")
       ELSE \E found \in Retain(w.run, w.node) :
               IF found \in {"unchanged", "committed"}
               THEN Record(SuccessBatch(w.run, w.node, found), "node-succeeded",
                           "maintain", "apiError")
               ELSE Goto("apiError")
    /\ Quiet

(* The two except clauses of _execute *)
Refused ==
    /\ w.pc = "apiError"
    /\ Goto(IF ShouldCancel THEN "ack" ELSE "conflict")
    /\ Quiet

Failed ==
    /\ w.pc = "error"
    /\ Goto(IF ShouldCancel THEN "ack" ELSE "fail")
    /\ Quiet

(* acknowledge_cancellation *)
AcknowledgeCancellation ==
    /\ w.pc = "ack"
    /\ IF ~runs[w.run].cancel
       THEN Goto("conflict")
       ELSE \E found \in Retain(w.run, w.node) :
               IF found \in {"missing", "error"}
               THEN Record(ReconciliationBatch(w.run, w.node, "none"), "claim-conflict",
                           "conflict", "conflict")
               ELSE Record(CanceledBatch(w.run, w.node, found), "node-canceled",
                           "maintain", "conflict")
    /\ Quiet

(* Seeded fault: the failure is recorded without looking at the checkout. *)
FailureWithoutInspection ==
    /\ w.pc = "fail"
    /\ Record(FailureBatch(w.run, w.node, "none"), "node-failed", "maintain", "down")
    /\ Quiet

(* record_node_failure: a refusal is not caught and ends the process. *)
RecordFailure ==
    /\ w.pc = "fail"
    /\ \E found \in Retain(w.run, w.node) :
          Record(IF found \in {"missing", "error"}
                 THEN ReconciliationBatch(w.run, w.node, "none")
                 ELSE FailureBatch(w.run, w.node, found),
                 "node-failed", "maintain", "down")
    /\ Quiet

----------------------------------------------------------------------------
WorkerStep ==
    \/ AppendBatch \/ ClaimConflict
    \/ ReconcileNext \/ Reconciled
    \/ StartMaintenance \/ RecoverNext \/ StartTrim \/ TrimNext
    \/ RemoveCheckout \/ RecordRemoval \/ EndMaintenance
    \/ \E r \in Runs, n \in Nodes : ClaimNode(r, n)
    \/ NothingReady
    \/ CreateWorktree \/ CreateFails \/ RecordCreateFailure \/ PrepareNode
    \/ Execute \/ RecordDispatch \/ CallProvider \/ ApplyChanges \/ CommitChanges
    \/ RunChecks \/ RecordSuccess
    \/ Refused \/ Failed \/ AcknowledgeCancellation \/ RecordFailure

Next ==
    \/ WorkerStep
    \/ Crash \/ Restart
    \/ \E r \in Runs : SubmitRun(r) \/ LeaseExpires(r)
    \/ \E c \in Clients : AppendCancel(c) \/ \E r \in Runs : LoadForCancel(c, r)

Spec == Init /\ [][Next]_vars

(* The worker process is scheduled while it runs, the supervisor restarts it
   when it fails, and runs are submitted and requests answered. *)
Fairness ==
    /\ WF_vars(WorkerStep)
    /\ WF_vars(Restart)
    /\ \A r \in Runs : WF_vars(SubmitRun(r))
    /\ \A c \in Clients : WF_vars(AppendCancel(c))

FairSpec == Spec /\ Fairness

----------------------------------------------------------------------------
(* Properties *)

(* The provider is called at most once for a node, whatever crashes, restarts,
   expiries and cancellations come between, and never without a dispatch on
   record: record_provider_dispatch is appended before propose, and startup
   reconciliation does not hand out a lease that reached it. *)
ProviderOnce ==
    \A r \in Runs, n \in Nodes : calls[r][n] <= runs[r].calls[n] /\ runs[r].calls[n] <= 1

(* Between the claim and the outcome the worker works on a node whose lease it
   holds; no other actor takes the lease from under it, and it does not work on
   once it has given it up. *)
Working == {"create", "createFailed", "prepare", "execute", "dispatch", "propose", "apply",
            "commit", "checks", "succeed", "apiError", "error", "ack", "fail"}
WorkerHoldsLease == w.pc \in Working => Holds

(* A checkout with changes in it belongs to the active lease, or its node is
   recorded with a retained checkout, or an operator has been asked to reconcile. *)
NoLostWork ==
    \A r \in Runs, f \in Tokens : disk[r][f] \in {"dirty", "committed"} =>
        \E n \in Nodes :
            /\ runs[r].fence[n] = f
            /\ runs[r].active = n \/ runs[r].retained[n] \/ runs[r].node[n] = "reconciliation"

(* What the ledger records as retained is on disk, except while its removal is
   under way: after the request and before the result is recorded. *)
RetainedIsThere ==
    \A r \in Runs, n \in Nodes :
        runs[r].retained[n] /\ runs[r].cleanup[n] # "requested" => Worktree(r, n) # "absent"

(* A node with the repository-write effect that is recorded as succeeded called
   its provider, and until its cleanup its checkout holds the committed work. *)
WriterCommitted ==
    \A r \in Runs, n \in Writers : runs[r].node[n] = "succeeded" =>
        /\ calls[r][n] = 1
        /\ runs[r].cleanup[n] = "eligible" => Worktree(r, n) = "committed"

(* The ledger and the disk agree, whatever failed or crashed between an effect and
   its record: no work is lost sight of, no retained checkout is missing, and a
   recorded success is committed. *)
LedgerMatchesDisk == NoLostWork /\ RetainedIsThere /\ WriterCommitted

(* Successful checkouts never exceed the retention limit by more than the one
   the current cycle produced, even when removals fail: the worker stops
   claiming while the quota is not satisfied. *)
RetentionBounded == Cardinality(Candidates) <= MaxRetained + 1

(* Each run's stream is a history RunLifecycle allows, whoever appended to it:
   the stale appends of the worker and of the clients are all refused.  (This is
   \A r : RL(r)!Spec without the bound on its length, in the form TLC checks.) *)
RL(x) == INSTANCE RunLifecycle WITH run <- runs[x]
ImplementsRunLifecycle ==
    /\ \A r \in Runs : RL(r)!Init
    /\ [][\A r \in Runs : runs'[r] = runs[r] \/ RL(r)!Step]_vars

(* reconcile_startup: "Invalidate every surviving active execution lease after
   exclusive daemon restart."  It holds while nobody cancels.  A cancellation of a
   run whose checkout cannot be inspected defeats it: the reconciliation batch
   leaves a canceled run neither over nor leased, the fold refuses it, and the
   process fails at every start.  So does the cancellation of a run whose checkout is
   gone while an earlier node retains its own: _record_missing_canceled_node declares
   that the run retains none. *)
Surviving(r) == w.pc = "down" /\ runs[r].active # None
LeaseInvalidated == \A r \in Runs : Surviving(r) ~> (runs[r].active = None)

(* And it does hold for every other lease: unless its run is canceled and its
   checkout cannot be inspected, a lease that survives a crash is ended, even when
   it expires or the cancellation arrives while the restarted worker is
   reconciling. *)
SurvivorsEnd ==
    \A r \in Runs :
        Surviving(r) ~> \/ runs[r].active = None
                        \/ runs[r].cancel /\ Worktree(r, runs[r].active) \notin Inspection

(* Every submitted run is decided, although the worker may crash at any step of
   it, unless it is canceled or its lease expires while it is worked on: a restarted
   worker requeues, reconciles or finishes what it finds. *)
Decided(r) == runs[r].terminal \/ runs[r].recon
RunsFinish ==
    \A r \in Runs :
        (r \in ToSet(queue)) ~> (Decided(r) \/ runs[r].cancel \/ r \in expired)

(* serve(once=True) reports the outcome it recorded: the cycle status it ends with
   is the status of the node it claimed. *)
Outcomes(cycle) ==
    CASE cycle = "node-succeeded" -> {"succeeded"}
      [] cycle = "node-failed"    -> {"failed", "reconciliation"}
      [] cycle = "node-canceled"  -> {"canceled"}
      [] OTHER                    -> NodeStatus
CycleTruthful ==
    w.pc = "exited" /\ w.cycle # "idle" =>
        runs[w.claimed[1]].node[w.claimed[2]] \in Outcomes(w.cycle)
=============================================================================
