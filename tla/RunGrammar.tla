---------------------------- MODULE RunGrammar ----------------------------
(***************************************************************************)
(* The execution grammar of one run: which events fold_run_lifecycle       *)
(* (orchestration/run_lifecycle.py) accepts and what state it folds them   *)
(* into.  RuntimeService appends a batch of events to a run's stream only  *)
(* when the fold accepts the whole stream with the batch at its end.       *)
(*                                                                         *)
(* The folded state is one record.  A lease is known by its fencing token  *)
(* (the code compares lease digests, and a lease's digest covers its       *)
(* token).  An event's payload is reduced to what the fold decides on.     *)
(***************************************************************************)
EXTENDS Integers, Sequences, Absent

CONSTANTS
    Nodes,      \* the node ids of the run's plan
    DependsOn,  \* [Nodes -> SUBSET Nodes], the plan's dependencies
    Workers,    \* worker ids that may hold a lease
    MaxFence,   \* bound: the highest attempt and fencing token explored
    MaxSeq      \* bound: the longest stream explored

ASSUME PlanAssumption ==
    /\ Nodes # {}
    /\ DependsOn \in [Nodes -> SUBSET Nodes]
(* PlanRequest rejects a plan without a topological order: in every set of nodes
   some node depends on none of the others. *)
ASSUME AcyclicAssumption ==
    \A S \in SUBSET Nodes : S # {} => \E n \in S : DependsOn[n] \cap S = {}
ASSUME NoneAssumption == None \notin Nodes /\ None \notin Workers
ASSUME BoundsAssumption == MaxFence \in Nat /\ MaxSeq \in Nat

----------------------------------------------------------------------------
(* State *)

RunStatus == {"queued", "running", "canceling", "canceled", "succeeded",
              "failed", "reconciliation"}

NodeStatus == {"pending", "claimed", "running", "succeeded", "failed",
               "canceled", "reconciliation"}

CleanupStatus == {"none", "eligible", "requested", "failed", "cleaned"}

(* What an inspection of the lease's checkout found: nothing to inspect, the
   base commit untouched, committed work and nothing else, or anything the
   policy forbids (uncommitted, out of scope, too many paths). *)
Inspection == {"none", "unchanged", "committed", "dirty"}

(* active is the node that holds the lease; the lease's attempt and token are
   that node's attempts and fence, which only a claim changes.  calls counts
   the provider dispatches recorded for a node (a history variable). *)
RunState ==
    [status     : RunStatus,
     node       : [Nodes -> NodeStatus],
     attempts   : [Nodes -> Nat],
     fence      : [Nodes -> Nat],
     retained   : [Nodes -> BOOLEAN],
     cleanup    : [Nodes -> CleanupStatus],
     calls      : [Nodes -> Nat],
     cancel     : BOOLEAN,
     active     : Nodes \cup {None},
     worker     : Workers \cup {None},
     prepared   : BOOLEAN,
     dispatched : BOOLEAN,
     terminal   : BOOLEAN,
     recon      : BOOLEAN,
     maxFence   : Nat,
     seq        : Nat]

(* The state after run.queued, the first event of every stream. *)
Queued ==
    [status     |-> "queued",
     node       |-> [n \in Nodes |-> "pending"],
     attempts   |-> [n \in Nodes |-> 0],
     fence      |-> [n \in Nodes |-> 0],
     retained   |-> [n \in Nodes |-> FALSE],
     cleanup    |-> [n \in Nodes |-> "none"],
     calls      |-> [n \in Nodes |-> 0],
     cancel     |-> FALSE,
     active     |-> None,
     worker     |-> None,
     prepared   |-> FALSE,
     dispatched |-> FALSE,
     terminal   |-> FALSE,
     recon      |-> FALSE,
     maxFence   |-> 0,
     seq        |-> 1]

----------------------------------------------------------------------------
(* Events *)

Tokens == 1 .. MaxFence

(* late: the event is recorded after the lease expires. *)
ClaimEvents ==
    [type : {"node.claimed"}, node : Nodes, attempt : Tokens, fence : Tokens,
     by : Workers, late : BOOLEAN]
WorkerEvents ==
    [type : {"worktree.prepared", "dispatch.started", "node.succeeded", "node.failed"},
     node : Nodes, fence : Tokens, by : Workers, late : BOOLEAN, insp : Inspection]
LeaseEvents ==
    [type : {"node.requeued", "node.canceled", "node.reconciliation"},
     node : Nodes, fence : Tokens, insp : Inspection]
CleanupEvents ==
    [type : {"cleanup.requested", "cleanup.done", "cleanup.failed"},
     node : Nodes, fence : Tokens, retained : BOOLEAN]
RunEvents ==
    [type : {"run.succeeded", "run.failed", "run.canceled", "run.reconciliation"},
     retained : BOOLEAN]
CancelEvents == [type : {"run.cancel-requested"}]

Events == ClaimEvents \cup WorkerEvents \cup LeaseEvents \cup CleanupEvents
              \cup RunEvents \cup CancelEvents

----------------------------------------------------------------------------
(* The fold's checks, one per event type *)

(* The event is about the lease that is active now. *)
OnLease(r, e) == r.active # None /\ e.node = r.active /\ e.fence = r.fence[r.active]

(* ... and comes from the worker that holds it, before the lease expires. *)
ByHolder(r, e) == OnLease(r, e) /\ e.by = r.worker /\ ~e.late

(* Seeded faults: a token counted per node, and a claim before the node's turn. *)
ClaimCountsTokensPerNode(r, e) ==
    /\ ~r.cancel
    /\ r.active = None
    /\ r.status \in {"queued", "running"}
    /\ r.node[e.node] = "pending"
    /\ \A d \in DependsOn[e.node] : r.node[d] = "succeeded"
    /\ e.attempt = r.attempts[e.node] + 1
    /\ e.fence = r.fence[e.node] + 1
    /\ ~e.late

ClaimOutOfTurn(r, e) ==
    /\ ~r.cancel
    /\ r.active = None
    /\ r.status \in {"queued", "running"}
    /\ r.node[e.node] = "pending"
    /\ e.attempt = r.attempts[e.node] + 1
    /\ e.fence = r.maxFence + 1
    /\ ~e.late

ClaimAccepted(r, e) ==
    /\ ~r.cancel
    /\ r.active = None
    /\ r.status \in {"queued", "running"}
    /\ r.node[e.node] = "pending"
    /\ \A d \in DependsOn[e.node] : r.node[d] = "succeeded"
    /\ e.attempt = r.attempts[e.node] + 1
    /\ e.fence = r.maxFence + 1
    /\ ~e.late

PreparedAccepted(r, e) == ByHolder(r, e) /\ ~r.prepared /\ e.insp = "unchanged"

DispatchAccepted(r, e) == ByHolder(r, e) /\ r.prepared /\ ~r.cancel /\ ~r.dispatched

(* Seeded fault: a success is accepted after a cancellation. *)
SuccessAfterCancel(r, e) == ByHolder(r, e) /\ r.prepared /\ e.insp \in {"unchanged", "committed"}

NodeSucceededAccepted(r, e) ==
    ByHolder(r, e) /\ r.prepared /\ ~r.cancel /\ e.insp \in {"unchanged", "committed"}

NodeFailedAccepted(r, e) == ByHolder(r, e)

(* Seeded fault: a lease that reached the provider is handed out again. *)
RequeueAfterDispatch(r, e) == OnLease(r, e) /\ ~r.cancel /\ e.insp \in {"none", "unchanged"}

RequeueAccepted(r, e) ==
    OnLease(r, e) /\ ~r.dispatched /\ ~r.cancel /\ e.insp \in {"none", "unchanged"}

NodeCanceledAccepted(r, e) == OnLease(r, e) /\ r.cancel

ReconciliationAccepted(r, e) == OnLease(r, e)

(* A cleanup event names a succeeded node whose checkout is still retained. *)
CleanupAccepted(r, e, expected) ==
    /\ r.active = None
    /\ r.node[e.node] = "succeeded"
    /\ r.retained[e.node]
    /\ r.cleanup[e.node] = expected
    /\ e.fence = r.fence[e.node]

CancelAccepted(r) == ~r.cancel

(* A run event declares whether a checkout survives among the nodes it is
   about, and the declaration must be true. *)
AnyRetained(r, statuses) == \E n \in Nodes : r.node[n] \in statuses /\ r.retained[n]

(* Seeded fault: one succeeded node is enough. *)
RunSucceededOnAnyNode(r, e) ==
    /\ r.active = None
    /\ ~r.cancel
    /\ \E n \in Nodes : r.node[n] = "succeeded"
    /\ e.retained = AnyRetained(r, NodeStatus)

RunSucceededAccepted(r, e) ==
    /\ r.active = None
    /\ ~r.cancel
    /\ \A n \in Nodes : r.node[n] = "succeeded"
    /\ e.retained = AnyRetained(r, NodeStatus)

RunFailedAccepted(r, e) ==
    /\ r.active = None
    /\ \E n \in Nodes : r.node[n] = "failed"
    /\ e.retained = AnyRetained(r, {"failed"})

RunCanceledAccepted(r, e) ==
    /\ r.active = None
    /\ r.cancel
    /\ e.retained = AnyRetained(r, NodeStatus)

RunReconciliationAccepted(r, e) ==
    /\ r.active = None
    /\ \E n \in Nodes : r.node[n] = "reconciliation"
    /\ e.retained = AnyRetained(r, {"reconciliation"})

EventAccepted(r, e) ==
    \/ e.type = "node.claimed" /\ ClaimAccepted(r, e)
    \/ e.type = "worktree.prepared" /\ PreparedAccepted(r, e)
    \/ e.type = "dispatch.started" /\ DispatchAccepted(r, e)
    \/ e.type = "node.succeeded" /\ NodeSucceededAccepted(r, e)
    \/ e.type = "node.failed" /\ NodeFailedAccepted(r, e)
    \/ e.type = "node.requeued" /\ RequeueAccepted(r, e)
    \/ e.type = "node.canceled" /\ NodeCanceledAccepted(r, e)
    \/ e.type = "node.reconciliation" /\ ReconciliationAccepted(r, e)
    \/ e.type = "cleanup.requested" /\ CleanupAccepted(r, e, "eligible") /\ e.retained
    \/ e.type = "cleanup.done" /\ CleanupAccepted(r, e, "requested") /\ ~e.retained
    \/ e.type = "cleanup.failed" /\ CleanupAccepted(r, e, "requested")
    \/ e.type = "run.cancel-requested" /\ CancelAccepted(r)
    \/ e.type = "run.succeeded" /\ RunSucceededAccepted(r, e)
    \/ e.type = "run.failed" /\ RunFailedAccepted(r, e)
    \/ e.type = "run.canceled" /\ RunCanceledAccepted(r, e)
    \/ e.type = "run.reconciliation" /\ RunReconciliationAccepted(r, e)

(* Seeded fault: a run that is over still takes any event. *)
AcceptsAfterTheEnd(r, e) == EventAccepted(r, e)

(* A run that is over takes cleanup events and nothing else. *)
Accepts(r, e) ==
    /\ r.terminal => e.type \in {"cleanup.requested", "cleanup.done", "cleanup.failed"}
    /\ EventAccepted(r, e)

----------------------------------------------------------------------------
(* The state each accepted event folds into *)

Claim(r, e) ==
    [r EXCEPT !.status = "running", !.node[e.node] = "claimed",
              !.attempts[e.node] = e.attempt, !.fence[e.node] = e.fence,
              !.cleanup[e.node] = "none", !.maxFence = e.fence,
              !.active = e.node, !.worker = e.by,
              !.prepared = FALSE, !.dispatched = FALSE]

Prepare(r, e) == [r EXCEPT !.node[e.node] = "running", !.prepared = TRUE]

Dispatch(r, e) == [r EXCEPT !.dispatched = TRUE, !.calls[e.node] = @ + 1]

(* Seeded fault: the lease outlives its node. *)
OutcomeKeepsLease(r, n, outcome, status) == [r EXCEPT !.node[n] = outcome, !.status = status]

(* Every node outcome ends the lease. *)
EndLease(r, n, outcome, status) ==
    [r EXCEPT !.node[n] = outcome, !.status = status, !.active = None,
              !.worker = None, !.prepared = FALSE, !.dispatched = FALSE]

NodeSucceed(r, e) ==
    [EndLease(r, e.node, "succeeded", "queued")
        EXCEPT !.retained[e.node] = TRUE, !.cleanup[e.node] = "eligible"]

(* A failure, cancellation or reconciliation keeps the checkout it inspected. *)
NodeFail(r, e) ==
    [EndLease(r, e.node, "failed", "failed")
        EXCEPT !.retained[e.node] = @ \/ e.insp # "none"]

Requeue(r, e) == EndLease(r, e.node, "pending", "queued")

NodeCancel(r, e) ==
    [EndLease(r, e.node, "canceled", "canceling") EXCEPT !.retained[e.node] = e.insp # "none"]

NodeReconcile(r, e) ==
    [EndLease(r, e.node, "reconciliation", "reconciliation")
        EXCEPT !.retained[e.node] = e.insp # "none"]

RequestCleanup(r, e) == [r EXCEPT !.cleanup[e.node] = "requested"]

(* Seeded fault: a cleaned checkout is still counted. *)
CleanKeepsCount(r, e) == [r EXCEPT !.cleanup[e.node] = "cleaned"]

Clean(r, e) == [r EXCEPT !.cleanup[e.node] = "cleaned", !.retained[e.node] = FALSE]
FailCleanup(r, e) == [r EXCEPT !.cleanup[e.node] = "failed", !.retained[e.node] = e.retained]

RequestCancel(r) == [r EXCEPT !.cancel = TRUE, !.status = "canceling"]

EndRun(r, status) == [r EXCEPT !.status = status, !.terminal = TRUE]

(* Seeded fault: a status outside the enumeration. *)
RunReconcileUnknownStatus(r) == [r EXCEPT !.status = "reconciling", !.recon = TRUE]

RunReconcile(r) == [r EXCEPT !.status = "reconciliation", !.recon = TRUE]

Fold(r, e) ==
    CASE e.type = "node.claimed"         -> Claim(r, e)
      [] e.type = "worktree.prepared"    -> Prepare(r, e)
      [] e.type = "dispatch.started"     -> Dispatch(r, e)
      [] e.type = "node.succeeded"       -> NodeSucceed(r, e)
      [] e.type = "node.failed"          -> NodeFail(r, e)
      [] e.type = "node.requeued"        -> Requeue(r, e)
      [] e.type = "node.canceled"        -> NodeCancel(r, e)
      [] e.type = "node.reconciliation"  -> NodeReconcile(r, e)
      [] e.type = "cleanup.requested"    -> RequestCleanup(r, e)
      [] e.type = "cleanup.done"         -> Clean(r, e)
      [] e.type = "cleanup.failed"       -> FailCleanup(r, e)
      [] e.type = "run.cancel-requested" -> RequestCancel(r)
      [] e.type = "run.succeeded"        -> EndRun(r, "succeeded")
      [] e.type = "run.failed"           -> EndRun(r, "failed")
      [] e.type = "run.canceled"         -> EndRun(r, "canceled")
      [] e.type = "run.reconciliation"   -> RunReconcile(r)

Apply(r, e) == [Fold(r, e) EXCEPT !.seq = @ + 1]

(* Seeded fault: a cancellation with nobody to acknowledge it. *)
CompleteWithCancel(r) ==
    (r.active = None /\ ~r.terminal) =>
        /\ \E n \in Nodes : r.node[n] # "succeeded"
        /\ \A n \in Nodes : r.node[n] # "failed"
        /\ (\E n \in Nodes : r.node[n] = "reconciliation") => r.recon

(* What must hold of a complete stream: a run that no lease keeps busy and that
   is not over must still have something to do. *)
Complete(r) ==
    (r.active = None /\ ~r.terminal) =>
        /\ ~r.cancel
        /\ \E n \in Nodes : r.node[n] # "succeeded"
        /\ \A n \in Nodes : r.node[n] # "failed"
        /\ (\E n \in Nodes : r.node[n] = "reconciliation") => r.recon

(* A batch is one event or two: the outcome of a node and of its run. *)
FoldBatch(r, b) == IF Len(b) = 2 THEN Apply(Apply(r, b[1]), b[2]) ELSE Apply(r, b[1])

AcceptsBatch(r, b) ==
    /\ Accepts(r, b[1])
    /\ Len(b) = 2 => Accepts(Apply(r, b[1]), b[2])
    /\ Complete(FoldBatch(r, b))

(* s is r after one accepted batch. *)
Grows(r, s) ==
    \E e \in Events :
        /\ Accepts(r, e)
        /\ LET q == Apply(r, e)
           IN  \/ Complete(q) /\ s = q
               \/ \E f \in Events :
                     Accepts(q, f) /\ Complete(Apply(q, f)) /\ s = Apply(q, f)

----------------------------------------------------------------------------
(* What the fold keeps true of a run (the properties of RunLifecycle) *)

Done == {"succeeded", "failed", "canceled", "reconciliation"}

OneLease(r) ==
    /\ \A n \in Nodes : r.node[n] \in {"claimed", "running"} <=> n = r.active
    /\ r.active # None =>
          /\ r.fence[r.active] = r.maxFence
          /\ r.worker # None
          /\ r.prepared <=> r.node[r.active] = "running"
          /\ r.status = IF r.cancel THEN "canceling" ELSE "running"
          /\ ~r.terminal

UniqueFences(r) ==
    /\ \A n \in Nodes : r.fence[n] <= r.maxFence /\ r.attempts[n] <= r.fence[n]
    /\ \A m, n \in Nodes : m # n /\ r.fence[m] > 0 => r.fence[m] # r.fence[n]

InDependencyOrder(r) ==
    \A n \in Nodes : r.node[n] # "pending" => \A d \in DependsOn[n] : r.node[d] = "succeeded"

DispatchedOnce(r) ==
    \A n \in Nodes :
        /\ r.calls[n] <= 1
        /\ r.node[n] \in {"pending", "claimed"} => r.calls[n] = 0
        /\ n = r.active /\ r.calls[n] > 0 => r.dispatched

TruthfulOutcome(r) ==
    /\ r.status = "succeeded" => ~r.cancel /\ \A n \in Nodes : r.node[n] = "succeeded"
    /\ r.status = "failed" => \E n \in Nodes : r.node[n] = "failed"
    /\ r.status = "canceled" => r.cancel
    /\ r.terminal <=> r.status \in {"succeeded", "failed", "canceled"}

RetentionAt(r, n) ==
    /\ r.retained[n] => r.node[n] \in Done
    /\ r.cleanup[n] # "none" <=> r.node[n] = "succeeded"
    /\ r.cleanup[n] \in {"eligible", "requested"} => r.retained[n]
    /\ r.cleanup[n] = "cleaned" => ~r.retained[n]
SoundRetention(r) == \A n \in Nodes : RetentionAt(r, n)

(* And of a run r that has become s. *)
OverForGood(r, s) ==
    r.terminal =>
        /\ s.terminal /\ s.status = r.status /\ s.cancel = r.cancel
        /\ s.node = r.node /\ s.active = r.active
        /\ s.maxFence = r.maxFence /\ s.calls = r.calls
        /\ \A n \in Nodes : s.retained[n] => r.retained[n]

StopsOnCancel(r, s) ==
    r.cancel =>
        /\ s.cancel
        /\ s.maxFence = r.maxFence
        /\ s.calls = r.calls
        /\ \A n \in Nodes : s.node[n] = "succeeded" => r.node[n] = "succeeded"
=============================================================================
