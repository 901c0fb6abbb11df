--------------------------- MODULE RunLifecycle ---------------------------
(***************************************************************************)
(* The histories the stream of one run can hold: it starts with run.queued *)
(* and grows by batches of one or two events that the grammar accepts.     *)
(* This is what RuntimeService promises of a run whoever writes to it and  *)
(* in whatever order; ExecutionWorker is shown to implement it for each of *)
(* its runs.                                                               *)
(***************************************************************************)
EXTENDS RunGrammar

VARIABLE run

Init == run = Queued

(* The stream grows by one batch; the length explored is bounded. *)
Step == Grows(run, run')

Next == Step /\ run'.seq <= MaxSeq

Spec == Init /\ [][Next]_run

----------------------------------------------------------------------------
(* Properties *)

(* The folded state has the shape the fold's dataclasses declare. *)
TypeOK == run \in RunState

(* One lease per run: the node that holds it is the only one claimed or running,
   it carries the newest fencing token, and the lease is prepared exactly while
   its node is running.  Every way a lease can end clears it. *)
LeaseInv == OneLease(run)

(* No two nodes of a run ever hold the same fencing token, so a lease of one
   node can never be mistaken for a lease of another. *)
FenceInv == UniqueFences(run)

(* Work on a node starts only when all it depends on has succeeded, and what it
   depends on stays succeeded. *)
DependencyInv == InDependencyOrder(run)

(* The provider is dispatched at most once for a node, over all its attempts:
   a lease that reached the provider is never handed out again. *)
DispatchOnce == DispatchedOnce(run)

(* The run's status tells the truth about its nodes and its cancellation. *)
OutcomeInv == TruthfulOutcome(run)

(* A checkout is recorded as retained only for a node whose lease is over; a
   succeeded node's checkout is on the way to cleanup, and once cleaned it is no
   longer counted as retained. *)
RetentionInv == SoundRetention(run)

(* All of it: what the ledger says of a run is consistent in every state. *)
RunConsistent ==
    /\ TypeOK /\ LeaseInv /\ FenceInv /\ DependencyInv
    /\ DispatchOnce /\ OutcomeInv /\ RetentionInv

(* A run that is not over is never at a dead end: a lease is active, or a node
   can be claimed, or an operator has been asked to reconcile.  In particular a
   cancellation is never recorded without someone left to acknowledge it. *)
NoDeadEnd ==
    \/ run.terminal
    \/ run.active # None
    \/ run.status = "queued" /\ \E n \in Nodes :
           run.node[n] = "pending" /\ \A d \in DependsOn[n] : run.node[d] = "succeeded"
    \/ run.status = "reconciliation" /\ run.recon

(* Once a run is over only the cleanup of its checkouts changes: its outcome,
   its nodes and its leases are what they were. *)
TerminalFinal == [][OverForGood(run, run')]_run

(* After a cancellation is requested nothing new is started or completed: no
   claim, no provider dispatch, no success. *)
CancelStops == [][StopsOnCancel(run, run')]_run

(* A token is never reissued: a lease that starts is newer than every lease
   before it, and a node that is done stays as it is. *)
MovesForward(r, s) ==
    /\ s.active # r.active /\ s.active # None =>
          \A n \in Nodes : r.fence[n] < s.fence[s.active]
    /\ \A n \in Nodes : r.node[n] \in Done => s.node[n] = r.node[n]
LeasesMoveForward == [][MovesForward(run, run')]_run
=============================================================================
