------------------------- MODULE RunGrammarProofs -------------------------
(***************************************************************************)
(* What the fold keeps true of a run, for every plan and every set of      *)
(* workers: lemmas about RunGrammar, one per event, that RunLifecycleProofs *)
(* and ExecutionWorkerProofs cite.                                         *)
(*                                                                         *)
(* A batch may hold two events and the state between them is not Complete, *)
(* so Sound is stated of every state an accepted event leads to, and       *)
(* Complete of the end of a batch.                                         *)
(***************************************************************************)
EXTENDS RunGrammar, TLAPS

----------------------------------------------------------------------------
(* Soundness *)

(* What the run's status says while its batch may still be unfinished: a failed
   node is recorded one event before the run's own failure. *)
EventOutcome(r) ==
    /\ r.status = "succeeded" =>
          r.terminal /\ ~r.cancel /\ \A n \in Nodes : r.node[n] = "succeeded"
    /\ r.status = "failed" => \E n \in Nodes : r.node[n] = "failed"
    /\ r.status = "canceled" => r.terminal /\ r.cancel
    /\ r.status = "reconciliation" => \E n \in Nodes : r.node[n] = "reconciliation"
    /\ r.terminal => r.status \in {"succeeded", "failed", "canceled"}

(* While work can still be started or is under way no node has gone wrong. *)
Coherent(r) ==
    /\ r.status = "queued" => ~r.cancel
    /\ r.status = "running" => r.active # None
    /\ r.status = "canceling" => r.cancel
    /\ r.active # None \/ r.status = "queued" =>
          \A n \in Nodes : n # r.active => r.node[n] \in {"pending", "succeeded"}

Sound(r) ==
    /\ r \in RunState
    /\ OneLease(r)
    /\ UniqueFences(r)
    /\ InDependencyOrder(r)
    /\ DispatchedOnce(r)
    /\ EventOutcome(r)
    /\ SoundRetention(r)
    /\ Coherent(r)

----------------------------------------------------------------------------
(* One lemma per event *)

(* What is said of retained checkouts is said of each node by itself. *)
LEMMA RetentionElsewhere ==
    ASSUME NEW r, NEW s, NEW x \in Nodes, SoundRetention(r), RetentionAt(s, x),
           \A n \in Nodes : n # x => /\ s.node[n] = r.node[n]
                                    /\ s.retained[n] = r.retained[n]
                                    /\ s.cleanup[n] = r.cleanup[n]
    PROVE  SoundRetention(s)
<1> SUFFICES ASSUME NEW n \in Nodes, n # x PROVE RetentionAt(s, n)
  BY DEF SoundRetention
<1> QED
  BY DEF SoundRetention, RetentionAt

(* A claim keeps a run sound: the new lease has a new token and its node was
   pending, so nothing was dispatched for it. *)
LEMMA ClaimSound ==
    ASSUME NEW r, Sound(r), ~r.terminal, NEW e, e.node \in Nodes,
           e.attempt \in Nat, e.fence \in Nat, e.by \in Workers, ClaimAccepted(r, e)
    PROVE  Sound(Claim(r, e))
<1> DEFINE s == Claim(r, e)
<1> USE NoneAssumption, PlanAssumption
<1>1. s \in RunState
  BY DEF Sound, RunState, RunStatus, NodeStatus, CleanupStatus, Claim, ClaimAccepted
<1> USE DEF Sound, RunState, NodeStatus, Claim, ClaimAccepted
<1>2. OneLease(s)
  BY DEF OneLease, Coherent
<1>3. UniqueFences(s)
  BY DEF UniqueFences
<1>4. InDependencyOrder(s)
  BY DEF InDependencyOrder, OneLease
<1>5. DispatchedOnce(s)
  <2>1. s.calls = r.calls /\ s.node = [r.node EXCEPT ![e.node] = "claimed"]
    OBVIOUS
  <2>2. \A n \in Nodes : r.calls[n] \in Nat /\ r.calls[n] <= 1
    BY DEF DispatchedOnce
  <2>3. r.calls[e.node] = 0 /\ s.active = e.node
    BY DEF DispatchedOnce
  <2> SUFFICES ASSUME NEW n \in Nodes
               PROVE  /\ s.calls[n] <= 1
                      /\ s.node[n] \in {"pending", "claimed"} => s.calls[n] = 0
                      /\ ~(n = s.active /\ s.calls[n] > 0)
    BY DEF DispatchedOnce
  <2> HIDE DEF s
  <2>4. s.node[n] \in {"pending", "claimed"} => s.calls[n] = 0
    BY <2>1, <2>3 DEF DispatchedOnce
  <2> QED
    BY <2>1, <2>2, <2>3, <2>4
<1>6. EventOutcome(s)
  BY DEF EventOutcome, OneLease, Coherent
<1>7. SoundRetention(s)
  <2>1. \A n \in Nodes : n # e.node => /\ s.node[n] = r.node[n]
                                       /\ s.retained[n] = r.retained[n]
                                       /\ s.cleanup[n] = r.cleanup[n]
    OBVIOUS
  <2>2. RetentionAt(r, e.node)
    BY DEF SoundRetention
  <2>3. RetentionAt(s, e.node)
    BY <2>2 DEF RetentionAt, OneLease, Done
  <2>4. SoundRetention(r)
    OBVIOUS
  <2> HIDE DEF s
  <2> QED
    BY <2>1, <2>3, <2>4, RetentionElsewhere
<1>8. Coherent(s)
  BY DEF Coherent, OneLease, EventOutcome
<1>9. QED
  BY <1>1, <1>2, <1>3, <1>4, <1>5, <1>6, <1>7, <1>8 DEF Sound

(* A prepared checkout keeps a run sound. *)
LEMMA PrepareSound ==
    ASSUME NEW r, Sound(r), ~r.terminal, NEW e, e.node \in Nodes, PreparedAccepted(r, e)
    PROVE  Sound(Prepare(r, e))
<1> DEFINE s == Prepare(r, e)
<1> USE NoneAssumption, PlanAssumption
<1>1. s \in RunState
  BY DEF Sound, RunState, RunStatus, NodeStatus, CleanupStatus, Prepare, PreparedAccepted, ByHolder, OnLease
<1> USE DEF Sound, RunState, NodeStatus, Prepare, PreparedAccepted, ByHolder, OnLease
<1>2. OneLease(s)
  BY DEF OneLease, Coherent
<1>3. UniqueFences(s)
  BY DEF UniqueFences
<1>4. InDependencyOrder(s)
  BY DEF InDependencyOrder, OneLease
<1>5. DispatchedOnce(s)
  BY DEF DispatchedOnce, OneLease
<1>6. EventOutcome(s)
  BY DEF EventOutcome, OneLease, Coherent
<1>7. SoundRetention(s)
  <2>1. \A n \in Nodes : n # e.node => /\ s.node[n] = r.node[n]
                                       /\ s.retained[n] = r.retained[n]
                                       /\ s.cleanup[n] = r.cleanup[n]
    OBVIOUS
  <2>2. RetentionAt(r, e.node)
    BY DEF SoundRetention
  <2>3. RetentionAt(s, e.node)
    BY <2>2 DEF RetentionAt, OneLease, Done
  <2>4. SoundRetention(r)
    OBVIOUS
  <2> HIDE DEF s
  <2> QED
    BY <2>1, <2>3, <2>4, RetentionElsewhere
<1>8. Coherent(s)
  BY DEF Coherent, OneLease, EventOutcome
<1>9. QED
  BY <1>1, <1>2, <1>3, <1>4, <1>5, <1>6, <1>7, <1>8 DEF Sound

(* A provider dispatch keeps a run sound: it is the first of its node. *)
LEMMA DispatchSound ==
    ASSUME NEW r, Sound(r), ~r.terminal, NEW e, e.node \in Nodes, DispatchAccepted(r, e)
    PROVE  Sound(Dispatch(r, e))
<1> DEFINE s == Dispatch(r, e)
<1> USE NoneAssumption, PlanAssumption
<1>1. s \in RunState
  <2>1. [r.calls EXCEPT ![e.node] = @ + 1] \in [Nodes -> Nat]
    BY DEF Sound, RunState
  <2> QED
    BY <2>1 DEF Dispatch, Sound, RunState
<1> USE DEF Sound, RunState, NodeStatus, Dispatch, DispatchAccepted, ByHolder, OnLease
<1>2. OneLease(s)
  BY DEF OneLease, Coherent
<1>3. UniqueFences(s)
  BY DEF UniqueFences
<1>4. InDependencyOrder(s)
  BY DEF InDependencyOrder, OneLease
<1>5. DispatchedOnce(s)
  <2>1. r.active = e.node /\ r.node[e.node] = "running" /\ ~r.dispatched
    BY DEF OneLease
  <2>2. r.calls[e.node] = 0
    <3>1. r.calls[e.node] \in Nat /\ ~(r.calls[e.node] > 0)
      BY <2>1 DEF DispatchedOnce
    <3> QED
      BY <3>1
  <2>3. s.calls = [r.calls EXCEPT ![e.node] = 1]
    BY <2>2
  <2>4. s.node = r.node /\ s.active = r.active /\ s.dispatched
    OBVIOUS
  <2> SUFFICES ASSUME NEW n \in Nodes
               PROVE  /\ s.calls[n] <= 1
                      /\ s.node[n] \in {"pending", "claimed"} => s.calls[n] = 0
    BY <2>4 DEF DispatchedOnce
  <2> HIDE DEF s
  <2>5. s.calls[n] <= 1
    BY <2>3 DEF DispatchedOnce
  <2>6. s.node[n] \in {"pending", "claimed"} => s.calls[n] = 0
    BY <2>1, <2>3, <2>4 DEF DispatchedOnce
  <2> QED
    BY <2>5, <2>6
<1>6. EventOutcome(s)
  BY DEF EventOutcome, OneLease, Coherent
<1>7. SoundRetention(s)
  BY DEF SoundRetention, RetentionAt
<1>8. Coherent(s)
  BY DEF Coherent, OneLease, EventOutcome
<1>9. QED
  BY <1>1, <1>2, <1>3, <1>4, <1>5, <1>6, <1>7, <1>8 DEF Sound

(* A node's success keeps a run sound. *)
LEMMA NodeSucceedSound ==
    ASSUME NEW r, Sound(r), ~r.terminal, NEW e, e.node \in Nodes, NodeSucceededAccepted(r, e)
    PROVE  Sound(NodeSucceed(r, e))
<1> DEFINE s == NodeSucceed(r, e)
<1> USE NoneAssumption, PlanAssumption
<1>1. s \in RunState
  BY DEF Sound, RunState, RunStatus, NodeStatus, CleanupStatus, NodeSucceed, NodeSucceededAccepted, ByHolder, OnLease, EndLease
<1> USE DEF Sound, RunState, NodeStatus, NodeSucceed, NodeSucceededAccepted, ByHolder, OnLease, EndLease
<1>2. OneLease(s)
  BY DEF OneLease, Coherent
<1>3. UniqueFences(s)
  BY DEF UniqueFences
<1>4. InDependencyOrder(s)
  BY DEF InDependencyOrder, OneLease
<1>5. DispatchedOnce(s)
  BY DEF DispatchedOnce, OneLease
<1>6. EventOutcome(s)
  BY DEF EventOutcome, OneLease, Coherent
<1>7. SoundRetention(s)
  <2>1. \A n \in Nodes : n # e.node => /\ s.node[n] = r.node[n]
                                       /\ s.retained[n] = r.retained[n]
                                       /\ s.cleanup[n] = r.cleanup[n]
    OBVIOUS
  <2>2. RetentionAt(r, e.node)
    BY DEF SoundRetention
  <2>3. RetentionAt(s, e.node)
    BY <2>2 DEF RetentionAt, OneLease, Done
  <2>4. SoundRetention(r)
    OBVIOUS
  <2> HIDE DEF s
  <2> QED
    BY <2>1, <2>3, <2>4, RetentionElsewhere
<1>8. Coherent(s)
  BY DEF Coherent, OneLease, EventOutcome
<1>9. QED
  BY <1>1, <1>2, <1>3, <1>4, <1>5, <1>6, <1>7, <1>8 DEF Sound

(* A node's failure keeps a run sound. *)
LEMMA NodeFailSound ==
    ASSUME NEW r, Sound(r), ~r.terminal, NEW e, e.node \in Nodes, NodeFailedAccepted(r, e)
    PROVE  Sound(NodeFail(r, e))
<1> DEFINE s == NodeFail(r, e)
<1> USE NoneAssumption, PlanAssumption
<1>1. s \in RunState
  BY DEF Sound, RunState, RunStatus, NodeStatus, CleanupStatus, NodeFail, NodeFailedAccepted, ByHolder, OnLease, EndLease
<1> USE DEF Sound, RunState, NodeStatus, NodeFail, NodeFailedAccepted, ByHolder, OnLease, EndLease
<1>2. OneLease(s)
  BY DEF OneLease, Coherent
<1>3. UniqueFences(s)
  BY DEF UniqueFences
<1>4. InDependencyOrder(s)
  BY DEF InDependencyOrder, OneLease
<1>5. DispatchedOnce(s)
  BY DEF DispatchedOnce, OneLease
<1>6. EventOutcome(s)
  BY DEF EventOutcome, OneLease, Coherent
<1>7. SoundRetention(s)
  <2>1. \A n \in Nodes : n # e.node => /\ s.node[n] = r.node[n]
                                       /\ s.retained[n] = r.retained[n]
                                       /\ s.cleanup[n] = r.cleanup[n]
    OBVIOUS
  <2>2. RetentionAt(r, e.node)
    BY DEF SoundRetention
  <2>3. RetentionAt(s, e.node)
    BY <2>2 DEF RetentionAt, OneLease, Done
  <2>4. SoundRetention(r)
    OBVIOUS
  <2> HIDE DEF s
  <2> QED
    BY <2>1, <2>3, <2>4, RetentionElsewhere
<1>8. Coherent(s)
  BY DEF Coherent, OneLease, EventOutcome
<1>9. QED
  BY <1>1, <1>2, <1>3, <1>4, <1>5, <1>6, <1>7, <1>8 DEF Sound

(* A requeued node keeps a run sound: nothing was dispatched under its lease. *)
LEMMA RequeueSound ==
    ASSUME NEW r, Sound(r), ~r.terminal, NEW e, e.node \in Nodes, RequeueAccepted(r, e)
    PROVE  Sound(Requeue(r, e))
<1> DEFINE s == Requeue(r, e)
<1> USE NoneAssumption, PlanAssumption
<1>1. s \in RunState
  BY DEF Sound, RunState, RunStatus, NodeStatus, CleanupStatus, Requeue, RequeueAccepted, OnLease, EndLease
<1> USE DEF Sound, RunState, NodeStatus, Requeue, RequeueAccepted, OnLease, EndLease
<1>2. OneLease(s)
  BY DEF OneLease, Coherent
<1>3. UniqueFences(s)
  BY DEF UniqueFences
<1>4. InDependencyOrder(s)
  BY DEF InDependencyOrder, OneLease
<1>5. DispatchedOnce(s)
  <2>1. r.active = e.node /\ ~r.dispatched
    OBVIOUS
  <2>2. r.calls[e.node] = 0
    <3>1. r.calls[e.node] \in Nat /\ ~(r.calls[e.node] > 0)
      BY <2>1 DEF DispatchedOnce
    <3> QED
      BY <3>1
  <2>3. s.node = [r.node EXCEPT ![e.node] = "pending"] /\ s.active = None /\ s.calls = r.calls
    OBVIOUS
  <2> HIDE DEF s
  <2> QED
    BY <2>2, <2>3 DEF DispatchedOnce
<1>6. EventOutcome(s)
  BY DEF EventOutcome, OneLease, Coherent
<1>7. SoundRetention(s)
  <2>1. \A n \in Nodes : n # e.node => /\ s.node[n] = r.node[n]
                                       /\ s.retained[n] = r.retained[n]
                                       /\ s.cleanup[n] = r.cleanup[n]
    OBVIOUS
  <2>2. RetentionAt(r, e.node)
    BY DEF SoundRetention
  <2>3. RetentionAt(s, e.node)
    BY <2>2 DEF RetentionAt, OneLease, Done
  <2>4. SoundRetention(r)
    OBVIOUS
  <2> HIDE DEF s
  <2> QED
    BY <2>1, <2>3, <2>4, RetentionElsewhere
<1>8. Coherent(s)
  BY DEF Coherent, OneLease, EventOutcome
<1>9. QED
  BY <1>1, <1>2, <1>3, <1>4, <1>5, <1>6, <1>7, <1>8 DEF Sound

(* A canceled node keeps a run sound. *)
LEMMA NodeCancelSound ==
    ASSUME NEW r, Sound(r), ~r.terminal, NEW e, e.node \in Nodes, NodeCanceledAccepted(r, e)
    PROVE  Sound(NodeCancel(r, e))
<1> DEFINE s == NodeCancel(r, e)
<1> USE NoneAssumption, PlanAssumption
<1>1. s \in RunState
  BY DEF Sound, RunState, RunStatus, NodeStatus, CleanupStatus, NodeCancel, NodeCanceledAccepted, OnLease, EndLease
<1> USE DEF Sound, RunState, NodeStatus, NodeCancel, NodeCanceledAccepted, OnLease, EndLease
<1>2. OneLease(s)
  BY DEF OneLease, Coherent
<1>3. UniqueFences(s)
  BY DEF UniqueFences
<1>4. InDependencyOrder(s)
  BY DEF InDependencyOrder, OneLease
<1>5. DispatchedOnce(s)
  BY DEF DispatchedOnce, OneLease
<1>6. EventOutcome(s)
  BY DEF EventOutcome, OneLease, Coherent
<1>7. SoundRetention(s)
  <2>1. \A n \in Nodes : n # e.node => /\ s.node[n] = r.node[n]
                                       /\ s.retained[n] = r.retained[n]
                                       /\ s.cleanup[n] = r.cleanup[n]
    OBVIOUS
  <2>2. RetentionAt(r, e.node)
    BY DEF SoundRetention
  <2>3. RetentionAt(s, e.node)
    BY <2>2 DEF RetentionAt, OneLease, Done
  <2>4. SoundRetention(r)
    OBVIOUS
  <2> HIDE DEF s
  <2> QED
    BY <2>1, <2>3, <2>4, RetentionElsewhere
<1>8. Coherent(s)
  BY DEF Coherent, OneLease, EventOutcome
<1>9. QED
  BY <1>1, <1>2, <1>3, <1>4, <1>5, <1>6, <1>7, <1>8 DEF Sound

(* A node left for reconciliation keeps a run sound. *)
LEMMA NodeReconcileSound ==
    ASSUME NEW r, Sound(r), ~r.terminal, NEW e, e.node \in Nodes, ReconciliationAccepted(r, e)
    PROVE  Sound(NodeReconcile(r, e))
<1> DEFINE s == NodeReconcile(r, e)
<1> USE NoneAssumption, PlanAssumption
<1>1. s \in RunState
  BY DEF Sound, RunState, RunStatus, NodeStatus, CleanupStatus, NodeReconcile, ReconciliationAccepted, OnLease, EndLease
<1> USE DEF Sound, RunState, NodeStatus, NodeReconcile, ReconciliationAccepted, OnLease, EndLease
<1>2. OneLease(s)
  BY DEF OneLease, Coherent
<1>3. UniqueFences(s)
  BY DEF UniqueFences
<1>4. InDependencyOrder(s)
  BY DEF InDependencyOrder, OneLease
<1>5. DispatchedOnce(s)
  BY DEF DispatchedOnce, OneLease
<1>6. EventOutcome(s)
  BY DEF EventOutcome, OneLease, Coherent
<1>7. SoundRetention(s)
  <2>1. \A n \in Nodes : n # e.node => /\ s.node[n] = r.node[n]
                                       /\ s.retained[n] = r.retained[n]
                                       /\ s.cleanup[n] = r.cleanup[n]
    OBVIOUS
  <2>2. RetentionAt(r, e.node)
    BY DEF SoundRetention
  <2>3. RetentionAt(s, e.node)
    BY <2>2 DEF RetentionAt, OneLease, Done
  <2>4. SoundRetention(r)
    OBVIOUS
  <2> HIDE DEF s
  <2> QED
    BY <2>1, <2>3, <2>4, RetentionElsewhere
<1>8. Coherent(s)
  BY DEF Coherent, OneLease, EventOutcome
<1>9. QED
  BY <1>1, <1>2, <1>3, <1>4, <1>5, <1>6, <1>7, <1>8 DEF Sound

(* A cleanup request keeps a run sound. *)
LEMMA RequestCleanupSound ==
    ASSUME NEW r, Sound(r), NEW e, e.node \in Nodes, CleanupAccepted(r, e, "eligible")
    PROVE  Sound(RequestCleanup(r, e))
<1> DEFINE s == RequestCleanup(r, e)
<1> USE NoneAssumption, PlanAssumption
<1>1. s \in RunState
  BY DEF Sound, RunState, RunStatus, NodeStatus, CleanupStatus, RequestCleanup, CleanupAccepted
<1> USE DEF Sound, RunState, NodeStatus, RequestCleanup, CleanupAccepted
<1>2. OneLease(s)
  BY DEF OneLease, Coherent
<1>3. UniqueFences(s)
  BY DEF UniqueFences
<1>4. InDependencyOrder(s)
  BY DEF InDependencyOrder, OneLease
<1>5. DispatchedOnce(s)
  BY DEF DispatchedOnce, OneLease
<1>6. EventOutcome(s)
  BY DEF EventOutcome, OneLease, Coherent
<1>7. SoundRetention(s)
  <2>1. \A n \in Nodes : n # e.node => /\ s.node[n] = r.node[n]
                                       /\ s.retained[n] = r.retained[n]
                                       /\ s.cleanup[n] = r.cleanup[n]
    OBVIOUS
  <2>2. RetentionAt(r, e.node)
    BY DEF SoundRetention
  <2>3. RetentionAt(s, e.node)
    BY <2>2 DEF RetentionAt, OneLease, Done
  <2>4. SoundRetention(r)
    OBVIOUS
  <2> HIDE DEF s
  <2> QED
    BY <2>1, <2>3, <2>4, RetentionElsewhere
<1>8. Coherent(s)
  BY DEF Coherent, OneLease, EventOutcome
<1>9. QED
  BY <1>1, <1>2, <1>3, <1>4, <1>5, <1>6, <1>7, <1>8 DEF Sound

(* A finished cleanup keeps a run sound. *)
LEMMA CleanSound ==
    ASSUME NEW r, Sound(r), NEW e, e.node \in Nodes, CleanupAccepted(r, e, "requested")
    PROVE  Sound(Clean(r, e))
<1> DEFINE s == Clean(r, e)
<1> USE NoneAssumption, PlanAssumption
<1>1. s \in RunState
  BY DEF Sound, RunState, RunStatus, NodeStatus, CleanupStatus, Clean, CleanupAccepted
<1> USE DEF Sound, RunState, NodeStatus, Clean, CleanupAccepted
<1>2. OneLease(s)
  BY DEF OneLease, Coherent
<1>3. UniqueFences(s)
  BY DEF UniqueFences
<1>4. InDependencyOrder(s)
  BY DEF InDependencyOrder, OneLease
<1>5. DispatchedOnce(s)
  BY DEF DispatchedOnce, OneLease
<1>6. EventOutcome(s)
  BY DEF EventOutcome, OneLease, Coherent
<1>7. SoundRetention(s)
  <2>1. \A n \in Nodes : n # e.node => /\ s.node[n] = r.node[n]
                                       /\ s.retained[n] = r.retained[n]
                                       /\ s.cleanup[n] = r.cleanup[n]
    OBVIOUS
  <2>2. RetentionAt(r, e.node)
    BY DEF SoundRetention
  <2>3. RetentionAt(s, e.node)
    BY <2>2 DEF RetentionAt, OneLease, Done
  <2>4. SoundRetention(r)
    OBVIOUS
  <2> HIDE DEF s
  <2> QED
    BY <2>1, <2>3, <2>4, RetentionElsewhere
<1>8. Coherent(s)
  BY DEF Coherent, OneLease, EventOutcome
<1>9. QED
  BY <1>1, <1>2, <1>3, <1>4, <1>5, <1>6, <1>7, <1>8 DEF Sound

(* A failed cleanup keeps a run sound. *)
LEMMA FailCleanupSound ==
    ASSUME NEW r, Sound(r), NEW e, e.node \in Nodes, e.retained \in BOOLEAN, CleanupAccepted(r, e, "requested")
    PROVE  Sound(FailCleanup(r, e))
<1> DEFINE s == FailCleanup(r, e)
<1> USE NoneAssumption, PlanAssumption
<1>1. s \in RunState
  BY DEF Sound, RunState, RunStatus, NodeStatus, CleanupStatus, FailCleanup, CleanupAccepted
<1> USE DEF Sound, RunState, NodeStatus, FailCleanup, CleanupAccepted
<1>2. OneLease(s)
  BY DEF OneLease, Coherent
<1>3. UniqueFences(s)
  BY DEF UniqueFences
<1>4. InDependencyOrder(s)
  BY DEF InDependencyOrder, OneLease
<1>5. DispatchedOnce(s)
  BY DEF DispatchedOnce, OneLease
<1>6. EventOutcome(s)
  BY DEF EventOutcome, OneLease, Coherent
<1>7. SoundRetention(s)
  <2>1. \A n \in Nodes : n # e.node => /\ s.node[n] = r.node[n]
                                       /\ s.retained[n] = r.retained[n]
                                       /\ s.cleanup[n] = r.cleanup[n]
    OBVIOUS
  <2>2. RetentionAt(r, e.node)
    BY DEF SoundRetention
  <2>3. RetentionAt(s, e.node)
    BY <2>2 DEF RetentionAt, OneLease, Done
  <2>4. SoundRetention(r)
    OBVIOUS
  <2> HIDE DEF s
  <2> QED
    BY <2>1, <2>3, <2>4, RetentionElsewhere
<1>8. Coherent(s)
  BY DEF Coherent, OneLease, EventOutcome
<1>9. QED
  BY <1>1, <1>2, <1>3, <1>4, <1>5, <1>6, <1>7, <1>8 DEF Sound

(* A cancellation request keeps a run sound. *)
LEMMA RequestCancelSound ==
    ASSUME NEW r, Sound(r), ~r.terminal, CancelAccepted(r)
    PROVE  Sound(RequestCancel(r))
<1> DEFINE s == RequestCancel(r)
<1> USE NoneAssumption, PlanAssumption
<1>1. s \in RunState
  BY DEF Sound, RunState, RunStatus, NodeStatus, CleanupStatus, RequestCancel, CancelAccepted
<1> USE DEF Sound, RunState, NodeStatus, RequestCancel, CancelAccepted
<1>2. OneLease(s)
  BY DEF OneLease, Coherent
<1>3. UniqueFences(s)
  BY DEF UniqueFences
<1>4. InDependencyOrder(s)
  BY DEF InDependencyOrder, OneLease
<1>5. DispatchedOnce(s)
  BY DEF DispatchedOnce, OneLease
<1>6. EventOutcome(s)
  BY DEF EventOutcome, OneLease, Coherent
<1>7. SoundRetention(s)
  BY DEF SoundRetention, RetentionAt
<1>8. Coherent(s)
  BY DEF Coherent, OneLease, EventOutcome
<1>9. QED
  BY <1>1, <1>2, <1>3, <1>4, <1>5, <1>6, <1>7, <1>8 DEF Sound

(* A run's success keeps it sound. *)
LEMMA RunSucceedSound ==
    ASSUME NEW r, Sound(r), ~r.terminal, NEW e, RunSucceededAccepted(r, e)
    PROVE  Sound(EndRun(r, "succeeded"))
<1> DEFINE s == EndRun(r, "succeeded")
<1> USE NoneAssumption, PlanAssumption
<1>1. s \in RunState
  BY DEF Sound, RunState, RunStatus, NodeStatus, CleanupStatus, EndRun, RunSucceededAccepted
<1> USE DEF Sound, RunState, NodeStatus, EndRun, RunSucceededAccepted
<1>2. OneLease(s)
  BY DEF OneLease, Coherent
<1>3. UniqueFences(s)
  BY DEF UniqueFences
<1>4. InDependencyOrder(s)
  BY DEF InDependencyOrder, OneLease
<1>5. DispatchedOnce(s)
  BY DEF DispatchedOnce, OneLease
<1>6. EventOutcome(s)
  BY DEF EventOutcome, OneLease, Coherent
<1>7. SoundRetention(s)
  BY DEF SoundRetention, RetentionAt
<1>8. Coherent(s)
  BY DEF Coherent, OneLease, EventOutcome
<1>9. QED
  BY <1>1, <1>2, <1>3, <1>4, <1>5, <1>6, <1>7, <1>8 DEF Sound

(* A run's failure keeps it sound. *)
LEMMA RunFailSound ==
    ASSUME NEW r, Sound(r), ~r.terminal, NEW e, RunFailedAccepted(r, e)
    PROVE  Sound(EndRun(r, "failed"))
<1> DEFINE s == EndRun(r, "failed")
<1> USE NoneAssumption, PlanAssumption
<1>1. s \in RunState
  BY DEF Sound, RunState, RunStatus, NodeStatus, CleanupStatus, EndRun, RunFailedAccepted
<1> USE DEF Sound, RunState, NodeStatus, EndRun, RunFailedAccepted
<1>2. OneLease(s)
  BY DEF OneLease, Coherent
<1>3. UniqueFences(s)
  BY DEF UniqueFences
<1>4. InDependencyOrder(s)
  BY DEF InDependencyOrder, OneLease
<1>5. DispatchedOnce(s)
  BY DEF DispatchedOnce, OneLease
<1>6. EventOutcome(s)
  BY DEF EventOutcome, OneLease, Coherent
<1>7. SoundRetention(s)
  BY DEF SoundRetention, RetentionAt
<1>8. Coherent(s)
  BY DEF Coherent, OneLease, EventOutcome
<1>9. QED
  BY <1>1, <1>2, <1>3, <1>4, <1>5, <1>6, <1>7, <1>8 DEF Sound

(* A run's cancellation keeps it sound. *)
LEMMA RunCancelSound ==
    ASSUME NEW r, Sound(r), ~r.terminal, NEW e, RunCanceledAccepted(r, e)
    PROVE  Sound(EndRun(r, "canceled"))
<1> DEFINE s == EndRun(r, "canceled")
<1> USE NoneAssumption, PlanAssumption
<1>1. s \in RunState
  BY DEF Sound, RunState, RunStatus, NodeStatus, CleanupStatus, EndRun, RunCanceledAccepted
<1> USE DEF Sound, RunState, NodeStatus, EndRun, RunCanceledAccepted
<1>2. OneLease(s)
  BY DEF OneLease, Coherent
<1>3. UniqueFences(s)
  BY DEF UniqueFences
<1>4. InDependencyOrder(s)
  BY DEF InDependencyOrder, OneLease
<1>5. DispatchedOnce(s)
  BY DEF DispatchedOnce, OneLease
<1>6. EventOutcome(s)
  BY DEF EventOutcome, OneLease, Coherent
<1>7. SoundRetention(s)
  BY DEF SoundRetention, RetentionAt
<1>8. Coherent(s)
  BY DEF Coherent, OneLease, EventOutcome
<1>9. QED
  BY <1>1, <1>2, <1>3, <1>4, <1>5, <1>6, <1>7, <1>8 DEF Sound

(* A run left for reconciliation stays sound. *)
LEMMA RunReconcileSound ==
    ASSUME NEW r, Sound(r), ~r.terminal, NEW e, RunReconciliationAccepted(r, e)
    PROVE  Sound(RunReconcile(r))
<1> DEFINE s == RunReconcile(r)
<1> USE NoneAssumption, PlanAssumption
<1>1. s \in RunState
  BY DEF Sound, RunState, RunStatus, NodeStatus, CleanupStatus, RunReconcile, RunReconciliationAccepted
<1> USE DEF Sound, RunState, NodeStatus, RunReconcile, RunReconciliationAccepted
<1>2. OneLease(s)
  BY DEF OneLease, Coherent
<1>3. UniqueFences(s)
  BY DEF UniqueFences
<1>4. InDependencyOrder(s)
  BY DEF InDependencyOrder, OneLease
<1>5. DispatchedOnce(s)
  BY DEF DispatchedOnce, OneLease
<1>6. EventOutcome(s)
  BY DEF EventOutcome, OneLease, Coherent
<1>7. SoundRetention(s)
  BY DEF SoundRetention, RetentionAt
<1>8. Coherent(s)
  BY DEF Coherent, OneLease, EventOutcome
<1>9. QED
  BY <1>1, <1>2, <1>3, <1>4, <1>5, <1>6, <1>7, <1>8 DEF Sound

(* Nothing that is claimed of a run depends on its stream's length. *)
LEMMA SequenceSound ==
    ASSUME NEW r, Sound(r)
    PROVE  Sound([r EXCEPT !.seq = @ + 1])
<1> DEFINE s == [r EXCEPT !.seq = @ + 1]
<1>1. s \in RunState
  BY DEF Sound, RunState
<1> USE DEF Sound, RunState
<1>2. OneLease(s)
  BY DEF OneLease
<1>3. UniqueFences(s)
  BY DEF UniqueFences
<1>4. InDependencyOrder(s)
  BY DEF InDependencyOrder
<1>5. DispatchedOnce(s)
  BY DEF DispatchedOnce
<1>6. EventOutcome(s)
  BY DEF EventOutcome
<1>7. SoundRetention(s)
  BY DEF SoundRetention, RetentionAt
<1>8. Coherent(s)
  BY DEF Coherent
<1>9. QED
  BY <1>1, <1>2, <1>3, <1>4, <1>5, <1>6, <1>7, <1>8 DEF Sound

----------------------------------------------------------------------------
(* The fold *)

(* The payload fields of each kind of event. *)
LEMMA EventFields ==
    ASSUME NEW e \in Events
    PROVE  /\ e.type = "node.claimed" =>
                 e.node \in Nodes /\ e.attempt \in Nat /\ e.fence \in Nat /\ e.by \in Workers
           /\ e.type \in {"worktree.prepared", "dispatch.started", "node.succeeded",
                          "node.failed", "node.requeued", "node.canceled",
                          "node.reconciliation"} => e.node \in Nodes
           /\ e.type \in {"cleanup.requested", "cleanup.done", "cleanup.failed"} =>
                 e.node \in Nodes /\ e.retained \in BOOLEAN
BY BoundsAssumption DEF Events, ClaimEvents, WorkerEvents, LeaseEvents, CleanupEvents,
                        RunEvents, CancelEvents, Tokens

(* Every event the fold accepts keeps a run sound. *)
LEMMA EventSound ==
    ASSUME NEW r, Sound(r), NEW e \in Events, Accepts(r, e)
    PROVE  Sound(Apply(r, e))
<1> SUFFICES Sound(Fold(r, e))
  BY SequenceSound DEF Apply
<1>0. EventAccepted(r, e)
  BY DEF Accepts
<1>1. CASE e.type = "node.claimed"
  BY <1>1, <1>0, EventFields, ClaimSound DEF Fold, Accepts, EventAccepted
<1>2. CASE e.type = "worktree.prepared"
  BY <1>2, <1>0, EventFields, PrepareSound DEF Fold, Accepts, EventAccepted
<1>3. CASE e.type = "dispatch.started"
  BY <1>3, <1>0, EventFields, DispatchSound DEF Fold, Accepts, EventAccepted
<1>4. CASE e.type = "node.succeeded"
  BY <1>4, <1>0, EventFields, NodeSucceedSound DEF Fold, Accepts, EventAccepted
<1>5. CASE e.type = "node.failed"
  BY <1>5, <1>0, EventFields, NodeFailSound DEF Fold, Accepts, EventAccepted
<1>6. CASE e.type = "node.requeued"
  BY <1>6, <1>0, EventFields, RequeueSound DEF Fold, Accepts, EventAccepted
<1>7. CASE e.type = "node.canceled"
  BY <1>7, <1>0, EventFields, NodeCancelSound DEF Fold, Accepts, EventAccepted
<1>8. CASE e.type = "node.reconciliation"
  BY <1>8, <1>0, EventFields, NodeReconcileSound DEF Fold, Accepts, EventAccepted
<1>9. CASE e.type = "cleanup.requested"
  BY <1>9, <1>0, EventFields, RequestCleanupSound DEF Fold, Accepts, EventAccepted
<1>10. CASE e.type = "cleanup.done"
  BY <1>10, <1>0, EventFields, CleanSound DEF Fold, Accepts, EventAccepted
<1>11. CASE e.type = "cleanup.failed"
  BY <1>11, <1>0, EventFields, FailCleanupSound DEF Fold, Accepts, EventAccepted
<1>12. CASE e.type = "run.cancel-requested"
  BY <1>12, <1>0, EventFields, RequestCancelSound DEF Fold, Accepts, EventAccepted
<1>13. CASE e.type = "run.succeeded"
  BY <1>13, <1>0, EventFields, RunSucceedSound DEF Fold, Accepts, EventAccepted
<1>14. CASE e.type = "run.failed"
  BY <1>14, <1>0, EventFields, RunFailSound DEF Fold, Accepts, EventAccepted
<1>15. CASE e.type = "run.canceled"
  BY <1>15, <1>0, EventFields, RunCancelSound DEF Fold, Accepts, EventAccepted
<1>16. CASE e.type = "run.reconciliation"
  BY <1>16, <1>0, EventFields, RunReconcileSound DEF Fold, Accepts, EventAccepted
<1> QED
  BY <1>0, <1>1, <1>2, <1>3, <1>4, <1>5, <1>6, <1>7, <1>8, <1>9, <1>10, <1>11, <1>12, <1>13, <1>14, <1>15, <1>16 DEF EventAccepted

----------------------------------------------------------------------------
(* What an event leaves alone *)

(* What one event may do to tokens and finished nodes; unlike MovesForward it
   composes over the two events of a batch. *)
Advances(r, s) ==
    /\ r.maxFence <= s.maxFence
    /\ s.maxFence = r.maxFence => s.active \in {r.active, None}
    /\ \A n \in Nodes : r.node[n] \in Done => s.node[n] = r.node[n]

(* What an event about a lease, and an event about the run or a cleanup, leave
   alone. *)
LeaseFootprint(r, s) ==
    /\ s.maxFence = r.maxFence
    /\ s.active \in {r.active, None}
    /\ s.cancel = r.cancel
    /\ \A n \in Nodes : n # r.active => s.node[n] = r.node[n]
    /\ r.cancel => s.calls = r.calls /\ s.node[r.active] # "succeeded"

RunFootprint(r, s) ==
    /\ s.node = r.node
    /\ s.active = r.active
    /\ s.maxFence = r.maxFence
    /\ s.calls = r.calls
    /\ r.cancel => s.cancel

(* Every accepted event respects a finished run, a requested cancellation, and
   the order of leases. *)
LEMMA EventAdvances ==
    ASSUME NEW r, Sound(r), NEW e \in Events, Accepts(r, e)
    PROVE  /\ OverForGood(r, Apply(r, e))
           /\ StopsOnCancel(r, Apply(r, e))
           /\ Advances(r, Apply(r, e))
<1> DEFINE s == Apply(r, e)
<1>0. EventAccepted(r, e) /\ r \in RunState /\ OneLease(r) /\ r.maxFence \in Nat
  BY DEF Accepts, Sound, RunState
<1>1. CASE e.type = "node.claimed"
  <2>1. ~r.cancel /\ ~r.terminal /\ r.node[e.node] = "pending" /\ e.fence = r.maxFence + 1
    BY <1>0, <1>1 DEF EventAccepted, ClaimAccepted, Accepts
  <2>2. s.maxFence = r.maxFence + 1 /\ s.node = [r.node EXCEPT ![e.node] = "claimed"]
    BY <1>0, <1>1, <2>1 DEF Apply, Fold, Claim, RunState
  <2>3. \A n \in Nodes : r.node[n] \in Done => s.node[n] = r.node[n]
    BY <1>0, <2>1, <2>2 DEF Done, RunState
  <2> HIDE DEF s
  <2>4. OverForGood(r, s) /\ StopsOnCancel(r, s) /\ Advances(r, s)
    BY <1>0, <2>1, <2>2, <2>3 DEF OverForGood, StopsOnCancel, Advances
  <2> QED
    BY <2>4 DEF s
<1>2. CASE e.type \in {"worktree.prepared", "dispatch.started", "node.succeeded",
                      "node.failed", "node.requeued", "node.canceled",
                      "node.reconciliation"}
  <2>1. r.active = e.node /\ ~r.terminal /\ r.active \in Nodes
    BY <1>0, <1>2, EventFields DEF EventAccepted, PreparedAccepted, DispatchAccepted,
       NodeSucceededAccepted, NodeFailedAccepted, RequeueAccepted, NodeCanceledAccepted,
       ReconciliationAccepted, ByHolder, OnLease, Accepts
  <2>2. LeaseFootprint(r, s)
    <3> USE <1>0, <2>1 DEF LeaseFootprint, Apply, Fold, RunState, EndLease
    <3>1. CASE e.type = "worktree.prepared"
      BY <3>1 DEF Prepare
    <3>2. CASE e.type = "dispatch.started"
      BY <3>2 DEF Dispatch, EventAccepted, DispatchAccepted
    <3>3. CASE e.type = "node.succeeded"
      BY <3>3 DEF NodeSucceed, EventAccepted, NodeSucceededAccepted
    <3>4. CASE e.type = "node.failed"
      BY <3>4 DEF NodeFail
    <3>5. CASE e.type = "node.requeued"
      BY <3>5 DEF Requeue
    <3>6. CASE e.type = "node.canceled"
      BY <3>6 DEF NodeCancel
    <3>7. CASE e.type = "node.reconciliation"
      BY <3>7 DEF NodeReconcile
    <3> QED
      BY <1>2, <3>1, <3>2, <3>3, <3>4, <3>5, <3>6, <3>7
  <2>3. r.node[r.active] \in {"claimed", "running"}
    BY <1>0, <2>1 DEF OneLease
  <2> HIDE DEF s
  <2>4. StopsOnCancel(r, s)
    BY <1>0, <2>1, <2>2 DEF LeaseFootprint, StopsOnCancel
  <2>5. Advances(r, s)
    BY <1>0, <2>1, <2>2, <2>3 DEF LeaseFootprint, Advances, Done
  <2> QED
    BY <2>1, <2>4, <2>5 DEF OverForGood, s
<1>3. CASE e.type \in {"cleanup.requested", "cleanup.done", "cleanup.failed"}
  <2>1. RunFootprint(r, s) /\ s.status = r.status /\ s.terminal = r.terminal /\ s.cancel = r.cancel
    BY <1>0, <1>3 DEF RunFootprint, Apply, Fold, RunState, RequestCleanup, Clean, FailCleanup
  <2>2. \A n \in Nodes : s.retained[n] => r.retained[n]
    <3> USE <1>0 DEF Apply, Fold, RunState
    <3>1. CASE e.type = "cleanup.requested"
      BY <3>1 DEF RequestCleanup
    <3>2. CASE e.type = "cleanup.done"
      BY <3>2, EventFields DEF Clean
    <3>3. CASE e.type = "cleanup.failed"
      BY <3>3, EventFields DEF FailCleanup, EventAccepted, CleanupAccepted
    <3> QED
      BY <1>3, <3>1, <3>2, <3>3
  <2> HIDE DEF s
  <2>3. OverForGood(r, s)
    BY <2>1, <2>2 DEF OverForGood, RunFootprint
  <2>4. StopsOnCancel(r, s) /\ Advances(r, s)
    BY <1>0, <2>1 DEF RunFootprint, StopsOnCancel, Advances
  <2> QED
    BY <2>3, <2>4 DEF s
<1>4. CASE e.type \in {"run.cancel-requested", "run.succeeded", "run.failed", "run.canceled",
                      "run.reconciliation"}
  <2>1. ~r.terminal
    BY <1>4 DEF Accepts
  <2>2. RunFootprint(r, s)
    BY <1>0, <1>4 DEF RunFootprint, Apply, Fold, RunState, RequestCancel, EndRun, RunReconcile
  <2> HIDE DEF s
  <2>3. StopsOnCancel(r, s) /\ Advances(r, s)
    BY <1>0, <2>2 DEF RunFootprint, StopsOnCancel, Advances
  <2> QED
    BY <2>1, <2>3 DEF OverForGood, s
<1> QED
  BY <1>0, <1>1, <1>2, <1>3, <1>4 DEF EventAccepted

(* The three relations compose over the events of a batch. *)
LEMMA Composition ==
    ASSUME NEW r \in RunState, NEW q \in RunState, NEW s \in RunState
    PROVE  /\ OverForGood(r, q) /\ OverForGood(q, s) => OverForGood(r, s)
           /\ StopsOnCancel(r, q) /\ StopsOnCancel(q, s) => StopsOnCancel(r, s)
           /\ Advances(r, q) /\ Advances(q, s) => Advances(r, s)
<1>1. OverForGood(r, q) /\ OverForGood(q, s) => OverForGood(r, s)
  BY DEF OverForGood
<1>2. StopsOnCancel(r, q) /\ StopsOnCancel(q, s) => StopsOnCancel(r, s)
  BY DEF StopsOnCancel
<1>3. Advances(r, q) /\ Advances(q, s) => Advances(r, s)
  <2> SUFFICES ASSUME Advances(r, q), Advances(q, s) PROVE Advances(r, s)
    OBVIOUS
  <2>1. r.maxFence \in Nat /\ q.maxFence \in Nat /\ s.maxFence \in Nat
    BY DEF RunState
  <2> QED
    BY <2>1 DEF Advances
<1> QED
  BY <1>1, <1>2, <1>3

----------------------------------------------------------------------------
(* Batches *)

(* A queued run is sound and has something to do. *)
LEMMA QueuedSound == Sound(Queued) /\ Complete(Queued)
<1> USE NoneAssumption, PlanAssumption DEF Queued
<1>1. Queued \in RunState
  BY DEF RunState, RunStatus, NodeStatus, CleanupStatus
<1>2. OneLease(Queued) /\ UniqueFences(Queued)
  BY DEF OneLease, UniqueFences
<1>3. InDependencyOrder(Queued) /\ DispatchedOnce(Queued)
  BY DEF InDependencyOrder, DispatchedOnce
<1>4. EventOutcome(Queued) /\ SoundRetention(Queued) /\ Coherent(Queued)
  BY DEF EventOutcome, SoundRetention, RetentionAt, Coherent
<1>5. Complete(Queued)
  BY DEF Complete
<1> QED
  BY <1>1, <1>2, <1>3, <1>4, <1>5 DEF Sound

(* A batch keeps a run sound, because each of its events does, and leaves it complete,
   because the fold has checked that; it respects a finished run, a requested
   cancellation and the order of leases. *)
LEMMA GrowsSound ==
    ASSUME NEW r, NEW s, Sound(r), Grows(r, s)
    PROVE  /\ Sound(s) /\ Complete(s)
           /\ OverForGood(r, s) /\ StopsOnCancel(r, s) /\ Advances(r, s)
<1>1. PICK e \in Events :
          /\ Accepts(r, e)
          /\ \/ Complete(Apply(r, e)) /\ s = Apply(r, e)
             \/ \E f \in Events : /\ Accepts(Apply(r, e), f)
                                   /\ Complete(Apply(Apply(r, e), f))
                                   /\ s = Apply(Apply(r, e), f)
  BY DEF Grows
<1> DEFINE q == Apply(r, e)
<1>2. Sound(q) /\ OverForGood(r, q) /\ StopsOnCancel(r, q) /\ Advances(r, q)
  BY <1>1, EventSound, EventAdvances
<1>3. CASE Complete(q) /\ s = q
  BY <1>2, <1>3
<1>4. CASE \E f \in Events : Accepts(q, f) /\ Complete(Apply(q, f)) /\ s = Apply(q, f)
  <2>1. PICK f \in Events : Accepts(q, f) /\ Complete(Apply(q, f)) /\ s = Apply(q, f)
    BY <1>4
  <2> HIDE DEF q
  <2>2. Sound(s) /\ OverForGood(q, s) /\ StopsOnCancel(q, s) /\ Advances(q, s)
    BY <1>2, <2>1, EventSound, EventAdvances
  <2>3. r \in RunState /\ q \in RunState /\ s \in RunState
    BY <1>2, <2>2 DEF Sound
  <2> QED
    BY <1>2, <2>1, <2>2, <2>3, Composition
<1> QED
  BY <1>1, <1>3, <1>4

(* A batch the fold accepts is a step of the stream. *)
Batches == {b \in Seq(Events) : Len(b) = 1 \/ (Len(b) = 2 /\ b[2] \in RunEvents)}

LEMMA BatchGrows ==
    ASSUME NEW r, NEW b \in Batches, AcceptsBatch(r, b)
    PROVE  Grows(r, FoldBatch(r, b))
<1>1. CASE Len(b) = 1
  <2>1. b[1] \in Events /\ FoldBatch(r, b) = Apply(r, b[1])
    BY <1>1 DEF Batches, FoldBatch
  <2> QED
    BY <2>1 DEF AcceptsBatch, Grows
<1>2. CASE Len(b) = 2
  <2>1. b[1] \in Events /\ b[2] \in Events /\ FoldBatch(r, b) = Apply(Apply(r, b[1]), b[2])
    BY <1>2 DEF Batches, FoldBatch
  <2> QED
    BY <1>2, <2>1 DEF AcceptsBatch, Grows
<1> QED
  BY <1>1, <1>2 DEF Batches

----------------------------------------------------------------------------
(* What each event does to nodes, leases and checkouts *)

(* A request to cancel and an event about the whole run touch none of them. *)
SameWork(r, s) ==
    /\ s.node = r.node /\ s.fence = r.fence /\ s.retained = r.retained
    /\ s.cleanup = r.cleanup /\ s.calls = r.calls
    /\ s.active = r.active /\ s.worker = r.worker /\ s.maxFence = r.maxFence

LEMMA RunEffect ==
    ASSUME NEW r \in RunState, NEW e, EventAccepted(r, e), e \in RunEvents \cup CancelEvents
    PROVE  SameWork(r, Apply(r, e))
<1>1. e.type \in {"run.cancel-requested", "run.succeeded", "run.failed", "run.canceled",
                  "run.reconciliation"}
  BY DEF RunEvents, CancelEvents
<1> QED
  BY <1>1 DEF SameWork, Apply, Fold, RunState, RequestCancel, EndRun, RunReconcile

(* The rest of a batch touches nothing that its first event has not. *)
LEMMA BatchEffect ==
    ASSUME NEW r, Sound(r), NEW b \in Batches, AcceptsBatch(r, b)
    PROVE  /\ b[1] \in Events /\ Accepts(r, b[1])
           /\ SameWork(Apply(r, b[1]), FoldBatch(r, b))
<1>1. b[1] \in Events /\ Accepts(r, b[1])
  BY DEF Batches, AcceptsBatch
<1>2. Apply(r, b[1]) \in RunState
  BY <1>1, EventSound DEF Sound
<1>3. CASE Len(b) = 1
  BY <1>1, <1>3 DEF FoldBatch, SameWork
<1>4. CASE Len(b) = 2
  BY <1>1, <1>2, <1>4, RunEffect DEF FoldBatch, AcceptsBatch, Batches, Accepts
<1> QED
  BY <1>1, <1>3, <1>4 DEF Batches

(* A claim gives a pending node the next token. *)
LEMMA ClaimEffect ==
    ASSUME NEW r \in RunState, NEW e \in Events, Accepts(r, e), e.type = "node.claimed"
    PROVE  LET s == Apply(r, e) IN
           /\ r.active = None /\ r.node[e.node] = "pending" /\ e.fence = r.maxFence + 1
           /\ e.node \in Nodes /\ e.fence \in Tokens
           /\ s.node = [r.node EXCEPT ![e.node] = "claimed"]
           /\ s.fence = [r.fence EXCEPT ![e.node] = e.fence]
           /\ s.retained = r.retained
           /\ s.cleanup = [r.cleanup EXCEPT ![e.node] = "none"]
           /\ s.calls = r.calls
           /\ s.active = e.node /\ s.worker = e.by /\ s.maxFence = e.fence
<1>1. ClaimAccepted(r, e) /\ e.node \in Nodes /\ e.fence \in Tokens
  BY DEF Accepts, EventAccepted, Events, ClaimEvents, WorkerEvents, LeaseEvents, CleanupEvents,
         RunEvents, CancelEvents
<1> QED
  BY <1>1 DEF ClaimAccepted, Apply, Fold, Claim, RunState

(* Preparing a checkout and dispatching the provider leave the lease where it is. *)
LEMMA PreparedEffect ==
    ASSUME NEW r \in RunState, NEW e \in Events, Accepts(r, e), e.type = "worktree.prepared"
    PROVE  LET s == Apply(r, e) IN
           /\ r.active = e.node /\ e.node \in Nodes
           /\ s.node = [r.node EXCEPT ![e.node] = "running"]
           /\ s.fence = r.fence /\ s.retained = r.retained /\ s.cleanup = r.cleanup
           /\ s.calls = r.calls
           /\ s.active = r.active /\ s.worker = r.worker /\ s.maxFence = r.maxFence
<1>1. PreparedAccepted(r, e) /\ e.node \in Nodes
  BY EventFields DEF Accepts, EventAccepted
<1> QED
  BY <1>1 DEF PreparedAccepted, ByHolder, OnLease, Apply, Fold, Prepare, RunState

LEMMA DispatchEffect ==
    ASSUME NEW r, Sound(r), NEW e \in Events, Accepts(r, e), e.type = "dispatch.started"
    PROVE  LET s == Apply(r, e) IN
           /\ r.active = e.node /\ e.node \in Nodes /\ r.calls[e.node] = 0
           /\ s.calls = [r.calls EXCEPT ![e.node] = 1]
           /\ s.node = r.node
           /\ s.fence = r.fence /\ s.retained = r.retained /\ s.cleanup = r.cleanup
           /\ s.active = r.active /\ s.worker = r.worker /\ s.maxFence = r.maxFence
<1>1. DispatchAccepted(r, e) /\ e.node \in Nodes
  BY EventFields DEF Accepts, EventAccepted
<1>2. r \in RunState /\ r.active = e.node /\ ~r.dispatched
  BY <1>1 DEF DispatchAccepted, ByHolder, OnLease, Sound
<1>3. r.calls[e.node] \in Nat /\ ~(r.calls[e.node] > 0)
  BY <1>1, <1>2 DEF Sound, DispatchedOnce, RunState
<1>4. r.calls[e.node] = 0
  BY <1>3
<1>5. [r.calls EXCEPT ![e.node] = r.calls[e.node] + 1] = [r.calls EXCEPT ![e.node] = 1]
  BY <1>4
<1>6. Apply(r, e) = [r EXCEPT !.dispatched = TRUE, !.calls = [r.calls EXCEPT ![e.node] = 1],
                              !.seq = r.seq + 1]
  BY <1>2, <1>5 DEF Apply, Fold, Dispatch, RunState
<1> QED
  BY <1>1, <1>2, <1>4, <1>6 DEF RunState

(* An outcome ends the lease of its node; what it retains is what it inspected. *)
OutcomeIs(type, status) ==
    \/ type = "node.succeeded" /\ status = "succeeded"
    \/ type = "node.failed" /\ status = "failed"
    \/ type = "node.requeued" /\ status = "pending"
    \/ type = "node.canceled" /\ status = "canceled"
    \/ type = "node.reconciliation" /\ status = "reconciliation"
LeaseOutcomes == {"node.succeeded", "node.failed", "node.requeued", "node.canceled",
              "node.reconciliation"}

LEMMA OutcomeEffect ==
    ASSUME NEW r, Sound(r), NEW e \in Events, Accepts(r, e), e.type \in LeaseOutcomes
    PROVE  LET s == Apply(r, e) IN
           /\ r.active = e.node /\ e.node \in Nodes /\ ~r.retained[e.node]
           /\ OutcomeIs(e.type, s.node[e.node])
           /\ \A n \in Nodes : n # e.node => s.node[n] = r.node[n]
           /\ s.fence = r.fence /\ s.calls = r.calls /\ s.maxFence = r.maxFence
           /\ \A n \in Nodes : n # e.node => s.retained[n] = r.retained[n]
           /\ \A n \in Nodes : n # e.node => s.cleanup[n] = r.cleanup[n]
           /\ e.type = "node.succeeded" => s.retained[e.node] /\ s.cleanup[e.node] = "eligible"
           /\ e.type = "node.requeued" => ~s.retained[e.node]
           /\ e.type \in {"node.failed", "node.canceled", "node.reconciliation"} =>
                 (s.retained[e.node] <=> e.insp # "none")
           /\ s.active = None /\ s.worker = None
<1>1. e.node \in Nodes /\ r.active = e.node
  BY EventFields DEF LeaseOutcomes, Accepts, EventAccepted, NodeSucceededAccepted, NodeFailedAccepted,
     RequeueAccepted, NodeCanceledAccepted, ReconciliationAccepted, ByHolder, OnLease
<1>2. r \in RunState /\ r.node[e.node] \in {"claimed", "running"}
  BY <1>1, NoneAssumption DEF Sound, OneLease
<1>3. ~r.retained[e.node]
  BY <1>1, <1>2 DEF Sound, SoundRetention, RetentionAt, Done, RunState
<1> USE <1>1, <1>2, <1>3 DEF Apply, Fold, EndLease, RunState, OutcomeIs
<1>4. CASE e.type = "node.succeeded"
  BY <1>4 DEF NodeSucceed
<1>5. CASE e.type = "node.failed"
  BY <1>5 DEF NodeFail
<1>6. CASE e.type = "node.requeued"
  BY <1>6 DEF Requeue
<1>7. CASE e.type = "node.canceled"
  BY <1>7 DEF NodeCancel
<1>8. CASE e.type = "node.reconciliation"
  BY <1>8 DEF NodeReconcile
<1> QED
  BY <1>4, <1>5, <1>6, <1>7, <1>8 DEF LeaseOutcomes

(* A cleanup concerns a succeeded node that retains its checkout. *)
LEMMA CleanupEffect ==
    ASSUME NEW r \in RunState, NEW e \in Events, Accepts(r, e),
           e.type \in {"cleanup.requested", "cleanup.done", "cleanup.failed"}
    PROVE  LET s == Apply(r, e) IN
           /\ e.node \in Nodes /\ r.node[e.node] = "succeeded" /\ r.retained[e.node]
           /\ s.node = r.node /\ s.fence = r.fence /\ s.calls = r.calls
           /\ s.maxFence = r.maxFence /\ s.active = r.active /\ s.worker = r.worker
           /\ \A n \in Nodes : n # e.node => s.retained[n] = r.retained[n]
           /\ \A n \in Nodes : n # e.node => s.cleanup[n] = r.cleanup[n]
           /\ e.type = "cleanup.requested" => s.retained[e.node] /\ s.cleanup[e.node] = "requested"
           /\ e.type = "cleanup.done" => ~s.retained[e.node] /\ s.cleanup[e.node] = "cleaned"
           /\ e.type = "cleanup.failed" =>
                 (s.retained[e.node] <=> e.retained) /\ s.cleanup[e.node] = "failed"
<1>1. /\ e.node \in Nodes /\ e.retained \in BOOLEAN
      /\ r.node[e.node] = "succeeded" /\ r.retained[e.node]
  BY EventFields DEF Accepts, EventAccepted, CleanupAccepted
<1> USE <1>1 DEF Apply, Fold, RunState
<1>2. CASE e.type = "cleanup.requested"
  BY <1>2 DEF RequestCleanup
<1>3. CASE e.type = "cleanup.done"
  BY <1>3 DEF Clean
<1>4. CASE e.type = "cleanup.failed"
  BY <1>4 DEF FailCleanup
<1> QED
  BY <1>2, <1>3, <1>4
=============================================================================
