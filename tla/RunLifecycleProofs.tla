------------------------ MODULE RunLifecycleProofs ------------------------
(***************************************************************************)
(* The properties of RunLifecycle, for every plan, every set of workers    *)
(* and every bound on tokens and stream length.                            *)
(*                                                                         *)
(* The inductive invariant IInv is that the run is Sound, which every      *)
(* accepted event preserves, and Complete, which the fold checks at the    *)
(* end of a batch (RunGrammarProofs).                                      *)
(***************************************************************************)
EXTENDS RunLifecycle, RunGrammarProofs

----------------------------------------------------------------------------
(* The inductive invariant *)

IInv == Sound(run) /\ Complete(run)

(* A run starts sound, and every batch keeps it so. *)
LEMMA NextSound == IInv /\ [Next]_run => IInv'
<1>1. IInv /\ Next => IInv'
  BY GrowsSound DEF IInv, Next, Step
<1>2. IInv /\ UNCHANGED run => IInv'
  BY DEF IInv, Sound, Complete
<1> QED
  BY <1>1, <1>2

(* IInv is an invariant of the grammar. *)
THEOREM Invariance == Spec => []IInv
<1>1. Init => IInv
  BY QueuedSound DEF Init, IInv
<1> QED
  BY <1>1, NextSound, PTL DEF Spec

----------------------------------------------------------------------------
(* The safety properties *)

(* The folded state always has its declared shape. *)
THEOREM TypeCorrect == Spec => []TypeOK
<1>1. IInv => TypeOK
  BY DEF IInv, Sound, TypeOK
<1> QED
  BY <1>1, Invariance, PTL

(* A run never has two leases, and no lease outlives its node's work. *)
THEOREM LeaseSafety == Spec => []LeaseInv
<1>1. IInv => LeaseInv
  BY DEF IInv, Sound, LeaseInv
<1> QED
  BY <1>1, Invariance, PTL

(* Fencing tokens identify leases. *)
THEOREM FenceSafety == Spec => []FenceInv
<1>1. IInv => FenceInv
  BY DEF IInv, Sound, FenceInv
<1> QED
  BY <1>1, Invariance, PTL

(* Every plan is worked in dependency order. *)
THEOREM DependencySafety == Spec => []DependencyInv
<1>1. IInv => DependencyInv
  BY DEF IInv, Sound, DependencyInv
<1> QED
  BY <1>1, Invariance, PTL

(* The provider is dispatched at most once per node, whatever is requeued,
   canceled or reconciled in between. *)
THEOREM DispatchSafety == Spec => []DispatchOnce
<1>1. IInv => DispatchOnce
  BY DEF IInv, Sound, DispatchOnce
<1> QED
  BY <1>1, Invariance, PTL

(* A terminal status is true of the nodes. *)
THEOREM OutcomeSafety == Spec => []OutcomeInv
<1>1. IInv => OutcomeInv
  <2> SUFFICES ASSUME IInv PROVE TruthfulOutcome(run)
    BY DEF OutcomeInv
  <2>1. run.status = "failed" => run.terminal
    BY DEF IInv, Sound, Complete, EventOutcome, OneLease, RunState
  <2> QED
    BY <2>1 DEF IInv, Sound, EventOutcome, TruthfulOutcome
<1> QED
  BY <1>1, Invariance, PTL

(* Recorded retention is sound. *)
THEOREM RetentionSafety == Spec => []RetentionInv
<1>1. IInv => RetentionInv
  BY DEF IInv, Sound, RetentionInv
<1> QED
  BY <1>1, Invariance, PTL

(* All of these together, for every plan, whatever its nodes and dependencies: no
   sequence of recorded events leaves a run with two leases, a fence used twice, a node
   ahead of its dependencies, a second dispatch, an untrue outcome or a lost checkout. *)
THEOREM RunSafety == Spec => []RunConsistent
  BY TypeCorrect, LeaseSafety, FenceSafety, DependencySafety, DispatchSafety, OutcomeSafety,
     RetentionSafety, PTL DEF RunConsistent

(* No acyclic plan leads a run to a dead end. *)
THEOREM NoDeadEndSafety == Spec => []NoDeadEnd
<1>1. IInv => NoDeadEnd
  <2> SUFFICES ASSUME IInv, ~run.terminal, run.active = None
               PROVE  NoDeadEnd
    BY DEF NoDeadEnd
  <2>1. /\ ~run.cancel
        /\ \E n \in Nodes : run.node[n] # "succeeded"
        /\ \A n \in Nodes : run.node[n] # "failed"
        /\ (\E n \in Nodes : run.node[n] = "reconciliation") => run.recon
    BY DEF IInv, Complete
  <2>2. run.status \in {"queued", "reconciliation"}
    BY <2>1 DEF IInv, Sound, EventOutcome, Coherent, RunState, RunStatus
  <2>3. CASE run.status = "reconciliation"
    BY <2>1, <2>3 DEF IInv, Sound, EventOutcome, NoDeadEnd
  <2>4. CASE run.status = "queued"
    <3> DEFINE S == {n \in Nodes : run.node[n] # "succeeded"}
    <3>1. PICK n \in S : DependsOn[n] \cap S = {}
      BY <2>1, AcyclicAssumption
    <3>2. run.node[n] = "pending"
      BY <2>4, NoneAssumption DEF IInv, Sound, Coherent
    <3>3. \A d \in DependsOn[n] : run.node[d] = "succeeded"
      BY <3>1, PlanAssumption
    <3> QED
      BY <2>4, <3>2, <3>3 DEF NoDeadEnd
  <2> QED
    BY <2>2, <2>3, <2>4
<1> QED
  BY <1>1, Invariance, PTL

----------------------------------------------------------------------------
(* The action properties *)

(* Every step of a run respects its end, its cancellation and the order of leases. *)
LEMMA BatchAdvances ==
    ASSUME IInv, Next
    PROVE  OverForGood(run, run') /\ StopsOnCancel(run, run') /\ Advances(run, run')
  BY GrowsSound DEF IInv, Next, Step

(* A run that is over stays over. *)
THEOREM TerminalFinality == Spec => TerminalFinal
<1>1. IInv /\ [Next]_run => [OverForGood(run, run')]_run
  BY BatchAdvances
<1> QED
  BY <1>1, Invariance, PTL DEF Spec, TerminalFinal

(* Nothing is started or completed after a cancellation request. *)
THEOREM CancellationFinality == Spec => CancelStops
<1>1. IInv /\ [Next]_run => [StopsOnCancel(run, run')]_run
  BY BatchAdvances
<1> QED
  BY <1>1, Invariance, PTL DEF Spec, CancelStops

(* Each new lease of a run is newer than all before it. *)
THEOREM LeaseOrder == Spec => LeasesMoveForward
<1>1. IInv /\ IInv' /\ [Next]_run => [MovesForward(run, run')]_run
  <2> SUFFICES ASSUME IInv, IInv', Next PROVE MovesForward(run, run')
    OBVIOUS
  <2>1. Advances(run, run')
    BY BatchAdvances
  <2>2. /\ run.maxFence \in Nat /\ run'.maxFence \in Nat /\ run'.active \in Nodes \cup {None}
        /\ \A n \in Nodes : run.fence[n] \in Nat /\ run.fence[n] <= run.maxFence
        /\ run'.active # None => run'.fence[run'.active] = run'.maxFence
    BY DEF IInv, Sound, RunState, UniqueFences, OneLease
  <2> QED
    BY <2>1, <2>2 DEF Advances, MovesForward
<1> QED
  BY <1>1, Invariance, PTL DEF Spec, LeasesMoveForward
=============================================================================
