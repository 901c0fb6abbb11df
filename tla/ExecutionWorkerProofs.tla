----------------------- MODULE ExecutionWorkerProofs -----------------------
(***************************************************************************)
(* The safety properties of ExecutionWorker, for every set of runs, plan,  *)
(* set of clients, retention limit and bound, with faults, lease expiry    *)
(* and crashes.                                                            *)
(*                                                                         *)
(* The inductive invariant says of every run that its stream is sound and  *)
(* agrees with its checkouts and with the calls made for it, of every      *)
(* pending cancellation that it is one, and of the worker what it knows    *)
(* at each place of its program: whose lease it holds, what is in that     *)
(* checkout, and what the batch it is about to append says about both.     *)
(***************************************************************************)
EXTENDS ExecutionWorker, RunGrammarProofs, FiniteSetTheorems, NaturalsInduction,
        WellFoundedInduction

----------------------------------------------------------------------------
(* The inductive invariant *)

(* A node that was claimed has a token, and the newest token is some node's. *)
Issued(x) ==
    /\ \E n \in Nodes : x.fence[n] = x.maxFence
    /\ \A n \in Nodes : x.node[n] # "pending" => x.fence[n] \in Tokens

RunOK(x) == Sound(x) /\ Complete(x) /\ Issued(x)

(* What a run x, its checkouts d and the calls k made for it have to do with each
   other: LedgerMatchesDisk and ProviderOnce, of one run. *)
WorkKept(x, d) ==
    \A f \in Tokens : d[f] \in {"dirty", "committed"} =>
        \E n \in Nodes : /\ x.fence[n] = f
                         /\ x.active = n \/ x.retained[n] \/ x.node[n] = "reconciliation"
RetainedKept(x, d) ==
    \A n \in Nodes : x.retained[n] /\ x.cleanup[n] # "requested" => d[x.fence[n]] # "absent"
CommittedKept(x, d, k) ==
    \A n \in Writers : x.node[n] = "succeeded" =>
        k[n] = 1 /\ (x.cleanup[n] = "eligible" => d[x.fence[n]] = "committed")
CallsRecorded(x, k) == \A n \in Nodes : k[n] <= x.calls[n]
DiskOK(x, d, k) ==
    WorkKept(x, d) /\ RetainedKept(x, d) /\ CommittedKept(x, d, k) /\ CallsRecorded(x, k)

Disk == [Tokens -> Checkout]
Calls == [Nodes -> Nat]

(* What an event says of a checkout and of the calls is so: c is the checkout of its
   node, m the number of calls. *)
Inspected(e, c) ==
    /\ e.insp # "none" => c = e.insp
    /\ e.insp = "none" /\ e.type # "node.reconciliation" => c = "absent"
Ended == {"node.failed", "node.canceled", "node.reconciliation"}
Cleanups == {"cleanup.requested", "cleanup.done", "cleanup.failed"}
TrueEvent(e, c, m) ==
    /\ e.type = "node.succeeded" =>
          c # "absent" /\ (e.node \in Writers => m = 1 /\ c = "committed")
    /\ e.type \in Ended => Inspected(e, c)
    /\ e.type = "node.requeued" => c \notin {"dirty", "committed"}
    /\ e.type = "cleanup.done" => c = "absent"
    /\ e.type = "cleanup.failed" => (e.retained <=> c # "absent")

(* The worker process: the shape of its state, and the groups of its places. *)
WorkerState ==
    [pc : Control, run : Runs \cup {None}, node : Nodes \cup {None}, seq : Nat,
     batch : Batches \cup {NoBatch}, ok : Control, err : Control, todo : SUBSET Nat,
     sweep : {"idle", "recover", "trim"}, removed : BOOLEAN, quota : BOOLEAN, cycle : Cycle,
     claimed : (Runs \cup {None}) \X (Nodes \cup {None}), once : BOOLEAN]

Sweeps == {"recover", "trim"}
Sweeping(v) ==
    v.pc \in {"recover", "trim", "remove", "record"}
        \/ (v.pc = "append" /\ v.ok \in {"recover", "trim", "remove"})
Reconciling(v) == v.pc = "reconcile" \/ (v.pc = "append" /\ v.ok = "reconcile")
InCycle(v) ==
    v.pc \in Working \cup {"conflict"}
        \/ (v.pc = "append" /\ v.ok \notin {"recover", "trim", "remove", "reconcile"})
Placed(v) == v.run \in Runs /\ v.node \in Nodes

(* What it has to do and what it is about; Q and O are the positions of queue and
   order, N is the number of retained successful checkouts. *)
PlaceOK(v, Q, O, N) ==
    /\ v.pc \in Working \cup {"conflict", "append", "remove", "record"} => Placed(v)
    /\ InCycle(v) => v.quota /\ v.claimed = <<v.run, v.node>>
    /\ InCycle(v) \/ (v.pc = "idle" /\ v.quota) => N <= MaxRetained
    /\ Reconciling(v) => v.cycle = "none" /\ v.todo \subseteq Q
    /\ Sweeping(v) => v.sweep \in Sweeps /\ v.todo \subseteq O
    /\ v.pc = "exited" => v.cycle # "none"

Holding(v, x) == x.active = v.node /\ x.worker = Worker

(* The checkout c of the worker's node and the calls m made for it. *)
Progress(v, c, m, x) ==
    /\ v.pc = "prepare" => c = "unchanged"
    /\ v.pc \in {"dispatch", "propose", "apply"} => v.node \in Writers
    /\ v.pc = "propose" => m < x.calls[v.node]
    /\ v.pc = "apply" => m = 1
    /\ v.pc = "commit" /\ v.node \in Writers => m = 1 /\ c = "dirty"
    /\ v.pc \in {"checks", "succeed"} /\ v.node \in Writers => m = 1 /\ c = "committed"
    /\ v.pc = "record" /\ v.removed => c = "absent"

(* The batch b it is about to append for node n, and where that leads; held: it has
   the lease. *)
Leads(type, n, cycle, ok, err, held) ==
    \/ type = "node.claimed" /\ ok = "create" /\ err = "conflict"
    \/ type = "worktree.prepared" /\ ok = "execute" /\ err = "conflict" /\ held
    \/ type = "dispatch.started" /\ ok = "propose" /\ err = "apiError" /\ held /\ n \in Writers
    \/ /\ type = "node.succeeded" /\ ok = "maintain" /\ err = "apiError" /\ held
       /\ cycle = "node-succeeded"
    \/ type \in Ended /\ ok = "conflict" /\ err = "conflict"
    \/ /\ type \in {"node.failed", "node.reconciliation"} /\ ok = "maintain" /\ err = "down"
       /\ cycle = "node-failed"
    \/ /\ type = "node.canceled" /\ ok = "maintain" /\ err = "conflict"
       /\ cycle = "node-canceled"
    \/ /\ type \in {"node.canceled", "node.reconciliation", "node.requeued"}
       /\ ok = "reconcile" /\ err = "down"
    \/ type = "cleanup.requested" /\ ok = "remove" /\ err = "down"
    \/ type \in {"cleanup.done", "cleanup.failed"} /\ ok \in Sweeps /\ err = "down"

Staged(b, n, c, m) ==
    /\ b \in Batches /\ b[1].node = n /\ TrueEvent(b[1], c, m)
    /\ b[1].type = "node.claimed" => b[1].by = Worker

StagedOK(v, c, m, x) ==
    /\ Staged(v.batch, v.node, c, m)
    /\ Leads(v.batch[1].type, v.node, v.cycle, v.ok, v.err, Holding(v, x))

(* The outcome of its cycle is on record. *)
Reports == {"node-succeeded", "node-failed", "node-canceled"}
Reporting(v) == v.pc \in {"maintain", "exited"} \/ Sweeping(v)
Reported(v, rs) ==
    /\ v.cycle \in Reports \cup {"claim-conflict"} => v.claimed \in Runs \X Nodes
    /\ v.cycle \in Reports =>
          rs[v.claimed[1]].node[v.claimed[2]] \in Outcomes(v.cycle)

WorkerAt(v, rs, dk, ks, Q, O, N) ==
    LET x == rs[v.run]
        c == dk[v.run][rs[v.run].fence[v.node]]
        m == ks[v.run][v.node]
    IN  /\ v \in WorkerState
        /\ PlaceOK(v, Q, O, N)
        /\ v.pc \in Working => Holding(v, x)
        /\ v.pc \in Working \cup {"record"} => Progress(v, c, m, x)
        /\ v.pc = "append" => StagedOK(v, c, m, x)
        /\ Reporting(v) => Reported(v, rs)

(* A pending cancellation. *)
ClientOK(q) ==
    q # NoRequest => q.run \in Runs /\ q.batch \in Batches /\ q.batch[1] \in CancelEvents

(* Everything in order has succeeded, and the quota is exceeded by one at most. *)
OrderOK ==
    /\ order \in Seq(Runs \X Nodes)
    /\ \A i \in DOMAIN order : runs[order[i][1]].node[order[i][2]] = "succeeded"

LedgerOK ==
    /\ runs \in [Runs -> RunState] /\ disk \in [Runs -> Disk] /\ calls \in [Runs -> Calls]
    /\ \A r \in Runs : RunOK(runs[r]) /\ DiskOK(runs[r], disk[r], calls[r])

WorkerInv ==
    /\ LedgerOK
    /\ queue \in Seq(Runs)
    /\ OrderOK
    /\ Cardinality(Candidates) <= MaxRetained + 1
    /\ DOMAIN api = Clients /\ \A c \in Clients : ClientOK(api[c])
    /\ WorkerAt(w, runs, disk, calls, DOMAIN queue, DOMAIN order, Cardinality(Candidates))

----------------------------------------------------------------------------
(* One run, its checkouts and its calls *)

(* What is said of them depends only on what SameWork compares. *)
LEMMA SameKept ==
    ASSUME NEW r, NEW s, SameWork(r, s), NEW d, NEW k
    PROVE  /\ Issued(r) => Issued(s)
           /\ DiskOK(r, d, k) => DiskOK(s, d, k)
  BY DEF SameWork, Issued, DiskOK, WorkKept, RetainedKept, CommittedKept, CallsRecorded

(* A claim leaves behind a checkout without work in it: its node was pending. *)
LEMMA ClaimKept ==
    ASSUME NEW r, Sound(r), Issued(r), NEW e \in Events, Accepts(r, e), e.type = "node.claimed",
           NEW d \in Disk, NEW k \in Calls, DiskOK(r, d, k)
    PROVE  Issued(Apply(r, e)) /\ DiskOK(Apply(r, e), d, k)
<1> DEFINE s == Apply(r, e)
<1>1. r \in RunState
  BY DEF Sound
<1>2. /\ r.active = None /\ r.node[e.node] = "pending" /\ e.fence = r.maxFence + 1
      /\ e.node \in Nodes /\ e.fence \in Tokens
      /\ s.node = [r.node EXCEPT ![e.node] = "claimed"]
      /\ s.fence = [r.fence EXCEPT ![e.node] = e.fence]
      /\ s.retained = r.retained
      /\ s.cleanup = [r.cleanup EXCEPT ![e.node] = "none"]
      /\ s.calls = r.calls
      /\ s.active = e.node /\ s.maxFence = e.fence
  BY <1>1, ClaimEffect
<1>3. /\ r.node \in [Nodes -> NodeStatus] /\ r.fence \in [Nodes -> Nat]
      /\ r.retained \in [Nodes -> BOOLEAN] /\ r.cleanup \in [Nodes -> CleanupStatus]
      /\ r.maxFence \in Nat
  BY <1>1 DEF RunState
<1>4. ~r.retained[e.node] /\ r.node[e.node] # "reconciliation" /\ r.node[e.node] # "succeeded"
  BY <1>2 DEF Sound, SoundRetention, RetentionAt, Done
<1> HIDE DEF s
<1>5. Issued(s)
  BY <1>2, <1>3 DEF Issued
<1>6. WorkKept(s, d)
  <2> SUFFICES ASSUME NEW f \in Tokens, d[f] \in {"dirty", "committed"}
               PROVE  \E n \in Nodes :
                          /\ s.fence[n] = f
                          /\ s.active = n \/ s.retained[n] \/ s.node[n] = "reconciliation"
    BY DEF WorkKept
  <2>1. PICK n \in Nodes : /\ r.fence[n] = f
                           /\ r.active = n \/ r.retained[n] \/ r.node[n] = "reconciliation"
    BY DEF DiskOK, WorkKept
  <2>2. n # e.node
    BY <1>2, <1>4, <2>1, NoneAssumption
  <2> QED
    BY <1>2, <1>3, <2>1, <2>2, NoneAssumption
<1>7. RetainedKept(s, d)
  BY <1>2, <1>3, <1>4 DEF DiskOK, RetainedKept
<1>8. CommittedKept(s, d, k)
  BY <1>2, <1>3, <1>4, WorkerAssumption DEF DiskOK, CommittedKept
<1>9. CallsRecorded(s, k)
  BY <1>2 DEF DiskOK, CallsRecorded
<1> QED
  BY <1>5, <1>6, <1>7, <1>8, <1>9 DEF s, DiskOK

(* A prepared checkout changes nothing of this. *)
LEMMA PreparedKept ==
    ASSUME NEW r, Sound(r), Issued(r), NEW e \in Events, Accepts(r, e),
           e.type = "worktree.prepared", NEW d \in Disk, NEW k \in Calls, DiskOK(r, d, k)
    PROVE  Issued(Apply(r, e)) /\ DiskOK(Apply(r, e), d, k)
<1> DEFINE s == Apply(r, e)
<1>1. r \in RunState
  BY DEF Sound
<1>2. /\ r.active = e.node /\ e.node \in Nodes
      /\ s.node = [r.node EXCEPT ![e.node] = "running"]
      /\ s.fence = r.fence /\ s.retained = r.retained /\ s.cleanup = r.cleanup
      /\ s.calls = r.calls
      /\ s.active = r.active /\ s.maxFence = r.maxFence
  BY <1>1, PreparedEffect
<1>3. r.node \in [Nodes -> NodeStatus] /\ r.node[e.node] \in {"claimed", "running"}
  BY <1>1, <1>2 DEF RunState, Sound, OneLease
<1> HIDE DEF s
<1>5. Issued(s)
  BY <1>2, <1>3 DEF Issued
<1>6. WorkKept(s, d)
  BY <1>2, <1>3 DEF DiskOK, WorkKept
<1>7. RetainedKept(s, d)
  BY <1>2, <1>3 DEF DiskOK, RetainedKept
<1>8. CommittedKept(s, d, k)
  BY <1>2, <1>3, WorkerAssumption DEF DiskOK, CommittedKept
<1>9. CallsRecorded(s, k)
  BY <1>2 DEF DiskOK, CallsRecorded
<1> QED
  BY <1>5, <1>6, <1>7, <1>8, <1>9 DEF s, DiskOK

(* A dispatch is recorded before its call is made. *)
LEMMA DispatchKept ==
    ASSUME NEW r, Sound(r), Issued(r), NEW e \in Events, Accepts(r, e),
           e.type = "dispatch.started", NEW d \in Disk, NEW k \in Calls, DiskOK(r, d, k)
    PROVE  Issued(Apply(r, e)) /\ DiskOK(Apply(r, e), d, k)
<1> DEFINE s == Apply(r, e)
<1>1. r \in RunState /\ r.calls \in [Nodes -> Nat]
  BY DEF Sound, RunState
<1>2. /\ r.active = e.node /\ e.node \in Nodes /\ r.calls[e.node] = 0
      /\ s.calls = [r.calls EXCEPT ![e.node] = 1]
      /\ s.node = r.node
      /\ s.fence = r.fence /\ s.retained = r.retained /\ s.cleanup = r.cleanup
      /\ s.active = r.active /\ s.maxFence = r.maxFence
  BY DispatchEffect
<1> HIDE DEF s
<1>5. Issued(s) /\ WorkKept(s, d) /\ RetainedKept(s, d) /\ CommittedKept(s, d, k)
  BY <1>2 DEF Issued, DiskOK, WorkKept, RetainedKept, CommittedKept
<1>9. CallsRecorded(s, k)
  <2> SUFFICES ASSUME NEW n \in Nodes PROVE k[n] <= s.calls[n]
    BY DEF CallsRecorded
  <2>1. k[n] \in Nat /\ k[n] <= r.calls[n]
    BY DEF Calls, DiskOK, CallsRecorded
  <2>2. CASE n = e.node
    BY <1>1, <1>2, <2>1, <2>2
  <2>3. CASE n # e.node
    BY <1>1, <1>2, <2>1, <2>3
  <2> QED
    BY <2>2, <2>3
<1> QED
  BY <1>5, <1>9 DEF s, DiskOK

(* An outcome that is true of its checkout leaves no work unaccounted for. *)
LEMMA OutcomeKept ==
    ASSUME NEW r, Sound(r), Issued(r), NEW e \in Events, Accepts(r, e),
           e.type \in LeaseOutcomes, NEW d \in Disk, NEW k \in Calls, DiskOK(r, d, k),
           TrueEvent(e, d[r.fence[e.node]], k[e.node])
    PROVE  Issued(Apply(r, e)) /\ DiskOK(Apply(r, e), d, k)
<1> DEFINE s == Apply(r, e)
           c == d[r.fence[e.node]]
<1>1. r \in RunState
  BY DEF Sound
<1>2. /\ r.active = e.node /\ e.node \in Nodes /\ ~r.retained[e.node]
      /\ OutcomeIs(e.type, s.node[e.node])
      /\ \A n \in Nodes : n # e.node => s.node[n] = r.node[n]
      /\ s.fence = r.fence /\ s.calls = r.calls /\ s.maxFence = r.maxFence
      /\ \A n \in Nodes : n # e.node => s.retained[n] = r.retained[n]
      /\ \A n \in Nodes : n # e.node => s.cleanup[n] = r.cleanup[n]
      /\ e.type = "node.succeeded" => s.retained[e.node] /\ s.cleanup[e.node] = "eligible"
      /\ e.type = "node.requeued" => ~s.retained[e.node]
      /\ e.type \in {"node.failed", "node.canceled", "node.reconciliation"} =>
            (s.retained[e.node] <=> e.insp # "none")
      /\ s.active = None
  BY OutcomeEffect
<1>3. /\ r.node \in [Nodes -> NodeStatus] /\ r.node[e.node] \in {"claimed", "running"}
      /\ r.fence \in [Nodes -> Nat] /\ r.active \in Nodes
  BY <1>1, <1>2, NoneAssumption DEF RunState, Sound, OneLease
<1>4. /\ c \in {"dirty", "committed"} => s.retained[e.node] \/ s.node[e.node] = "reconciliation"
      /\ s.retained[e.node] => c # "absent"
      /\ s.node[e.node] = "succeeded" => e.type = "node.succeeded"
  <2>1. TrueEvent(e, c, k[e.node])
    OBVIOUS
  <2> HIDE DEF s, c
  <2>2. CASE e.type = "node.succeeded"
    BY <1>2, <2>1, <2>2 DEF TrueEvent, OutcomeIs
  <2>3. CASE e.type = "node.requeued"
    BY <1>2, <2>1, <2>3 DEF TrueEvent, OutcomeIs
  <2>4. CASE e.type \in Ended
    <3>1. e.insp \in Inspection
      BY <2>4 DEF Ended, Events, ClaimEvents, WorkerEvents, LeaseEvents, CleanupEvents,
                  RunEvents, CancelEvents
    <3> QED
      BY <1>2, <2>1, <2>4, <3>1 DEF TrueEvent, Inspected, Inspection, Ended, OutcomeIs
  <2> QED
    BY <2>2, <2>3, <2>4 DEF LeaseOutcomes, Ended
<1> HIDE DEF s
<1>5. Issued(s)
  BY <1>2, <1>3 DEF Issued
<1>6. WorkKept(s, d)
  <2> SUFFICES ASSUME NEW f \in Tokens, d[f] \in {"dirty", "committed"}
               PROVE  \E n \in Nodes :
                          s.fence[n] = f /\ (s.retained[n] \/ s.node[n] = "reconciliation")
    BY DEF WorkKept
  <2>1. PICK n \in Nodes : /\ r.fence[n] = f
                           /\ r.active = n \/ r.retained[n] \/ r.node[n] = "reconciliation"
    BY DEF DiskOK, WorkKept
  <2>2. CASE n = e.node
    BY <1>2, <1>4, <2>1, <2>2
  <2>3. CASE n # e.node
    BY <1>2, <1>3, <2>1, <2>3
  <2> QED
    BY <2>2, <2>3
<1>7. RetainedKept(s, d)
  <2> SUFFICES ASSUME NEW n \in Nodes, s.retained[n], s.cleanup[n] # "requested"
               PROVE  d[s.fence[n]] # "absent"
    BY DEF RetainedKept
  <2>1. CASE n = e.node
    BY <1>2, <1>4, <2>1
  <2>2. CASE n # e.node
    BY <1>2, <2>2 DEF DiskOK, RetainedKept
  <2> QED
    BY <2>1, <2>2
<1>8. CommittedKept(s, d, k)
  <2> SUFFICES ASSUME NEW n \in Writers, s.node[n] = "succeeded"
               PROVE  k[n] = 1 /\ (s.cleanup[n] = "eligible" => d[s.fence[n]] = "committed")
    BY DEF CommittedKept
  <2>0. n \in Nodes
    BY WorkerAssumption
  <2>1. CASE n = e.node
    BY <1>2, <1>4, <2>1 DEF TrueEvent
  <2>2. CASE n # e.node
    BY <1>2, <1>3, <2>0, <2>2 DEF DiskOK, CommittedKept
  <2> QED
    BY <2>1, <2>2
<1>9. CallsRecorded(s, k)
  BY <1>2 DEF DiskOK, CallsRecorded
<1> QED
  BY <1>5, <1>6, <1>7, <1>8, <1>9 DEF s, DiskOK

(* A cleanup result that is true of the checkout keeps the record of it true. *)
LEMMA CleanupKept ==
    ASSUME NEW r, Sound(r), Issued(r), NEW e \in Events, Accepts(r, e),
           e.type \in Cleanups, NEW d \in Disk, NEW k \in Calls, DiskOK(r, d, k),
           TrueEvent(e, d[r.fence[e.node]], k[e.node])
    PROVE  Issued(Apply(r, e)) /\ DiskOK(Apply(r, e), d, k)
<1> DEFINE s == Apply(r, e)
           c == d[r.fence[e.node]]
<1>1. r \in RunState
  BY DEF Sound
<1>2. /\ e.node \in Nodes /\ r.node[e.node] = "succeeded" /\ r.retained[e.node]
      /\ s.node = r.node /\ s.fence = r.fence /\ s.calls = r.calls
      /\ s.maxFence = r.maxFence /\ s.active = r.active
      /\ \A n \in Nodes : n # e.node => s.retained[n] = r.retained[n]
      /\ \A n \in Nodes : n # e.node => s.cleanup[n] = r.cleanup[n]
      /\ e.type = "cleanup.requested" => s.retained[e.node] /\ s.cleanup[e.node] = "requested"
      /\ e.type = "cleanup.done" => ~s.retained[e.node] /\ s.cleanup[e.node] = "cleaned"
      /\ e.type = "cleanup.failed" =>
            (s.retained[e.node] <=> e.retained) /\ s.cleanup[e.node] = "failed"
  BY <1>1, CleanupEffect DEF Cleanups
<1>4. /\ c # "absent" => s.retained[e.node]
      /\ s.retained[e.node] /\ s.cleanup[e.node] # "requested" => c # "absent"
      /\ s.cleanup[e.node] # "eligible"
  BY <1>2 DEF TrueEvent, Cleanups
<1> HIDE DEF s
<1>5. Issued(s)
  BY <1>2 DEF Issued
<1>6. WorkKept(s, d)
  <2> SUFFICES ASSUME NEW f \in Tokens, d[f] \in {"dirty", "committed"}
               PROVE  \E n \in Nodes :
                          /\ s.fence[n] = f
                          /\ s.active = n \/ s.retained[n] \/ s.node[n] = "reconciliation"
    BY DEF WorkKept
  <2>1. PICK n \in Nodes : /\ r.fence[n] = f
                           /\ r.active = n \/ r.retained[n] \/ r.node[n] = "reconciliation"
    BY DEF DiskOK, WorkKept
  <2>2. CASE n = e.node
    BY <1>2, <1>4, <2>1, <2>2
  <2>3. CASE n # e.node
    BY <1>2, <2>1, <2>3
  <2> QED
    BY <2>2, <2>3
<1>7. RetainedKept(s, d)
  <2> SUFFICES ASSUME NEW n \in Nodes, s.retained[n], s.cleanup[n] # "requested"
               PROVE  d[s.fence[n]] # "absent"
    BY DEF RetainedKept
  <2>1. CASE n = e.node
    BY <1>2, <1>4, <2>1
  <2>2. CASE n # e.node
    BY <1>2, <2>2 DEF DiskOK, RetainedKept
  <2> QED
    BY <2>1, <2>2
<1>8. CommittedKept(s, d, k)
  <2> SUFFICES ASSUME NEW n \in Writers, s.node[n] = "succeeded"
               PROVE  k[n] = 1 /\ (s.cleanup[n] = "eligible" => d[s.fence[n]] = "committed")
    BY DEF CommittedKept
  <2>0. n \in Nodes
    BY WorkerAssumption
  <2>1. CASE n = e.node
    BY <1>2, <1>4, <2>1 DEF DiskOK, CommittedKept
  <2>2. CASE n # e.node
    BY <1>2, <2>0, <2>2 DEF DiskOK, CommittedKept
  <2> QED
    BY <2>1, <2>2
<1>9. CallsRecorded(s, k)
  BY <1>2 DEF DiskOK, CallsRecorded
<1> QED
  BY <1>5, <1>6, <1>7, <1>8, <1>9 DEF s, DiskOK

(* A batch whose first event is true of the checkout keeps all of it. *)
LEMMA BatchKept ==
    ASSUME NEW r, RunOK(r), NEW b \in Batches, AcceptsBatch(r, b),
           NEW d \in Disk, NEW k \in Calls, DiskOK(r, d, k),
           b[1].type # "run.cancel-requested" => TrueEvent(b[1], d[r.fence[b[1].node]], k[b[1].node])
    PROVE  RunOK(FoldBatch(r, b)) /\ DiskOK(FoldBatch(r, b), d, k)
<1> DEFINE e == b[1]
           s == FoldBatch(r, b)
<1>1. Sound(r) /\ Issued(r)
  BY DEF RunOK
<1>2. e \in Events /\ Accepts(r, e) /\ SameWork(Apply(r, e), s)
  BY <1>1, BatchEffect
<1>3. Sound(s) /\ Complete(s)
  BY <1>1, BatchGrows, GrowsSound
<1>4. Issued(Apply(r, e)) /\ DiskOK(Apply(r, e), d, k)
  <2> HIDE DEF e
  <2>1. EventAccepted(r, e) /\ r \in RunState
    BY <1>1, <1>2 DEF Accepts, Sound
  <2>2. CASE e.type = "node.claimed"
    BY <1>1, <1>2, <2>2, ClaimKept
  <2>3. CASE e.type = "worktree.prepared"
    BY <1>1, <1>2, <2>3, PreparedKept
  <2>4. CASE e.type = "dispatch.started"
    BY <1>1, <1>2, <2>4, DispatchKept
  <2>5. CASE e.type \in LeaseOutcomes
    BY <1>1, <1>2, <2>5, OutcomeKept DEF e, LeaseOutcomes
  <2>6. CASE e.type \in Cleanups
    BY <1>1, <1>2, <2>6, CleanupKept DEF e, Cleanups
  <2>7. CASE e.type \in {"run.cancel-requested", "run.succeeded", "run.failed", "run.canceled",
                        "run.reconciliation"}
    <3>1. e \in RunEvents \cup CancelEvents
      BY <1>2, <2>7 DEF Events, ClaimEvents, WorkerEvents, LeaseEvents, CleanupEvents
    <3> QED
      BY <1>1, <2>1, <3>1, RunEffect, SameKept
  <2> QED
    BY <2>1, <2>2, <2>3, <2>4, <2>5, <2>6, <2>7 DEF EventAccepted, LeaseOutcomes, Cleanups
<1> HIDE DEF s
<1>5. Issued(s) /\ DiskOK(s, d, k)
  BY <1>2, <1>4, SameKept
<1> QED
  BY <1>3, <1>5 DEF RunOK, s

(* Writing to the checkout of the active lease, or to one whose removal is requested,
   hides no work and takes away nothing that is recorded. *)
LEMMA WriteKept ==
    ASSUME NEW x, RunOK(x), NEW d \in Disk, NEW k \in Calls, DiskOK(x, d, k),
           NEW n \in Nodes, NEW c \in Checkout,
           \/ x.active = n
           \/ x.node[n] = "succeeded" /\ x.retained[n] /\ x.cleanup[n] = "requested"
    PROVE  /\ x.fence[n] \in Tokens
           /\ [d EXCEPT ![x.fence[n]] = c] \in Disk
           /\ DiskOK(x, [d EXCEPT ![x.fence[n]] = c], k)
<1> DEFINE f == x.fence[n]
           b == [d EXCEPT ![f] = c]
<1>1. /\ x \in RunState /\ x.fence \in [Nodes -> Nat]
      /\ x.node[n] # "pending"
      /\ x.active = n => x.node[n] \in {"claimed", "running"}
  BY DEF RunOK, Sound, RunState, OneLease
<1>2. f \in Tokens /\ f > 0
  BY <1>1 DEF RunOK, Issued, Tokens
<1>3. \A m \in Nodes : m # n => x.fence[m] # f
  BY <1>2 DEF RunOK, Sound, UniqueFences
<1>4. /\ b \in Disk /\ b[f] = c
      /\ \A h : h # f /\ h \in Tokens => b[h] = d[h]
      /\ \A m \in Nodes : m # n => b[x.fence[m]] = d[x.fence[m]]
  BY <1>2, <1>3 DEF Disk
<1>5. x.active = n => ~x.retained[n] /\ x.node[n] # "succeeded"
  BY <1>1 DEF RunOK, Sound, SoundRetention, RetentionAt, Done
<1>6. x.retained[n] \/ x.active = n
  OBVIOUS
<1>7. /\ x.retained[n] => x.cleanup[n] = "requested"
      /\ x.node[n] = "succeeded" => x.cleanup[n] = "requested"
  BY <1>5
<1> HIDE DEF b, f
<1>8. WorkKept(x, b)
  <2> SUFFICES ASSUME NEW h \in Tokens, b[h] \in {"dirty", "committed"}
               PROVE  \E m \in Nodes :
                          /\ x.fence[m] = h
                          /\ x.active = m \/ x.retained[m] \/ x.node[m] = "reconciliation"
    BY DEF WorkKept
  <2>1. CASE h = f
    BY <1>6, <2>1 DEF f
  <2>2. CASE h # f
    BY <1>4, <2>2 DEF DiskOK, WorkKept
  <2> QED
    BY <2>1, <2>2
<1>9. RetainedKept(x, b)
  BY <1>4, <1>7 DEF DiskOK, RetainedKept
<1>10. CommittedKept(x, b, k)
  <2> SUFFICES ASSUME NEW m \in Writers, x.node[m] = "succeeded"
               PROVE  k[m] = 1 /\ (x.cleanup[m] = "eligible" => b[x.fence[m]] = "committed")
    BY DEF CommittedKept
  <2>1. m \in Nodes /\ k[m] = 1 /\ (x.cleanup[m] = "eligible" => d[x.fence[m]] = "committed")
    BY WorkerAssumption DEF DiskOK, CommittedKept
  <2> QED
    BY <1>4, <1>7, <2>1
<1> QED
  BY <1>2, <1>4, <1>8, <1>9, <1>10 DEF DiskOK, b, f

(* A call that is on record may be made. *)
LEMMA CallKept ==
    ASSUME NEW x, RunOK(x), NEW d, NEW k \in Calls, DiskOK(x, d, k),
           NEW n \in Nodes, x.active = n, k[n] < x.calls[n]
    PROVE  /\ [k EXCEPT ![n] = @ + 1] \in Calls
           /\ [k EXCEPT ![n] = @ + 1][n] = 1
           /\ DiskOK(x, d, [k EXCEPT ![n] = @ + 1])
<1> DEFINE b == [k EXCEPT ![n] = @ + 1]
<1>1. x.calls \in [Nodes -> Nat] /\ x.calls[n] <= 1 /\ x.node[n] \in {"claimed", "running"}
  BY DEF RunOK, Sound, RunState, DispatchedOnce, OneLease
<1>2. k[n] \in Nat /\ x.calls[n] \in Nat
  BY <1>1 DEF Calls
<1>3. k[n] = 0 /\ x.calls[n] = 1
  BY <1>1, <1>2
<1>4. b = [k EXCEPT ![n] = 1]
  BY <1>3
<1>5. b \in Calls /\ b[n] = 1 /\ \A m \in Nodes : m # n => b[m] = k[m]
  BY <1>4 DEF Calls
<1> HIDE DEF b
<1>6. CommittedKept(x, d, b)
  BY <1>1, <1>5, WorkerAssumption DEF DiskOK, CommittedKept
<1>7. CallsRecorded(x, b)
  <2> SUFFICES ASSUME NEW m \in Nodes PROVE b[m] <= x.calls[m]
    BY DEF CallsRecorded
  <2>1. CASE m = n
    BY <1>3, <1>5, <2>1
  <2>2. CASE m # n
    BY <1>5, <2>2 DEF DiskOK, CallsRecorded
  <2> QED
    BY <2>1, <2>2
<1> QED
  BY <1>5, <1>6, <1>7 DEF DiskOK, b

----------------------------------------------------------------------------
(* The worker *)

(* Its knowledge is not affected by a cancellation, a submission, or a success of which
   it keeps count. *)
LEMMA WorkerStays ==
    ASSUME NEW v, NEW rs, NEW dk, NEW ks, NEW Q, NEW O, NEW N,
           WorkerAt(v, rs, dk, ks, Q, O, N),
           NEW qs, \A r \in Runs : SameWork(rs[r], qs[r]),
           NEW P, Q \subseteq P
    PROVE  WorkerAt(v, qs, dk, ks, P, O, N)
<1>1. v.pc \in Working \cup {"append", "record"} => v.run \in Runs
  BY DEF WorkerAt, PlaceOK, Placed
<1>2. v.run \in Runs =>
          /\ qs[v.run].fence = rs[v.run].fence /\ qs[v.run].active = rs[v.run].active
          /\ qs[v.run].worker = rs[v.run].worker /\ qs[v.run].calls = rs[v.run].calls
  BY DEF SameWork
<1>3. PlaceOK(v, P, O, N)
  BY DEF WorkerAt, PlaceOK
<1>4. Reporting(v) => Reported(v, qs)
  BY DEF WorkerAt, Reported, SameWork
<1>5. v.pc \in Working => Holding(v, qs[v.run])
  BY <1>1, <1>2 DEF WorkerAt, Holding
<1>6. v.pc \in Working \cup {"record"} =>
          Progress(v, dk[v.run][qs[v.run].fence[v.node]], ks[v.run][v.node], qs[v.run])
  BY <1>1, <1>2 DEF WorkerAt, Progress
<1>7. v.pc = "append" =>
          StagedOK(v, dk[v.run][qs[v.run].fence[v.node]], ks[v.run][v.node], qs[v.run])
  BY <1>1, <1>2 DEF WorkerAt, StagedOK, Holding
<1> QED
  BY <1>3, <1>4, <1>5, <1>6, <1>7 DEF WorkerAt

(* Within its cycle it keeps its lease: all it must know at the next place is what
   Progress says of that place. *)
LEMMA Moves ==
    ASSUME NEW v, NEW rs, NEW dk, NEW ks, NEW Q, NEW O, NEW N,
           WorkerAt(v, rs, dk, ks, Q, O, N), v.pc \in Working,
           NEW p \in Working, NEW dj, NEW kj,
           Progress([v EXCEPT !.pc = p], dj[v.run][rs[v.run].fence[v.node]], kj[v.run][v.node],
                    rs[v.run])
    PROVE  WorkerAt([v EXCEPT !.pc = p], rs, dj, kj, Q, O, N)
<1> DEFINE y == [v EXCEPT !.pc = p]
<1>1. v \in WorkerState /\ p \in Control
  BY DEF WorkerAt, Working, Control
<1>2. /\ y \in WorkerState /\ y.pc = p /\ y.run = v.run /\ y.node = v.node
      /\ y.quota = v.quota /\ y.claimed = v.claimed
  BY <1>1 DEF WorkerState
<1>3. Progress(y, dj[y.run][rs[y.run].fence[y.node]], kj[y.run][y.node], rs[y.run])
  BY <1>2
<1> HIDE DEF y
<1>4. PlaceOK(y, Q, O, N)
  BY <1>2 DEF WorkerAt, PlaceOK, InCycle, Placed, Working, Reconciling, Sweeping
<1>5. Holding(y, rs[y.run])
  BY <1>2 DEF WorkerAt, Holding
<1>6. ~Reporting(y) /\ y.pc # "append"
  BY <1>2 DEF Reporting, Sweeping, Working
<1> QED
  BY <1>2, <1>3, <1>4, <1>5, <1>6 DEF WorkerAt, y

(* A cycle that ends without an outcome. *)
LEMMA Conflicts ==
    ASSUME NEW v, NEW rs, NEW dk, NEW ks, NEW Q, NEW O, NEW N,
           WorkerAt(v, rs, dk, ks, Q, O, N), v.pc \in Working
    PROVE  WorkerAt([v EXCEPT !.pc = "conflict"], rs, dk, ks, Q, O, N)
<1> DEFINE y == [v EXCEPT !.pc = "conflict"]
<1>1. v \in WorkerState
  BY DEF WorkerAt
<1>2. /\ y \in WorkerState /\ y.pc = "conflict" /\ y.run = v.run /\ y.node = v.node
      /\ y.quota = v.quota /\ y.claimed = v.claimed
  BY <1>1 DEF WorkerState, Control
<1> HIDE DEF y
<1>4. PlaceOK(y, Q, O, N)
  BY <1>2 DEF WorkerAt, PlaceOK, InCycle, Placed, Working, Reconciling, Sweeping
<1>6. ~Reporting(y) /\ y.pc # "append" /\ y.pc \notin Working \cup {"record"}
  BY <1>2 DEF Reporting, Sweeping, Working
<1> QED
  BY <1>2, <1>4, <1>6 DEF WorkerAt, y

(* A batch staged within the cycle. *)
LEMMA Stages ==
    ASSUME NEW v, NEW rs, NEW dk, NEW ks, NEW Q, NEW O, NEW N,
           WorkerAt(v, rs, dk, ks, Q, O, N), v.pc \in Working,
           NEW y \in WorkerState, y.pc = "append", y.run = v.run, y.node = v.node,
           y.quota = v.quota, y.claimed = v.claimed,
           y.ok \in Working \cup {"conflict", "maintain"},
           StagedOK(y, dk[v.run][rs[v.run].fence[v.node]], ks[v.run][v.node], rs[v.run])
    PROVE  WorkerAt(y, rs, dk, ks, Q, O, N)
<1>1. PlaceOK(y, Q, O, N)
  BY DEF WorkerAt, PlaceOK, InCycle, Placed, Working, Reconciling, Sweeping
<1>2. ~Reporting(y) /\ y.pc \notin Working \cup {"record"}
  BY DEF Reporting, Sweeping, Working
<1> QED
  BY <1>1, <1>2 DEF WorkerAt

----------------------------------------------------------------------------
(* The batches the worker builds *)

LEMMA Tuples ==
    ASSUME NEW e \in Events
    PROVE  /\ <<e>> \in Batches /\ <<e>>[1] = e
           /\ \A f \in RunEvents : <<e, f>> \in Batches /\ <<e, f>>[1] = e
  BY DEF Batches, Events

(* What ends a lease, and what hands it back. *)
LEMMA LeaseBatches ==
    ASSUME NEW r \in Runs, NEW n \in Nodes, runs[r].fence[n] \in Tokens,
           NEW insp \in Inspection, NEW c, NEW m
    PROVE  /\ (insp # "none" => c = insp) /\ (insp = "none" => c = "absent") =>
                 /\ Staged(FailureBatch(r, n, insp), n, c, m)
                 /\ FailureBatch(r, n, insp)[1].type = "node.failed"
           /\ (insp # "none" => c = insp) /\ (insp = "none" => c = "absent") =>
                 /\ Staged(CanceledBatch(r, n, insp), n, c, m)
                 /\ CanceledBatch(r, n, insp)[1].type = "node.canceled"
           /\ c = "absent" =>
                 /\ Staged(MissingCanceledBatch(r, n), n, c, m)
                 /\ MissingCanceledBatch(r, n)[1].type = "node.canceled"
           /\ (insp # "none" => c = insp) =>
                 /\ Staged(ReconciliationBatch(r, n, insp), n, c, m)
                 /\ ReconciliationBatch(r, n, insp)[1].type = "node.reconciliation"
           /\ c \notin {"dirty", "committed"} =>
                 /\ Staged(RequeueBatch(r, n, insp), n, c, m)
                 /\ RequeueBatch(r, n, insp)[1].type = "node.requeued"
<1> USE DEF Staged, TrueEvent, Inspected, Ended
<1>1. \A type \in {"run.failed", "run.canceled", "run.reconciliation"}, b \in BOOLEAN :
          RunEvent(type, b) \in RunEvents
  BY DEF RunEvent, RunEvents
<1>2. (insp # "none" => c = insp) /\ (insp = "none" => c = "absent") =>
          /\ Staged(FailureBatch(r, n, insp), n, c, m)
          /\ FailureBatch(r, n, insp)[1].type = "node.failed"
  <2> DEFINE e == WorkerEvent("node.failed", r, n, insp)
  <2>1. e \in Events /\ e.type = "node.failed" /\ e.node = n /\ e.insp = insp
    BY WorkerAssumption DEF WorkerEvent, Events, WorkerEvents
  <2>2. FailureBatch(r, n, insp) = <<e, RunEvent("run.failed", insp # "none")>>
    BY DEF FailureBatch
  <2> DEFINE f == RunEvent("run.failed", insp # "none")
  <2>3. f \in RunEvents
    BY DEF RunEvent, RunEvents
  <2> HIDE DEF e, f
  <2>4. FailureBatch(r, n, insp) \in Batches /\ FailureBatch(r, n, insp)[1] = e
    BY <2>1, <2>2, <2>3, Tuples DEF f
  <2> QED
    BY <2>1, <2>4
<1>3. (insp # "none" => c = insp) /\ (insp = "none" => c = "absent") =>
          /\ Staged(CanceledBatch(r, n, insp), n, c, m)
          /\ CanceledBatch(r, n, insp)[1].type = "node.canceled"
  <2> DEFINE e == LeaseEvent("node.canceled", r, n, insp)
  <2>1. e \in Events /\ e.type = "node.canceled" /\ e.node = n /\ e.insp = insp
    BY DEF LeaseEvent, Events, LeaseEvents
  <2>2. CanceledBatch(r, n, insp) = <<e, RunEvent("run.canceled", TRUE)>>
    BY DEF CanceledBatch
  <2> HIDE DEF e
  <2>3. CanceledBatch(r, n, insp) \in Batches /\ CanceledBatch(r, n, insp)[1] = e
    BY <1>1, <2>1, <2>2, Tuples
  <2> QED
    BY <2>1, <2>3
<1>4. c = "absent" =>
          /\ Staged(MissingCanceledBatch(r, n), n, c, m)
          /\ MissingCanceledBatch(r, n)[1].type = "node.canceled"
  <2> DEFINE e == LeaseEvent("node.canceled", r, n, "none")
  <2>1. e \in Events /\ e.type = "node.canceled" /\ e.node = n /\ e.insp = "none"
    BY DEF LeaseEvent, Events, LeaseEvents, Inspection
  <2>2. MissingCanceledBatch(r, n) = <<e, RunEvent("run.canceled", FALSE)>>
    BY DEF MissingCanceledBatch
  <2> HIDE DEF e
  <2>3. MissingCanceledBatch(r, n) \in Batches /\ MissingCanceledBatch(r, n)[1] = e
    BY <1>1, <2>1, <2>2, Tuples
  <2> QED
    BY <2>1, <2>3
<1>5. (insp # "none" => c = insp) =>
          /\ Staged(ReconciliationBatch(r, n, insp), n, c, m)
          /\ ReconciliationBatch(r, n, insp)[1].type = "node.reconciliation"
  <2> DEFINE e == LeaseEvent("node.reconciliation", r, n, insp)
  <2>1. e \in Events /\ e.type = "node.reconciliation" /\ e.node = n /\ e.insp = insp
    BY DEF LeaseEvent, Events, LeaseEvents
  <2>2. ReconciliationBatch(r, n, insp) = <<e, RunEvent("run.reconciliation", insp # "none")>>
    BY DEF ReconciliationBatch
  <2> DEFINE f == RunEvent("run.reconciliation", insp # "none")
  <2>3. f \in RunEvents
    BY DEF RunEvent, RunEvents
  <2> HIDE DEF e, f
  <2>4. ReconciliationBatch(r, n, insp) \in Batches /\ ReconciliationBatch(r, n, insp)[1] = e
    BY <2>1, <2>2, <2>3, Tuples DEF f
  <2> QED
    BY <2>1, <2>4
<1>6. c \notin {"dirty", "committed"} =>
          /\ Staged(RequeueBatch(r, n, insp), n, c, m)
          /\ RequeueBatch(r, n, insp)[1].type = "node.requeued"
  <2> DEFINE e == LeaseEvent("node.requeued", r, n, insp)
  <2>1. e \in Events /\ e.type = "node.requeued" /\ e.node = n
    BY DEF LeaseEvent, Events, LeaseEvents
  <2>2. RequeueBatch(r, n, insp) = <<e>>
    BY DEF RequeueBatch
  <2> HIDE DEF e
  <2>3. RequeueBatch(r, n, insp) \in Batches /\ RequeueBatch(r, n, insp)[1] = e
    BY <2>1, <2>2, Tuples
  <2> QED
    BY <2>1, <2>3
<1> QED
  BY <1>2, <1>3, <1>4, <1>5, <1>6

(* What a worker records of its own lease. *)
LEMMA WorkerBatches ==
    ASSUME NEW r \in Runs, NEW n \in Nodes, runs[r].fence[n] \in Tokens,
           NEW insp \in Inspection, NEW c, NEW m
    PROVE  /\ \A type \in {"worktree.prepared", "dispatch.started"} :
                 /\ Staged(<<WorkerEvent(type, r, n, insp)>>, n, c, m)
                 /\ <<WorkerEvent(type, r, n, insp)>>[1].type = type
           /\ c # "absent" /\ (n \in Writers => m = 1 /\ c = "committed") =>
                 /\ Staged(SuccessBatch(r, n, insp), n, c, m)
                 /\ SuccessBatch(r, n, insp)[1].type = "node.succeeded"
<1> USE DEF Staged, TrueEvent, Ended
<1>1. \A type \in {"worktree.prepared", "dispatch.started", "node.succeeded"} :
          LET e == WorkerEvent(type, r, n, insp)
          IN  e \in Events /\ e.type = type /\ e.node = n
  BY WorkerAssumption DEF WorkerEvent, Events, WorkerEvents
<1>2. ASSUME NEW type \in {"worktree.prepared", "dispatch.started"}
      PROVE  /\ Staged(<<WorkerEvent(type, r, n, insp)>>, n, c, m)
             /\ <<WorkerEvent(type, r, n, insp)>>[1].type = type
  <2> DEFINE e == WorkerEvent(type, r, n, insp)
  <2>1. e \in Events /\ e.type = type /\ e.node = n
    BY <1>1
  <2> HIDE DEF e
  <2>2. <<e>> \in Batches /\ <<e>>[1] = e
    BY <2>1, Tuples
  <2>3. Staged(<<e>>, n, c, m) /\ <<e>>[1].type = type
    BY <2>1, <2>2
  <2> QED
    BY <2>3 DEF e
<1>3. ASSUME c # "absent", n \in Writers => m = 1 /\ c = "committed"
      PROVE  /\ Staged(SuccessBatch(r, n, insp), n, c, m)
             /\ SuccessBatch(r, n, insp)[1].type = "node.succeeded"
  <2> DEFINE e == WorkerEvent("node.succeeded", r, n, insp)
             f == RunEvent("run.succeeded", TRUE)
  <2>1. e \in Events /\ e.type = "node.succeeded" /\ e.node = n
    BY <1>1
  <2>2. f \in RunEvents
    BY DEF RunEvent, RunEvents
  <2>3. SuccessBatch(r, n, insp) = <<e, f>> \/ SuccessBatch(r, n, insp) = <<e>>
    BY DEF SuccessBatch
  <2> HIDE DEF e, f
  <2>4. SuccessBatch(r, n, insp) \in Batches /\ SuccessBatch(r, n, insp)[1] = e
    BY <2>1, <2>2, <2>3, Tuples
  <2> QED
    BY <1>3, <2>1, <2>4
<1> QED
  BY <1>2, <1>3

(* What it records of a cleanup. *)
LEMMA CleanupBatches ==
    ASSUME NEW r \in Runs, NEW n \in Nodes, runs[r].fence[n] \in Tokens,
           NEW kept \in BOOLEAN, NEW c, NEW m
    PROVE  /\ /\ Staged(<<CleanupEvent("cleanup.requested", r, n, kept)>>, n, c, m)
              /\ <<CleanupEvent("cleanup.requested", r, n, kept)>>[1].type = "cleanup.requested"
           /\ c = "absent" =>
                 /\ Staged(<<CleanupEvent("cleanup.done", r, n, kept)>>, n, c, m)
                 /\ <<CleanupEvent("cleanup.done", r, n, kept)>>[1].type = "cleanup.done"
           /\ (kept <=> c # "absent") =>
                 /\ Staged(<<CleanupEvent("cleanup.failed", r, n, kept)>>, n, c, m)
                 /\ <<CleanupEvent("cleanup.failed", r, n, kept)>>[1].type = "cleanup.failed"
<1>1. \A type \in Cleanups : CleanupEvent(type, r, n, kept) \in Events
  BY DEF CleanupEvent, Events, CleanupEvents, Cleanups
<1> QED
  BY <1>1 DEF Staged, TrueEvent, Ended, Batches, CleanupEvent, Cleanups

(* A claim takes the next token. *)
LEMMA ClaimBatches ==
    ASSUME NEW r \in Runs, NEW n \in Nodes, RunOK(runs[r]), NewestFence(runs[r]) < MaxFence,
           NEW c, NEW m
    PROVE  Staged(ClaimBatch(r, n), n, c, m) /\ ClaimBatch(r, n)[1].type = "node.claimed"
<1> DEFINE x == runs[r]
           F == {x.fence[k] : k \in Nodes}
<1>1. /\ x.fence \in [Nodes -> Nat] /\ x.attempts \in [Nodes -> Nat] /\ x.maxFence \in Nat
      /\ \A k \in Nodes : x.fence[k] <= x.maxFence /\ x.attempts[k] <= x.fence[k]
      /\ \E k \in Nodes : x.fence[k] = x.maxFence
  BY DEF RunOK, Sound, RunState, UniqueFences, Issued
<1>2. NewestFence(x) = x.maxFence
  <2>1. x.maxFence \in F /\ \A f \in F : x.maxFence >= f
    BY <1>1
  <2>2. \A f \in F : (\A h \in F : f >= h) => f = x.maxFence
    BY <1>1, <2>1
  <2> HIDE DEF F, x
  <2>3. (CHOOSE f \in F : \A h \in F : f >= h) = x.maxFence
    BY <2>1, <2>2
  <2> QED
    BY <2>3 DEF NewestFence, Max, F
<1>3. x.maxFence + 1 \in Tokens /\ x.attempts[n] + 1 \in Tokens
  <2>1. x.maxFence < MaxFence
    BY <1>2
  <2>2. x.attempts[n] \in Nat /\ x.fence[n] \in Nat /\ x.attempts[n] <= x.fence[n]
        /\ x.fence[n] <= x.maxFence
    BY <1>1
  <2> HIDE DEF x
  <2> QED
    BY <1>1, <2>1, <2>2, BoundsAssumption DEF Tokens
<1>4. ClaimBatch(r, n)[1] \in Events /\ ClaimBatch(r, n) \in Seq(Events)
  BY <1>2, <1>3, WorkerAssumption DEF ClaimBatch, Events, ClaimEvents
<1> QED
  BY <1>4 DEF Staged, TrueEvent, Ended, Batches, ClaimBatch

----------------------------------------------------------------------------
(* The steps of the cycle that change nothing but the worker *)

Knows(v) ==
    WorkerAt(v, runs, disk, calls, DOMAIN queue, DOMAIN order, Cardinality(Candidates))

(* What is known at work. *)
LEMMA AtWork ==
    ASSUME WorkerInv, w.pc \in Working
    PROVE  /\ w \in WorkerState /\ w.run \in Runs /\ w.node \in Nodes /\ Holds
           /\ RunOK(runs[w.run]) /\ runs[w.run].fence[w.node] \in Tokens
           /\ Worktree(w.run, w.node) \in Checkout
           /\ Progress(w, Worktree(w.run, w.node), calls[w.run][w.node], runs[w.run])
<1>1. w \in WorkerState /\ w.run \in Runs /\ w.node \in Nodes /\ Holding(w, runs[w.run])
  BY DEF WorkerInv, WorkerAt, PlaceOK, Placed
<1>2. RunOK(runs[w.run]) /\ disk[w.run] \in Disk
  BY <1>1 DEF WorkerInv, LedgerOK
<1>3. runs[w.run].fence[w.node] \in Tokens
  BY <1>1, <1>2 DEF Holding, RunOK, Sound, OneLease, Issued
<1> QED
  BY <1>1, <1>2, <1>3 DEF WorkerInv, WorkerAt, Holds, Holding, Worktree, Disk

(* An inspection finds what is there, nothing, or an error. *)
LEMMA Retains ==
    ASSUME NEW r, NEW n, Worktree(r, n) \in Checkout, NEW found \in Retain(r, n)
    PROVE  \/ found = "missing" /\ Worktree(r, n) = "absent"
           \/ found = "error"
           \/ found = Worktree(r, n) /\ found \in {"unchanged", "dirty", "committed"}
<1> DEFINE d == Worktree(r, n)
<1>1. found \in (CASE d = "absent" -> {"missing"} [] d = "broken" -> {"error"} [] OTHER -> {d})
          \/ found = "error"
  BY DEF Retain
<1>2. d \in Checkout
  OBVIOUS
<1> HIDE DEF d
<1>3. CASE d = "absent"
  BY <1>1, <1>3 DEF d
<1>4. CASE d = "broken"
  BY <1>1, <1>4
<1>5. CASE d \notin {"absent", "broken"}
  BY <1>1, <1>2, <1>5 DEF d, Checkout
<1> QED
  BY <1>3, <1>4, <1>5

(* The worker goes on to a place where nothing more has to be known. *)
Plain == {"createFailed", "execute", "error", "apiError", "ack", "fail"}
LEMMA GoesPlain ==
    ASSUME WorkerInv, w.pc \in Working, NEW p \in Plain, NEW dj
    PROVE  WorkerAt([w EXCEPT !.pc = p], runs, dj, calls, DOMAIN queue, DOMAIN order,
                    Cardinality(Candidates))
<1>1. p \in Working /\ w \in WorkerState
  BY AtWork DEF Plain, Working
<1>2. Progress([w EXCEPT !.pc = p], dj[w.run][runs[w.run].fence[w.node]],
               calls[w.run][w.node], runs[w.run])
  BY <1>1 DEF Progress, Plain, WorkerState
<1> QED
  BY <1>1, <1>2, Moves DEF WorkerInv

LEMMA GotoPlain ==
    ASSUME WorkerInv, w.pc \in Working, NEW p \in Plain, Goto(p)
    PROVE  Knows(w')
  BY GoesPlain DEF Goto, Knows

LEMMA GotoConflict ==
    ASSUME WorkerInv, w.pc \in Working, Goto("conflict")
    PROVE  Knows(w')
  BY Conflicts DEF WorkerInv, Goto, Knows

(* A batch about the lease is staged, as it is or with the cycle's status. *)
LEMMA StagesHere ==
    ASSUME WorkerInv, w.pc \in Working, NEW b, NEW cycle \in Cycle,
           NEW ok \in Working \cup {"conflict", "maintain"}, NEW err \in Control,
           Staged(b, w.node, Worktree(w.run, w.node), calls[w.run][w.node]),
           Leads(b[1].type, w.node, cycle, ok, err, TRUE),
           \/ Record(b, cycle, ok, err)
           \/ cycle = w.cycle /\ Stage(w.run, w.node, b, ok, err)
    PROVE  Knows(w')
<1>0. w \in WorkerState /\ Holds /\ w.run \in Runs /\ w.node \in Nodes /\ RunOK(runs[w.run])
  BY AtWork
<1>2. /\ runs[w.run].seq \in Nat /\ b \in Batches /\ ok \in Control /\ "append" \in Control
      /\ w.run \in Runs \cup {None} /\ w.node \in Nodes \cup {None}
  BY <1>0 DEF RunOK, Sound, RunState, Staged, Working, Control
<1>3. /\ w' \in WorkerState /\ w'.pc = "append" /\ w'.run = w.run /\ w'.node = w.node
      /\ w'.quota = w.quota /\ w'.claimed = w.claimed /\ w'.ok = ok /\ w'.err = err
      /\ w'.batch = b /\ w'.cycle = cycle
  <2>1. CASE Record(b, cycle, ok, err)
    BY <1>0, <1>2, <2>1 DEF WorkerState, Record
  <2>2. CASE cycle = w.cycle /\ Stage(w.run, w.node, b, ok, err)
    BY <1>0, <1>2, <2>2 DEF WorkerState, Stage
  <2> QED
    BY <2>1, <2>2
<1>4. Holding(w', runs[w.run]) = TRUE
  BY <1>0, <1>3 DEF Holds, Holding
<1>5. StagedOK(w', Worktree(w.run, w.node), calls[w.run][w.node], runs[w.run])
  BY <1>3, <1>4 DEF StagedOK
<1>6. WorkerAt(w, runs, disk, calls, DOMAIN queue, DOMAIN order, Cardinality(Candidates))
  BY DEF WorkerInv
<1> QED
  BY <1>3, <1>5, <1>6, Stages DEF Knows, Worktree

(* _record_node_failure before the checkout is prepared *)
LEMMA RecordCreateFailureKnows ==
    ASSUME WorkerInv, RecordCreateFailure
    PROVE  Knows(w')
<1>1. w.pc = "createFailed" /\ w.pc \in Working
  BY DEF RecordCreateFailure, Working
<1>2. PICK found \in IF Worktree(w.run, w.node) = "absent" THEN {"missing"}
                     ELSE Retain(w.run, w.node) :
          Record(CASE found = "missing" -> FailureBatch(w.run, w.node, "none")
                   [] found = "error"   -> ReconciliationBatch(w.run, w.node, "none")
                   [] OTHER             -> FailureBatch(w.run, w.node, found),
                 "claim-conflict", "conflict", "conflict")
  BY DEF RecordCreateFailure
<1> DEFINE c == Worktree(w.run, w.node)
           m == calls[w.run][w.node]
<1>3. w.run \in Runs /\ w.node \in Nodes /\ runs[w.run].fence[w.node] \in Tokens /\ c \in Checkout
  BY <1>1, AtWork
<1>4. \/ found = "missing" /\ c = "absent"
      \/ found = "error"
      \/ found = c /\ found \in {"unchanged", "dirty", "committed"}
  BY <1>2, <1>3, Retains
<1>5. /\ "claim-conflict" \in Cycle /\ "conflict" \in Control /\ "none" \in Inspection
      /\ found \in {"unchanged", "dirty", "committed"} => found \in Inspection
  BY DEF Cycle, Control, Inspection
<1> HIDE DEF c, m
<1>6. CASE found = "missing"
  <2>1. Record(FailureBatch(w.run, w.node, "none"), "claim-conflict", "conflict", "conflict")
    BY <1>2, <1>6
  <2>2. /\ Staged(FailureBatch(w.run, w.node, "none"), w.node, c, m)
        /\ FailureBatch(w.run, w.node, "none")[1].type = "node.failed"
    BY <1>3, <1>4, <1>5, <1>6, LeaseBatches
  <2> QED
    BY <1>1, <1>5, <2>1, <2>2, StagesHere DEF Leads, Ended, c, m
<1>7. CASE found = "error"
  <2>1. Record(ReconciliationBatch(w.run, w.node, "none"), "claim-conflict", "conflict", "conflict")
    BY <1>2, <1>7
  <2>2. /\ Staged(ReconciliationBatch(w.run, w.node, "none"), w.node, c, m)
        /\ ReconciliationBatch(w.run, w.node, "none")[1].type = "node.reconciliation"
    BY <1>3, <1>5, LeaseBatches
  <2> QED
    BY <1>1, <1>5, <2>1, <2>2, StagesHere DEF Leads, Ended, c, m
<1>8. CASE found \in {"unchanged", "dirty", "committed"}
  <2>1. Record(FailureBatch(w.run, w.node, found), "claim-conflict", "conflict", "conflict")
    BY <1>2, <1>8
  <2>2. found = c
    BY <1>4, <1>8
  <2>3. /\ Staged(FailureBatch(w.run, w.node, found), w.node, c, m)
        /\ FailureBatch(w.run, w.node, found)[1].type = "node.failed"
    BY <1>3, <1>5, <1>8, <2>2, LeaseBatches
  <2> QED
    BY <1>1, <1>5, <2>1, <2>3, StagesHere DEF Leads, Ended, c, m
<1> QED
  BY <1>4, <1>6, <1>7, <1>8

(* prepare_node after the checkout exists *)
LEMMA PrepareNodeKnows ==
    ASSUME WorkerInv, PrepareNode
    PROVE  Knows(w')
<1> DEFINE c == Worktree(w.run, w.node)
           m == calls[w.run][w.node]
<1>1. w.pc = "prepare" /\ w.pc \in Working
  BY DEF PrepareNode, Working
<1>2. /\ w.run \in Runs /\ w.node \in Nodes /\ runs[w.run].fence[w.node] \in Tokens
      /\ w.cycle \in Cycle /\ c = "unchanged"
  BY <1>1, AtWork DEF Progress, WorkerState
<1>3. /\ "claim-conflict" \in Cycle /\ "conflict" \in Control /\ "unchanged" \in Inspection
      /\ "execute" \in Working
  BY DEF Cycle, Control, Inspection, Working
<1> HIDE DEF c, m
<1>4. CASE Record(CanceledBatch(w.run, w.node, "unchanged"), "claim-conflict", "conflict",
                  "conflict")
  <2>1. /\ Staged(CanceledBatch(w.run, w.node, "unchanged"), w.node, c, m)
        /\ CanceledBatch(w.run, w.node, "unchanged")[1].type = "node.canceled"
    BY <1>2, <1>3, LeaseBatches
  <2> QED
    BY <1>1, <1>3, <1>4, <2>1, StagesHere DEF Leads, Ended, c, m
<1>5. CASE Stage(w.run, w.node, <<WorkerEvent("worktree.prepared", w.run, w.node, "unchanged")>>,
                 "execute", "conflict")
  <2> DEFINE b == <<WorkerEvent("worktree.prepared", w.run, w.node, "unchanged")>>
  <2>1. Staged(b, w.node, c, m) /\ b[1].type = "worktree.prepared"
    BY <1>2, <1>3, WorkerBatches
  <2>2. Stage(w.run, w.node, b, "execute", "conflict")
    BY <1>5
  <2> HIDE DEF b
  <2> QED
    BY <1>1, <1>2, <1>3, <2>1, <2>2, StagesHere DEF Leads, c, m
<1> QED
  BY <1>4, <1>5 DEF PrepareNode

(* _execute: evidence for a writing node *)
LEMMA ExecuteKnows ==
    ASSUME WorkerInv, Execute
    PROVE  Knows(w')
<1>1. w.pc = "execute" /\ w.pc \in Working
  BY DEF Execute, Working
<1>2. CASE Goto("error")
  BY <1>1, <1>2, GotoPlain DEF Plain
<1>3. CASE Goto(IF w.node \in Writers THEN "dispatch" ELSE "commit")
  <2> DEFINE p == IF w.node \in Writers THEN "dispatch" ELSE "commit"
  <2>1. p \in Working /\ w \in WorkerState
    BY <1>1, AtWork DEF Working
  <2>2. Progress([w EXCEPT !.pc = p], disk[w.run][runs[w.run].fence[w.node]],
                 calls[w.run][w.node], runs[w.run])
    BY <2>1 DEF Progress, WorkerState
  <2> HIDE DEF p
  <2>3. WorkerAt([w EXCEPT !.pc = p], runs, disk, calls, DOMAIN queue, DOMAIN order,
                 Cardinality(Candidates))
    BY <1>1, <2>1, <2>2, Moves DEF WorkerInv
  <2> QED
    BY <1>3, <2>3 DEF Goto, Knows, p
<1> QED
  BY <1>2, <1>3 DEF Execute

LEMMA RecordDispatchKnows ==
    ASSUME WorkerInv, RecordDispatch
    PROVE  Knows(w')
<1> DEFINE c == Worktree(w.run, w.node)
           m == calls[w.run][w.node]
           b == <<WorkerEvent("dispatch.started", w.run, w.node, "none")>>
<1>1. w.pc = "dispatch" /\ w.pc \in Working
  BY DEF RecordDispatch, Working
<1>2. CASE Goto("error")
  BY <1>1, <1>2, GotoPlain DEF Plain
<1>3. CASE Stage(w.run, w.node, b, "propose", "apiError")
  <2>1. /\ w.run \in Runs /\ w.node \in Writers /\ w.node \in Nodes
        /\ runs[w.run].fence[w.node] \in Tokens /\ w.cycle \in Cycle
    BY <1>1, AtWork DEF Progress, WorkerState
  <2>2. "apiError" \in Control /\ "none" \in Inspection /\ "propose" \in Working
    BY DEF Control, Inspection, Working
  <2> HIDE DEF c, m
  <2>3. Staged(b, w.node, c, m) /\ b[1].type = "dispatch.started"
    BY <2>1, <2>2, WorkerBatches
  <2> HIDE DEF b
  <2> QED
    BY <1>1, <1>3, <2>1, <2>2, <2>3, StagesHere DEF Leads, c, m
<1> QED
  BY <1>2, <1>3 DEF RecordDispatch

(* The acceptance checks *)
LEMMA RunChecksKnows ==
    ASSUME WorkerInv, RunChecks
    PROVE  Knows(w')
<1>1. w.pc = "checks" /\ w.pc \in Working
  BY DEF RunChecks, Working
<1>2. CASE Goto("error")
  BY <1>1, <1>2, GotoPlain DEF Plain
<1>3. CASE Goto("succeed")
  <2>1. /\ "succeed" \in Working /\ w \in WorkerState
        /\ Progress(w, Worktree(w.run, w.node), calls[w.run][w.node], runs[w.run])
    BY <1>1, AtWork DEF Working
  <2>2. Progress([w EXCEPT !.pc = "succeed"], disk[w.run][runs[w.run].fence[w.node]],
                 calls[w.run][w.node], runs[w.run])
    BY <1>1, <2>1 DEF Progress, WorkerState, Worktree
  <2>3. WorkerAt([w EXCEPT !.pc = "succeed"], runs, disk, calls, DOMAIN queue, DOMAIN order,
                 Cardinality(Candidates))
    BY <1>1, <2>1, <2>2, Moves DEF WorkerInv
  <2> QED
    BY <1>3, <2>3 DEF Goto, Knows
<1> QED
  BY <1>2, <1>3 DEF RunChecks

(* record_node_success *)
LEMMA RecordSuccessKnows ==
    ASSUME WorkerInv, RecordSuccess
    PROVE  Knows(w')
<1> DEFINE c == Worktree(w.run, w.node)
           m == calls[w.run][w.node]
<1>1. w.pc = "succeed" /\ w.pc \in Working
  BY DEF RecordSuccess, Working
<1>2. CASE Goto("error") \/ Goto("apiError")
  BY <1>1, <1>2, GotoPlain DEF Plain
<1>3. ASSUME NEW found \in Retain(w.run, w.node), found \in {"unchanged", "committed"},
             Record(SuccessBatch(w.run, w.node, found), "node-succeeded", "maintain", "apiError")
      PROVE  Knows(w')
  <2>1. /\ w.run \in Runs /\ w.node \in Nodes /\ runs[w.run].fence[w.node] \in Tokens
        /\ c \in Checkout /\ (w.node \in Writers => m = 1 /\ c = "committed")
    BY <1>1, AtWork DEF Progress
  <2>2. found = c
    BY <1>3, <2>1, Retains
  <2>3. "node-succeeded" \in Cycle /\ "apiError" \in Control /\ found \in Inspection
    BY <1>3 DEF Cycle, Control, Inspection
  <2> HIDE DEF c, m
  <2>4. /\ Staged(SuccessBatch(w.run, w.node, found), w.node, c, m)
        /\ SuccessBatch(w.run, w.node, found)[1].type = "node.succeeded"
    BY <1>3, <2>1, <2>2, <2>3, WorkerBatches
  <2> QED
    BY <1>1, <1>3, <2>3, <2>4, StagesHere DEF Leads, c, m
<1> QED
  BY <1>2, <1>3 DEF RecordSuccess

(* The two except clauses of _execute *)
LEMMA HandlersKnow ==
    ASSUME WorkerInv, Refused \/ Failed
    PROVE  Knows(w')
<1>1. w.pc \in Working /\ (Goto("ack") \/ Goto("fail") \/ Goto("conflict"))
  BY DEF Refused, Failed, Working
<1> QED
  BY <1>1, GotoPlain, GotoConflict DEF Plain

LEMMA AcknowledgeCancellationKnows ==
    ASSUME WorkerInv, AcknowledgeCancellation
    PROVE  Knows(w')
<1> DEFINE c == Worktree(w.run, w.node)
           m == calls[w.run][w.node]
<1>1. w.pc = "ack" /\ w.pc \in Working
  BY DEF AcknowledgeCancellation, Working
<1>2. CASE Goto("conflict")
  BY <1>1, <1>2, GotoConflict
<1>3. /\ w.run \in Runs /\ w.node \in Nodes /\ runs[w.run].fence[w.node] \in Tokens
      /\ c \in Checkout
  BY <1>1, AtWork
<1>4. /\ {"claim-conflict", "node-canceled"} \subseteq Cycle /\ "conflict" \in Control
      /\ {"none", "unchanged", "dirty", "committed"} = Inspection
  BY DEF Cycle, Control, Inspection
<1>5. CASE Record(ReconciliationBatch(w.run, w.node, "none"), "claim-conflict", "conflict",
                  "conflict")
  <2> HIDE DEF c, m
  <2>1. /\ Staged(ReconciliationBatch(w.run, w.node, "none"), w.node, c, m)
        /\ ReconciliationBatch(w.run, w.node, "none")[1].type = "node.reconciliation"
    BY <1>3, <1>4, LeaseBatches
  <2> QED
    BY <1>1, <1>4, <1>5, <2>1, StagesHere DEF Leads, Ended, c, m
<1>6. ASSUME NEW found \in Retain(w.run, w.node), found \notin {"missing", "error"},
             Record(CanceledBatch(w.run, w.node, found), "node-canceled", "maintain", "conflict")
      PROVE  Knows(w')
  <2>1. found = c /\ found \in {"unchanged", "dirty", "committed"}
    BY <1>3, <1>6, Retains
  <2> HIDE DEF c, m
  <2>2. /\ Staged(CanceledBatch(w.run, w.node, found), w.node, c, m)
        /\ CanceledBatch(w.run, w.node, found)[1].type = "node.canceled"
    BY <1>3, <1>4, <2>1, LeaseBatches
  <2> QED
    BY <1>1, <1>4, <1>6, <2>2, StagesHere DEF Leads, c, m
<1> QED
  BY <1>2, <1>5, <1>6 DEF AcknowledgeCancellation

LEMMA RecordFailureKnows ==
    ASSUME WorkerInv, RecordFailure
    PROVE  Knows(w')
<1> DEFINE c == Worktree(w.run, w.node)
           m == calls[w.run][w.node]
<1>1. w.pc = "fail" /\ w.pc \in Working
  BY DEF RecordFailure, Working
<1>2. PICK found \in Retain(w.run, w.node) :
          Record(IF found \in {"missing", "error"}
                 THEN ReconciliationBatch(w.run, w.node, "none")
                 ELSE FailureBatch(w.run, w.node, found),
                 "node-failed", "maintain", "down")
  BY DEF RecordFailure
<1>3. /\ w.run \in Runs /\ w.node \in Nodes /\ runs[w.run].fence[w.node] \in Tokens
      /\ c \in Checkout
  BY <1>1, AtWork
<1>4. /\ "node-failed" \in Cycle /\ "down" \in Control
      /\ {"none", "unchanged", "dirty", "committed"} = Inspection
  BY DEF Cycle, Control, Inspection
<1>5. CASE found \in {"missing", "error"}
  <2>1. Record(ReconciliationBatch(w.run, w.node, "none"), "node-failed", "maintain", "down")
    BY <1>2, <1>5
  <2> HIDE DEF c, m
  <2>2. /\ Staged(ReconciliationBatch(w.run, w.node, "none"), w.node, c, m)
        /\ ReconciliationBatch(w.run, w.node, "none")[1].type = "node.reconciliation"
    BY <1>3, <1>4, LeaseBatches
  <2> QED
    BY <1>1, <1>4, <2>1, <2>2, StagesHere DEF Leads, c, m
<1>6. CASE found \notin {"missing", "error"}
  <2>1. Record(FailureBatch(w.run, w.node, found), "node-failed", "maintain", "down")
    BY <1>2, <1>6
  <2>2. found = c /\ found \in {"unchanged", "dirty", "committed"}
    BY <1>2, <1>3, <1>6, Retains
  <2> HIDE DEF c, m
  <2>3. /\ Staged(FailureBatch(w.run, w.node, found), w.node, c, m)
        /\ FailureBatch(w.run, w.node, found)[1].type = "node.failed"
    BY <1>3, <1>4, <2>2, LeaseBatches
  <2> QED
    BY <1>1, <1>4, <2>1, <2>3, StagesHere DEF Leads, c, m
<1> QED
  BY <1>5, <1>6

----------------------------------------------------------------------------
(* The steps between cycles that change nothing but the worker *)

LEMMA LeastPosition ==
    ASSUME NEW S \in SUBSET Nat, S # {}
    PROVE  Min(S) \in S
<1>1. \A k, m \in Nat : k < m => <<k, m>> \in OpToRel(<, Nat)
  <2> DEFINE R == OpToRel(<, Nat)
  <2>1. R = {ss \in Nat \X Nat : ss[1] < ss[2]}
    BY Zenon DEF OpToRel
  <2> HIDE DEF R
  <2>2. \A k, m \in Nat : k < m => <<k, m>> \in R
    BY <2>1
  <2> QED
    BY <2>2 DEF R
<1>2. PICK m \in S : \A k \in S : ~(<<k, m>> \in OpToRel(<, Nat))
  BY NatLessThanWellFounded, WFMin, Zenon
<1>3. \A k \in S : ~(k < m)
  BY <1>1, <1>2, Zenon
<1>4. \A k \in S : m =< k
  BY <1>3
<1> QED
  BY <1>4, Zenon DEF Min

(* Places where the worker holds nothing. *)
LEMMA Rests ==
    ASSUME NEW v \in WorkerState, v.pc \in {"down", "idle", "maintain", "reconcile", "exited"},
           NEW rs, NEW dk, NEW ks, NEW Q, NEW O, NEW N,
           v.pc = "idle" /\ v.quota => N <= MaxRetained,
           v.pc = "reconcile" => v.cycle = "none" /\ v.todo \subseteq Q,
           v.pc = "exited" => v.cycle # "none",
           v.pc \in {"maintain", "exited"} => Reported(v, rs)
    PROVE  WorkerAt(v, rs, dk, ks, Q, O, N)
<1>1. ~InCycle(v) /\ ~Sweeping(v) /\ (Reconciling(v) => v.pc = "reconcile")
  BY DEF InCycle, Sweeping, Reconciling, Working
<1>2. PlaceOK(v, Q, O, N)
  BY <1>1 DEF PlaceOK, Working
<1>3. Reporting(v) => v.pc \in {"maintain", "exited"}
  BY <1>1 DEF Reporting
<1> QED
  BY <1>2, <1>3 DEF WorkerAt, Working

LEMMA IdleState == Idle \in WorkerState /\ Down \in WorkerState
<1>1. {"idle", "down"} \subseteq Control /\ "none" \in Cycle /\ 0 \in Nat
  BY DEF Control, Cycle
<1>2. Idle \in WorkerState
  BY <1>1 DEF Idle, WorkerState, NoBatch
<1> QED
  BY <1>1, <1>2 DEF Down, WorkerState

LEMMA GoesDown ==
    ASSUME NEW rs, NEW dk, NEW ks, NEW Q, NEW O, NEW N
    PROVE  WorkerAt(Down, rs, dk, ks, Q, O, N)
<1>1. Down.pc = "down"
  BY DEF Down, Idle
<1> QED
  BY <1>1, IdleState, Rests

(* It idles, with the quota it knows of. *)
LEMMA Idles ==
    ASSUME NEW rs, NEW dk, NEW ks, NEW Q, NEW O, NEW N,
           NEW quota \in BOOLEAN, NEW once \in BOOLEAN, quota => N <= MaxRetained
    PROVE  /\ WorkerAt([Idle EXCEPT !.quota = quota, !.once = once], rs, dk, ks, Q, O, N)
           /\ WorkerAt([Idle EXCEPT !.quota = quota], rs, dk, ks, Q, O, N)
<1> DEFINE v == [Idle EXCEPT !.quota = quota, !.once = once]
           u == [Idle EXCEPT !.quota = quota]
<1>0. Idle \in WorkerState /\ Idle.pc = "idle"
  BY IdleState DEF Idle
<1>1. v \in WorkerState /\ v.pc = "idle" /\ v.quota = quota
  BY <1>0 DEF WorkerState
<1>2. u \in WorkerState /\ u.pc = "idle" /\ u.quota = quota
  BY <1>0 DEF WorkerState
<1> HIDE DEF v, u
<1>3. WorkerAt(v, rs, dk, ks, Q, O, N)
  BY <1>1, Rests
<1>4. WorkerAt(u, rs, dk, ks, Q, O, N)
  BY <1>2, Rests
<1> QED
  BY <1>3, <1>4 DEF u, v

(* Cycles that end without a record. *)
LEMMA EndCycleKnows ==
    ASSUME WorkerInv, ClaimConflict \/ NothingReady
    PROVE  Knows(w')
<1>0. w.pc \in {"conflict", "idle"} /\ w \in WorkerState
      /\ PlaceOK(w, DOMAIN queue, DOMAIN order, Cardinality(Candidates))
  BY DEF WorkerInv, WorkerAt, ClaimConflict, NothingReady
<1>1. /\ w \in WorkerState /\ w.pc \in {"conflict", "idle"}
      /\ w.quota => Cardinality(Candidates) <= MaxRetained
      /\ w.pc = "conflict" => w.claimed \in Runs \X Nodes
  BY <1>0 DEF PlaceOK, InCycle, Placed
<1>2. w.quota \in BOOLEAN /\ w.once \in BOOLEAN
  BY <1>1 DEF WorkerState
<1>3. PICK cycle \in {"claim-conflict", "idle"} :
          EndCycle(cycle) /\ (cycle = "claim-conflict" => w.pc = "conflict")
  BY DEF ClaimConflict, NothingReady
<1>4. CASE w.once
  <2> DEFINE v == [w EXCEPT !.pc = "exited", !.cycle = cycle]
  <2>1. "exited" \in Control /\ cycle \in Cycle
    BY <1>3 DEF Control, Cycle
  <2>2. v \in WorkerState /\ v.pc = "exited" /\ v.cycle = cycle /\ v.claimed = w.claimed
    BY <1>1, <2>1 DEF WorkerState
  <2> HIDE DEF v
  <2>3. Reported(v, runs)
    BY <1>1, <1>3, <2>2 DEF Reported, Reports
  <2>4. WorkerAt(v, runs, disk, calls, DOMAIN queue, DOMAIN order, Cardinality(Candidates))
    BY <1>3, <2>2, <2>3, Rests
  <2> QED
    BY <1>3, <1>4, <2>4 DEF EndCycle, Knows, v
<1>5. CASE ~w.once
  <2>1. WorkerAt([Idle EXCEPT !.quota = w.quota], runs, disk, calls, DOMAIN queue, DOMAIN order,
                 Cardinality(Candidates))
    BY <1>1, <1>2, Idles
  <2> QED
    BY <1>3, <1>5, <2>1 DEF EndCycle, Knows
<1> QED
  BY <1>4, <1>5

LEMMA RestartKnows ==
    ASSUME WorkerInv, Restart
    PROVE  Knows(w')
<1>1. PICK once \in Modes :
          w' = [Idle EXCEPT !.pc = "reconcile", !.todo = DOMAIN queue, !.once = once]
  BY DEF Restart
<1>2. once \in BOOLEAN /\ "reconcile" \in Control /\ DOMAIN queue \in SUBSET Nat
  BY <1>1, ConfigAssumption DEF Control, WorkerInv
<1>3. /\ w' \in WorkerState /\ w'.pc = "reconcile" /\ w'.cycle = "none"
      /\ w'.todo = DOMAIN queue
  BY <1>1, <1>2, IdleState DEF WorkerState, Idle
<1> QED
  BY <1>3, Rests DEF Knows

LEMMA ReconciledKnows ==
    ASSUME WorkerInv, Reconciled
    PROVE  Knows(w')
<1>1. w \in WorkerState /\ w.pc = "reconcile" /\ w.cycle = "none" /\ "maintain" \in Control
  BY DEF WorkerInv, WorkerAt, Reconciled, PlaceOK, Reconciling, Control
<1>2. w' \in WorkerState /\ w'.pc = "maintain" /\ w'.cycle = "none"
  BY <1>1 DEF Reconciled, Goto, WorkerState
<1>3. Reported(w', runs)
  BY <1>2 DEF Reported, Reports
<1> QED
  BY <1>2, <1>3, Rests DEF Knows

(* Between the records of a sweep, and while one is appended. *)
LEMMA SweepsOn ==
    ASSUME NEW v \in WorkerState, NEW rs, NEW dk, NEW ks, NEW Q, NEW O, NEW N,
           v.pc \in {"recover", "trim", "remove", "record", "append"},
           v.pc = "append" => v.ok \in {"recover", "trim", "remove"},
           v.pc \in {"remove", "record", "append"} => Placed(v),
           v.sweep \in Sweeps, v.todo \subseteq O, Reported(v, rs),
           v.pc = "record" /\ v.removed => dk[v.run][rs[v.run].fence[v.node]] = "absent",
           v.pc = "append" =>
               StagedOK(v, dk[v.run][rs[v.run].fence[v.node]], ks[v.run][v.node], rs[v.run])
    PROVE  WorkerAt(v, rs, dk, ks, Q, O, N)
<1>1. ~InCycle(v) /\ ~Reconciling(v) /\ v.pc \notin Working \cup {"conflict", "idle", "exited"}
  BY DEF InCycle, Reconciling, Working
<1>2. PlaceOK(v, Q, O, N)
  BY <1>1 DEF PlaceOK
<1>3. v.pc = "record" =>
          Progress(v, dk[v.run][rs[v.run].fence[v.node]], ks[v.run][v.node], rs[v.run])
  BY DEF Progress
<1> QED
  BY <1>1, <1>2, <1>3 DEF WorkerAt

(* What is known in a sweep. *)
LEMMA InSweep ==
    ASSUME WorkerInv, w.pc \in {"recover", "trim", "remove", "record"}
    PROVE  /\ w \in WorkerState /\ w.sweep \in Sweeps /\ w.todo \subseteq DOMAIN order
           /\ Reported(w, runs)
           /\ w.pc \in {"remove", "record"} => w.run \in Runs /\ w.node \in Nodes
           /\ w.pc = "record" /\ w.removed => Worktree(w.run, w.node) = "absent"
<1>1. Sweeping(w) /\ Reporting(w)
  BY DEF Sweeping, Reporting
<1>2. w \in WorkerState /\ PlaceOK(w, DOMAIN queue, DOMAIN order, Cardinality(Candidates))
  BY DEF WorkerInv, WorkerAt
<1>3. w.pc = "record" =>
          Progress(w, disk[w.run][runs[w.run].fence[w.node]], calls[w.run][w.node], runs[w.run])
  BY DEF WorkerInv, WorkerAt
<1>4. Reported(w, runs)
  BY <1>1 DEF WorkerInv, WorkerAt
<1> QED
  BY <1>1, <1>2, <1>3, <1>4 DEF PlaceOK, Progress, Placed, Worktree

LEMMA Positions ==
    ASSUME WorkerInv
    PROVE  /\ DOMAIN order \in SUBSET Nat /\ Candidates \subseteq DOMAIN order
           /\ \A status, k : /\ CandidatesIn(status) \subseteq DOMAIN order
                            /\ Oldest(CandidatesIn(status), k) \subseteq DOMAIN order
<1>1. order \in Seq(Runs \X Nodes)
  BY DEF WorkerInv, OrderOK
<1>2. DOMAIN order \in SUBSET Nat
  BY <1>1
<1>3. Candidates \subseteq DOMAIN order
  BY DEF Candidates
<1>4. \A status : CandidatesIn(status) \subseteq Candidates
  BY DEF CandidatesIn
<1>5. \A S, k : Oldest(S, k) \subseteq S
  BY DEF Oldest
<1> QED
  BY <1>2, <1>3, <1>4, <1>5

LEMMA StartMaintenanceKnows ==
    ASSUME WorkerInv, StartMaintenance
    PROVE  Knows(w')
<1>1. w \in WorkerState /\ w.pc = "maintain" /\ Reported(w, runs)
  BY DEF WorkerInv, WorkerAt, StartMaintenance, Reporting
<1>2. CandidatesIn("requested") \subseteq DOMAIN order /\ DOMAIN order \in SUBSET Nat
  BY Positions
<1>3. "recover" \in Control /\ CandidatesIn("requested") \in SUBSET Nat
  BY <1>2 DEF Control
<1>4. /\ w' \in WorkerState /\ w'.pc = "recover" /\ w'.sweep \in Sweeps
      /\ w'.todo \subseteq DOMAIN order /\ w'.cycle = w.cycle /\ w'.claimed = w.claimed
  BY <1>1, <1>2, <1>3 DEF StartMaintenance, WorkerState, Sweeps
<1>5. Reported(w', runs)
  BY <1>1, <1>4 DEF Reported
<1> QED
  BY <1>4, <1>5, SweepsOn DEF Knows

LEMMA StartTrimKnows ==
    ASSUME WorkerInv, StartTrim
    PROVE  Knows(w')
<1> DEFINE S == Oldest(CandidatesIn("eligible"), Excess)
<1>1. w \in WorkerState /\ w.pc = "recover" /\ Reported(w, runs)
  BY InSweep DEF StartTrim
<1>2. S \subseteq DOMAIN order /\ DOMAIN order \in SUBSET Nat
  BY Positions
<1>3. "trim" \in Control /\ S \in SUBSET Nat /\ w' = [w EXCEPT !.pc = "trim", !.sweep = "trim",
                                                               !.todo = S]
  BY <1>2 DEF Control, StartTrim
<1> HIDE DEF S
<1>4. /\ w' \in WorkerState /\ w'.pc = "trim" /\ w'.sweep \in Sweeps
      /\ w'.todo \subseteq DOMAIN order /\ w'.cycle = w.cycle /\ w'.claimed = w.claimed
  BY <1>1, <1>2, <1>3 DEF WorkerState, Sweeps
<1>5. Reported(w', runs)
  BY <1>1, <1>4 DEF Reported
<1> QED
  BY <1>4, <1>5, SweepsOn DEF Knows

(* The next position of a sweep is one of order. *)
LEMMA NextInOrder ==
    ASSUME WorkerInv, w.pc \in {"recover", "trim"}, w.todo # {}
    PROVE  /\ order[Min(w.todo)][1] \in Runs /\ order[Min(w.todo)][2] \in Nodes
           /\ w.todo \ {Min(w.todo)} \subseteq DOMAIN order
           /\ w.todo \ {Min(w.todo)} \in SUBSET Nat
<1>1. w.todo \subseteq DOMAIN order /\ w.todo \in SUBSET Nat
  BY InSweep DEF WorkerState
<1>2. Min(w.todo) \in DOMAIN order
  BY <1>1, LeastPosition
<1>3. order \in Seq(Runs \X Nodes)
  BY DEF WorkerInv, OrderOK
<1>4. order[Min(w.todo)] \in Runs \X Nodes
  BY <1>2, <1>3
<1> QED
  BY <1>1, <1>4

LEMMA RecoverNextKnows ==
    ASSUME WorkerInv, RecoverNext
    PROVE  Knows(w')
<1> DEFINE i == Min(w.todo)
           T == w.todo \ {i}
<1>1. /\ w \in WorkerState /\ w.pc = "recover" /\ Reported(w, runs) /\ w.sweep \in Sweeps
      /\ order[i][1] \in Runs /\ order[i][2] \in Nodes /\ T \subseteq DOMAIN order
      /\ T \in SUBSET Nat
  BY InSweep, NextInOrder DEF RecoverNext
<1>2. /\ "remove" \in Control
      /\ w' = [w EXCEPT !.pc = "remove", !.run = order[i][1], !.node = order[i][2], !.todo = T]
  BY DEF Control, RecoverNext
<1> HIDE DEF T, i
<1>3. /\ w' \in WorkerState /\ w'.pc = "remove" /\ w'.sweep = w.sweep /\ w'.todo = T
      /\ w'.cycle = w.cycle /\ w'.claimed = w.claimed /\ Placed(w')
  BY <1>1, <1>2 DEF WorkerState, Placed
<1>4. Reported(w', runs)
  BY <1>1, <1>3 DEF Reported
<1> QED
  BY <1>1, <1>3, <1>4, SweepsOn DEF Knows

LEMMA TrimNextKnows ==
    ASSUME WorkerInv, TrimNext
    PROVE  Knows(w')
<1> DEFINE i == Min(w.todo)
           r == order[i][1]
           n == order[i][2]
           T == w.todo \ {i}
           b == <<CleanupEvent("cleanup.requested", r, n, TRUE)>>
<1>1. /\ w \in WorkerState /\ w.pc = "trim" /\ Reported(w, runs) /\ w.sweep \in Sweeps
      /\ r \in Runs /\ n \in Nodes /\ T \subseteq DOMAIN order /\ T \in SUBSET Nat
  BY InSweep, NextInOrder DEF TrimNext
<1>2. CASE CandidateStill(r, n, "eligible")
  <2>1. w' = [w EXCEPT !.pc = "append", !.run = r, !.node = n, !.seq = runs[r].seq, !.batch = b,
                       !.ok = "remove", !.err = "down", !.todo = T]
    BY <1>2 DEF TrimNext
  <2> HIDE DEF i, r, n, T
  <2>2. RunOK(runs[r]) /\ runs[r].node[n] = "succeeded"
    BY <1>1, <1>2 DEF WorkerInv, LedgerOK, CandidateStill
  <2>3. runs[r].fence[n] \in Tokens /\ runs[r].seq \in Nat
    BY <1>1, <2>2 DEF RunOK, Issued, Sound, RunState
  <2>4. Staged(b, n, disk[r][runs[r].fence[n]], calls[r][n]) /\ b[1].type = "cleanup.requested"
    BY <1>1, <2>3, CleanupBatches
  <2> HIDE DEF b
  <2>5. {"append", "remove", "down"} \subseteq Control /\ b \in Batches
    BY <2>4 DEF Control, Staged
  <2>6. /\ w' \in WorkerState /\ w'.pc = "append" /\ w'.sweep = w.sweep /\ w'.todo = T
        /\ w'.cycle = w.cycle /\ w'.claimed = w.claimed /\ w'.run = r /\ w'.node = n
        /\ w'.ok = "remove" /\ w'.err = "down" /\ w'.batch = b
    BY <1>1, <2>1, <2>3, <2>5 DEF WorkerState
  <2>7. Reported(w', runs) /\ Placed(w')
    BY <1>1, <2>6 DEF Reported, Placed
  <2>8. StagedOK(w', disk[w'.run][runs[w'.run].fence[w'.node]], calls[w'.run][w'.node],
                 runs[w'.run])
    BY <2>4, <2>6 DEF StagedOK, Leads
  <2> QED
    BY <1>1, <2>6, <2>7, <2>8, SweepsOn DEF Knows
<1>3. CASE ~CandidateStill(r, n, "eligible")
  BY <1>3, GoesDown DEF TrimNext, Knows
<1> QED
  BY <1>2, <1>3

LEMMA RecordRemovalKnows ==
    ASSUME WorkerInv, RecordRemoval
    PROVE  Knows(w')
<1> DEFINE r == w.run
           n == w.node
           c == Worktree(r, n)
           m == calls[r][n]
           b == IF w.removed
                THEN <<CleanupEvent("cleanup.done", r, n, FALSE)>>
                ELSE <<CleanupEvent("cleanup.failed", r, n, c # "absent")>>
<1>1. /\ w \in WorkerState /\ w.pc = "record" /\ Reported(w, runs) /\ w.sweep \in Sweeps
      /\ r \in Runs /\ n \in Nodes /\ w.todo \subseteq DOMAIN order
      /\ w.removed => c = "absent"
  BY InSweep DEF RecordRemoval
<1>2. CASE CandidateStill(r, n, "requested")
  <2>1. Stage(r, n, b, w.sweep, "down")
    BY <1>2 DEF RecordRemoval
  <2>2. RunOK(runs[r]) /\ runs[r].node[n] = "succeeded"
    BY <1>1, <1>2 DEF WorkerInv, LedgerOK, CandidateStill
  <2>3. runs[r].fence[n] \in Tokens /\ runs[r].seq \in Nat
    BY <1>1, <2>2 DEF RunOK, Issued, Sound, RunState
  <2>4. Staged(b, n, c, m) /\ b[1].type \in {"cleanup.done", "cleanup.failed"}
    <3> HIDE DEF c, m
    <3>1. CASE w.removed
      <4>1. b = <<CleanupEvent("cleanup.done", r, n, FALSE)>>
        BY <3>1
      <4>2. /\ Staged(<<CleanupEvent("cleanup.done", r, n, FALSE)>>, n, c, m)
            /\ <<CleanupEvent("cleanup.done", r, n, FALSE)>>[1].type = "cleanup.done"
        BY <1>1, <2>3, <3>1, CleanupBatches
      <4> QED
        BY <4>1, <4>2
    <3>2. CASE ~w.removed
      <4> DEFINE kept == (c # "absent")
      <4>0. kept \in BOOLEAN /\ (kept <=> c # "absent")
        OBVIOUS
      <4>1. b = <<CleanupEvent("cleanup.failed", r, n, kept)>>
        BY <3>2
      <4> HIDE DEF kept, b
      <4>2. /\ Staged(<<CleanupEvent("cleanup.failed", r, n, kept)>>, n, c, m)
            /\ <<CleanupEvent("cleanup.failed", r, n, kept)>>[1].type = "cleanup.failed"
        BY <1>1, <2>3, <4>0, CleanupBatches
      <4> QED
        BY <4>1, <4>2
    <3> QED
      BY <3>1, <3>2
  <2> HIDE DEF b
  <2>5. {"append", "down"} \cup Sweeps \subseteq Control /\ b \in Batches
    BY <2>4 DEF Control, Staged, Sweeps
  <2>6. /\ w' \in WorkerState /\ w'.pc = "append" /\ w'.sweep = w.sweep /\ w'.todo = w.todo
        /\ w'.cycle = w.cycle /\ w'.claimed = w.claimed /\ w'.run = r /\ w'.node = n
        /\ w'.ok = w.sweep /\ w'.err = "down" /\ w'.batch = b
    BY <1>1, <2>1, <2>3, <2>5 DEF WorkerState, Stage
  <2>7. Reported(w', runs) /\ Placed(w')
    BY <1>1, <2>6 DEF Reported, Placed
  <2>8. StagedOK(w', disk[w'.run][runs[w'.run].fence[w'.node]], calls[w'.run][w'.node],
                 runs[w'.run])
    BY <1>1, <2>4, <2>6 DEF StagedOK, Leads, Worktree
  <2>9. /\ w' \in WorkerState /\ w'.pc = "append" /\ w'.ok \in {"recover", "trim", "remove"}
        /\ w'.sweep \in Sweeps /\ w'.todo \subseteq DOMAIN order
    BY <1>1, <2>6 DEF Sweeps
  <2> HIDE DEF r, n, c, m
  <2> QED
    BY <2>7, <2>8, <2>9, SweepsOn DEF Knows
<1>3. CASE ~CandidateStill(r, n, "requested")
  BY <1>3, GoesDown DEF RecordRemoval, Knows
<1> QED
  BY <1>2, <1>3

LEMMA EndMaintenanceKnows ==
    ASSUME WorkerInv, EndMaintenance
    PROVE  Knows(w')
<1> DEFINE N == Cardinality(Candidates)
           quota == N <= MaxRetained
<1>1. w \in WorkerState /\ w.pc = "trim" /\ Reported(w, runs) /\ w.once \in BOOLEAN
  BY InSweep DEF EndMaintenance, WorkerState
<1>2. quota \in BOOLEAN /\ "exited" \in Control
  BY DEF Control
<1>3. CASE w.once /\ w.cycle # "none"
  <2>1. w' = [w EXCEPT !.pc = "exited", !.quota = quota]
    BY <1>3 DEF EndMaintenance
  <2> HIDE DEF quota
  <2>2. /\ w' \in WorkerState /\ w'.pc = "exited" /\ w'.cycle = w.cycle /\ w'.claimed = w.claimed
    BY <1>1, <1>2, <2>1 DEF WorkerState
  <2>3. Reported(w', runs)
    BY <1>1, <2>2 DEF Reported
  <2> QED
    BY <1>3, <2>2, <2>3, Rests DEF Knows
<1>4. CASE ~(w.once /\ w.cycle # "none")
  <2>1. w' = [Idle EXCEPT !.quota = quota, !.once = w.once]
    BY <1>4 DEF EndMaintenance
  <2>2. quota => N <= MaxRetained
    OBVIOUS
  <2> HIDE DEF quota, N
  <2>3. WorkerAt([Idle EXCEPT !.quota = quota, !.once = w.once], runs, disk, calls, DOMAIN queue,
                 DOMAIN order, N)
    BY <1>1, <1>2, <2>2, Idles
  <2> QED
    BY <2>1, <2>3 DEF Knows, N
<1> QED
  BY <1>3, <1>4

(* reconcile_startup: the batch that ends a surviving lease is true of its checkout. *)
LEMMA Reconciliations ==
    ASSUME NEW r \in Runs, NEW n \in Nodes, runs[r].fence[n] \in Tokens,
           runs[r].cancel \in BOOLEAN, Worktree(r, n) \in Checkout,
           NEW found \in Retain(r, n), NEW m
    PROVE  /\ Staged(ReconciliationOf(r, n, found), n, Worktree(r, n), m)
           /\ ReconciliationOf(r, n, found)[1].type
                  \in {"node.canceled", "node.reconciliation", "node.requeued"}
<1> DEFINE c == Worktree(r, n)
           b == ReconciliationOf(r, n, found)
<1>1. \/ found = "missing" /\ c = "absent"
      \/ found = "error"
      \/ found = c /\ found \in {"unchanged", "dirty", "committed"}
  BY Retains
<1>2. Inspection = {"none", "unchanged", "committed", "dirty"}
  BY DEF Inspection
<1> HIDE DEF c
<1>3. /\ c = "absent" =>
            /\ Staged(MissingCanceledBatch(r, n), n, c, m)
            /\ MissingCanceledBatch(r, n)[1].type = "node.canceled"
            /\ Staged(RequeueBatch(r, n, "none"), n, c, m)
            /\ RequeueBatch(r, n, "none")[1].type = "node.requeued"
      /\ Staged(ReconciliationBatch(r, n, "none"), n, c, m)
      /\ ReconciliationBatch(r, n, "none")[1].type = "node.reconciliation"
  <2>1. "none" \in Inspection
    BY <1>2
  <2> QED
    BY <2>1, LeaseBatches
<1>4. ASSUME found = c, found \in {"unchanged", "dirty", "committed"}
      PROVE  /\ Staged(CanceledBatch(r, n, found), n, c, m)
             /\ CanceledBatch(r, n, found)[1].type = "node.canceled"
             /\ Staged(ReconciliationBatch(r, n, found), n, c, m)
             /\ ReconciliationBatch(r, n, found)[1].type = "node.reconciliation"
  <2>1. found \in Inspection /\ found # "none"
    BY <1>2, <1>4
  <2> QED
    BY <1>4, <2>1, LeaseBatches
<1>5. ASSUME found = c, found = "unchanged"
      PROVE  /\ Staged(RequeueBatch(r, n, found), n, c, m)
             /\ RequeueBatch(r, n, found)[1].type = "node.requeued"
  <2>1. found \in Inspection /\ c \notin {"dirty", "committed"}
    BY <1>2, <1>5
  <2> QED
    BY <2>1, LeaseBatches
<1>6. CASE found = "missing"
  <2>1. \/ b = MissingCanceledBatch(r, n)
        \/ b = ReconciliationBatch(r, n, "none")
        \/ b = RequeueBatch(r, n, "none")
    <3>1. CASE runs[r].cancel
      BY <1>2, <1>6, <3>1 DEF ReconciliationOf
    <3>2. CASE ~runs[r].cancel /\ runs[r].dispatched
      BY <1>6, <3>2 DEF ReconciliationOf
    <3>3. CASE ~runs[r].cancel /\ ~runs[r].dispatched
      BY <1>6, <3>3 DEF ReconciliationOf
    <3> QED
      BY <3>1, <3>2, <3>3
  <2> HIDE DEF b
  <2>2. Staged(b, n, c, m)
        /\ b[1].type \in {"node.canceled", "node.reconciliation", "node.requeued"}
    BY <1>1, <1>3, <1>6, <2>1
  <2> QED
    BY <2>2 DEF b, c
<1>7. CASE found = "error"
  <2>1. b = ReconciliationBatch(r, n, "none")
    BY <1>2, <1>7 DEF ReconciliationOf
  <2> QED
    BY <1>3, <2>1 DEF c
<1>8. CASE found = c /\ found \in {"unchanged", "dirty", "committed"}
  <2>1. \/ b = CanceledBatch(r, n, found)
        \/ found = "unchanged" /\ b = RequeueBatch(r, n, found)
        \/ b = ReconciliationBatch(r, n, found)
    BY <1>2, <1>8 DEF ReconciliationOf
  <2> HIDE DEF b
  <2>2. Staged(b, n, c, m)
        /\ b[1].type \in {"node.canceled", "node.reconciliation", "node.requeued"}
    BY <1>4, <1>5, <1>8, <2>1
  <2> QED
    BY <2>2 DEF b, c
<1> QED
  BY <1>1, <1>6, <1>7, <1>8

LEMMA ReconcileNextKnows ==
    ASSUME WorkerInv, ReconcileNext
    PROVE  Knows(w')
<1> DEFINE i == Min(w.todo)
           r == queue[i]
           n == runs[r].active
           T == w.todo \ {i}
<1>0. /\ w \in WorkerState /\ w.pc = "reconcile" /\ w.todo # {}
      /\ PlaceOK(w, DOMAIN queue, DOMAIN order, Cardinality(Candidates)) /\ queue \in Seq(Runs)
  BY DEF WorkerInv, WorkerAt, ReconcileNext
<1>1. /\ w.cycle = "none" /\ w.todo \subseteq DOMAIN queue /\ w.todo \in SUBSET Nat
  BY <1>0 DEF PlaceOK, Reconciling, WorkerState
<1>2. i \in DOMAIN queue
  BY <1>0, <1>1, LeastPosition
<1>3. r \in Runs
  BY <1>0, <1>2
<1>4. T \subseteq DOMAIN queue /\ T \in SUBSET Nat
  BY <1>1
<1>5. CASE n = None
  <2>1. w' = [w EXCEPT !.todo = T]
    BY <1>5 DEF ReconcileNext
  <2> HIDE DEF T
  <2>2. w' \in WorkerState /\ w'.pc = "reconcile" /\ w'.cycle = "none" /\ w'.todo = T
    BY <1>0, <1>1, <1>4, <2>1 DEF WorkerState
  <2> QED
    BY <1>4, <2>2, Rests DEF Knows
<1>6. CASE n # None
  <2>1. PICK found \in Retain(r, n) :
            w' = [w EXCEPT !.pc = "append", !.run = r, !.node = n, !.seq = runs[r].seq,
                           !.batch = ReconciliationOf(r, n, found),
                           !.ok = "reconcile", !.err = "down", !.todo = T]
    BY <1>6 DEF ReconcileNext
  <2> DEFINE b == ReconciliationOf(r, n, found)
             m == calls[r][n]
  <2> HIDE DEF T, r, i
  <2>2. RunOK(runs[r]) /\ disk[r] \in Disk
    BY <1>3 DEF WorkerInv, LedgerOK
  <2>3. n \in Nodes /\ runs[r].seq \in Nat /\ runs[r].cancel \in BOOLEAN
    BY <1>6, <2>2 DEF RunOK, Sound, RunState
  <2>4. runs[r].fence[n] \in Tokens
    BY <2>2, <2>3 DEF RunOK, Sound, OneLease, Issued
  <2>5. Worktree(r, n) \in Checkout
    BY <2>2, <2>4 DEF Worktree, Disk
  <2>6. /\ Staged(b, n, Worktree(r, n), m)
        /\ b[1].type \in {"node.canceled", "node.reconciliation", "node.requeued"}
    BY <1>3, <2>1, <2>3, <2>4, <2>5, Reconciliations
  <2> HIDE DEF b, m
  <2>7. {"append", "reconcile", "down"} \subseteq Control /\ b \in Batches
    BY <2>6 DEF Control, Staged
  <2>8. w' = [w EXCEPT !.pc = "append", !.run = r, !.node = n, !.seq = runs[r].seq,
                       !.batch = b, !.ok = "reconcile", !.err = "down", !.todo = T]
    BY <2>1 DEF b
  <2>9. /\ w' \in WorkerState /\ w'.pc = "append" /\ w'.run = r /\ w'.node = n /\ w'.todo = T
        /\ w'.cycle = "none" /\ w'.ok = "reconcile" /\ w'.err = "down" /\ w'.batch = b
    BY <1>0, <1>1, <1>3, <1>4, <2>3, <2>7, <2>8 DEF WorkerState
  <2>10. ~InCycle(w') /\ ~Sweeping(w') /\ ~Reporting(w') /\ w'.pc \notin Working \cup {"record"}
    BY <2>9 DEF InCycle, Sweeping, Reporting, Working
  <2>11. PlaceOK(w', DOMAIN queue, DOMAIN order, Cardinality(Candidates))
    BY <1>3, <1>4, <2>3, <2>9, <2>10 DEF PlaceOK, Placed
  <2>12. StagedOK(w', disk[w'.run][runs[w'.run].fence[w'.node]], calls[w'.run][w'.node],
                  runs[w'.run])
    BY <2>6, <2>9 DEF StagedOK, Leads, Worktree, m
  <2> QED
    BY <2>9, <2>10, <2>11, <2>12 DEF Knows, WorkerAt
<1> QED
  BY <1>5, <1>6

(* The claim: the worker has found the quota satisfied. *)
LEMMA ClaimNodeKnows ==
    ASSUME WorkerInv, NEW r \in Runs, NEW n \in Nodes, ClaimNode(r, n)
    PROVE  Knows(w')
<1> DEFINE b == ClaimBatch(r, n)
<1>1. /\ w \in WorkerState /\ w.pc = "idle" /\ w.quota /\ Claiming(r, n)
      /\ NewestFence(runs[r]) < MaxFence /\ RunOK(runs[r])
      /\ PlaceOK(w, DOMAIN queue, DOMAIN order, Cardinality(Candidates))
  BY DEF WorkerInv, WorkerAt, ClaimNode, LedgerOK
<1>2. Cardinality(Candidates) <= MaxRetained /\ runs[r].seq \in Nat
  BY <1>1 DEF PlaceOK, RunOK, Sound, RunState
<1>3. /\ Staged(b, n, disk[r][runs[r].fence[n]], calls[r][n])
      /\ b[1].type = "node.claimed"
  BY <1>1, ClaimBatches
<1>4. {"append", "create", "conflict"} \subseteq Control /\ b \in Batches
  BY <1>3 DEF Control, Staged
<1>5. w' = [w EXCEPT !.pc = "append", !.run = r, !.node = n, !.seq = runs[r].seq, !.batch = b,
                     !.ok = "create", !.err = "conflict", !.claimed = <<r, n>>]
  BY <1>1 DEF Claiming
<1> HIDE DEF b
<1>6. /\ w' \in WorkerState /\ w'.pc = "append" /\ w'.run = r /\ w'.node = n
      /\ w'.ok = "create" /\ w'.err = "conflict" /\ w'.batch = b /\ w'.claimed = <<r, n>>
      /\ w'.quota
  BY <1>1, <1>2, <1>4, <1>5 DEF WorkerState
<1>7. /\ ~Reconciling(w') /\ ~Sweeping(w') /\ ~Reporting(w')
      /\ w'.pc \notin Working \cup {"record"}
  BY <1>6 DEF Reconciling, Sweeping, Reporting, Working
<1>8. PlaceOK(w', DOMAIN queue, DOMAIN order, Cardinality(Candidates))
  BY <1>2, <1>6, <1>7 DEF PlaceOK, Placed
<1>9. StagedOK(w', disk[w'.run][runs[w'.run].fence[w'.node]], calls[w'.run][w'.node],
               runs[w'.run])
  BY <1>3, <1>6 DEF StagedOK, Leads
<1> QED
  BY <1>6, <1>7, <1>8, <1>9 DEF Knows, WorkerAt

----------------------------------------------------------------------------
(* The steps that write to a checkout or call the provider *)

(* A step that changes nothing but the worker. *)
LEMMA QuietKept ==
    ASSUME WorkerInv, Quiet, Knows(w')
    PROVE  WorkerInv'
<1>1. Candidates' = Candidates
  BY DEF Quiet, Candidates
<1>2. LedgerOK' /\ OrderOK'
  BY DEF WorkerInv, LedgerOK, OrderOK, Quiet
<1> QED
  BY <1>1, <1>2 DEF WorkerInv, Knows, Quiet

(* The checkout of the active lease, or of a removal that is requested, is written. *)
LEMMA Written ==
    ASSUME WorkerInv, NEW r \in Runs, NEW n \in Nodes, NEW c \in Checkout,
           SetWorktree(r, n, c), UNCHANGED <<runs, calls>>,
           runs[r].active = n \/ CandidateStill(r, n, "requested")
    PROVE  LedgerOK' /\ disk'[r][runs[r].fence[n]] = c
<1> DEFINE x == runs[r]
           f == x.fence[n]
           d == [disk[r] EXCEPT ![f] = c]
<1>1. /\ RunOK(x) /\ disk[r] \in Disk /\ calls[r] \in Calls /\ DiskOK(x, disk[r], calls[r])
      /\ disk \in [Runs -> Disk]
  BY DEF WorkerInv, LedgerOK
<1>2. x.active = n \/ (x.node[n] = "succeeded" /\ x.retained[n] /\ x.cleanup[n] = "requested")
  BY DEF CandidateStill
<1>3. f \in Tokens /\ d \in Disk /\ DiskOK(x, d, calls[r])
  BY <1>1, <1>2, WriteKept
<1>4. disk' = [disk EXCEPT ![r] = d]
  BY DEF SetWorktree
<1>5. d[f] = c
  BY <1>1, <1>3 DEF Disk
<1> HIDE DEF d, f
<1>6. disk' \in [Runs -> Disk] /\ disk'[r] = d /\ \A q \in Runs : q # r => disk'[q] = disk[q]
  BY <1>1, <1>3, <1>4
<1>7. ASSUME NEW q \in Runs PROVE DiskOK(runs[q], disk'[q], calls[q])
  <2>1. CASE q = r
    BY <1>3, <1>6, <2>1
  <2>2. CASE q # r
    BY <1>6, <2>2 DEF WorkerInv, LedgerOK
  <2> QED
    BY <2>1, <2>2
<1> QED
  BY <1>5, <1>6, <1>7 DEF WorkerInv, LedgerOK, f

(* What else such a step must keep. *)
LEMMA WriteStep ==
    ASSUME WorkerInv, UNCHANGED <<runs, queue, order, calls, api>>, LedgerOK',
           WorkerAt(w', runs, disk', calls, DOMAIN queue, DOMAIN order, Cardinality(Candidates))
    PROVE  WorkerInv'
<1>1. Candidates' = Candidates /\ OrderOK'
  BY DEF Candidates, WorkerInv, OrderOK
<1> QED
  BY <1>1 DEF WorkerInv

(* The worker at work writes to its checkout and goes on where what it wrote is known. *)
LEMMA WritesOn ==
    ASSUME WorkerInv, w.pc \in Working, NEW p \in Working, NEW c \in Checkout,
           SetWorktree(w.run, w.node, c), Goto(p), UNCHANGED <<runs, queue, order, calls, api>>,
           Progress([w EXCEPT !.pc = p], c, calls[w.run][w.node], runs[w.run])
    PROVE  WorkerInv'
<1>1. w.run \in Runs /\ w.node \in Nodes /\ runs[w.run].active = w.node
  BY AtWork DEF Holds
<1>2. LedgerOK' /\ disk'[w.run][runs[w.run].fence[w.node]] = c
  BY <1>1, Written
<1>3. WorkerAt([w EXCEPT !.pc = p], runs, disk', calls, DOMAIN queue, DOMAIN order,
               Cardinality(Candidates))
  BY <1>2, Moves DEF WorkerInv
<1> QED
  BY <1>2, <1>3, WriteStep DEF Goto

LEMMA Anything ==
    ASSUME WorkerInv, w.pc \in Working, NEW p \in Plain, NEW c, NEW m, NEW x
    PROVE  Progress([w EXCEPT !.pc = p], c, m, x) /\ p \in Working
<1>1. w \in WorkerState
  BY AtWork
<1> QED
  BY <1>1 DEF Progress, Plain, WorkerState, Working

LEMMA CreateKept ==
    ASSUME WorkerInv, CreateWorktree \/ CreateFails
    PROVE  WorkerInv'
<1>1. w.pc = "create" /\ w.pc \in Working /\ UNCHANGED <<runs, queue, order, calls, api>>
  BY DEF CreateWorktree, CreateFails, Working
<1>2. w \in WorkerState
  BY <1>1, AtWork
<1>3. CASE SetWorktree(w.run, w.node, "unchanged") /\ Goto("prepare")
  <2>1. /\ Progress([w EXCEPT !.pc = "prepare"], "unchanged", calls[w.run][w.node], runs[w.run])
        /\ "prepare" \in Working /\ "unchanged" \in Checkout
    BY <1>2 DEF Progress, WorkerState, Working, Checkout
  <2> QED
    BY <1>1, <1>3, <2>1, WritesOn
<1>4. CASE Goto("createFailed")
           /\ \E left \in {"absent", "unchanged", "broken"} : SetWorktree(w.run, w.node, left)
  <2>1. PICK left \in {"absent", "unchanged", "broken"} : SetWorktree(w.run, w.node, left)
    BY <1>4
  <2>2. left \in Checkout /\ "createFailed" \in Plain
    BY DEF Checkout, Plain
  <2>3. /\ Progress([w EXCEPT !.pc = "createFailed"], left, calls[w.run][w.node], runs[w.run])
        /\ "createFailed" \in Working
    BY <1>1, <2>2, Anything
  <2> QED
    BY <1>1, <1>4, <2>1, <2>2, <2>3, WritesOn
<1> QED
  BY <1>3, <1>4 DEF CreateWorktree, CreateFails

LEMMA ApplyKept ==
    ASSUME WorkerInv, ApplyChanges
    PROVE  WorkerInv'
<1>1. w.pc = "apply" /\ w.pc \in Working /\ UNCHANGED <<runs, queue, order, calls, api>>
  BY DEF ApplyChanges, Working
<1>2. w \in WorkerState /\ calls[w.run][w.node] = 1
  BY <1>1, AtWork DEF Progress
<1>3. CASE SetWorktree(w.run, w.node, "dirty") /\ Goto("commit")
  <2>1. /\ Progress([w EXCEPT !.pc = "commit"], "dirty", calls[w.run][w.node], runs[w.run])
        /\ "commit" \in Working /\ "dirty" \in Checkout
    BY <1>2 DEF Progress, WorkerState, Working, Checkout
  <2> QED
    BY <1>1, <1>3, <2>1, WritesOn
<1>4. CASE Goto("error") /\ \E left \in {"unchanged", "dirty"} : SetWorktree(w.run, w.node, left)
  <2>1. PICK left \in {"unchanged", "dirty"} : SetWorktree(w.run, w.node, left)
    BY <1>4
  <2>2. left \in Checkout /\ "error" \in Plain
    BY DEF Checkout, Plain
  <2>3. /\ Progress([w EXCEPT !.pc = "error"], left, calls[w.run][w.node], runs[w.run])
        /\ "error" \in Working
    BY <1>1, <2>2, Anything
  <2> QED
    BY <1>1, <1>4, <2>1, <2>2, <2>3, WritesOn
<1>5. CASE Goto("error") /\ UNCHANGED disk
  <2>1. Quiet /\ Knows(w')
    BY <1>1, <1>5, GotoPlain DEF ApplyChanges, Quiet, Plain
  <2> QED
    BY <2>1, QuietKept
<1> QED
  BY <1>3, <1>4, <1>5 DEF ApplyChanges

LEMMA CommitKept ==
    ASSUME WorkerInv, CommitChanges
    PROVE  WorkerInv'
<1> DEFINE d == Worktree(w.run, w.node)
           done == IF d = "dirty" THEN "committed" ELSE d
           m == calls[w.run][w.node]
<1>1. w.pc = "commit" /\ w.pc \in Working /\ UNCHANGED <<runs, queue, order, calls, api>>
  BY DEF CommitChanges, Working
<1>2. w \in WorkerState /\ d \in Checkout /\ (w.node \in Writers => m = 1 /\ d = "dirty")
  BY <1>1, AtWork DEF Progress
<1>3. done \in Checkout /\ (w.node \in Writers => m = 1 /\ done = "committed")
  BY <1>2 DEF Checkout
<1>4. CASE Goto("error") /\ UNCHANGED disk
  <2>1. Quiet /\ Knows(w')
    BY <1>1, <1>4, GotoPlain DEF CommitChanges, Quiet, Plain
  <2> QED
    BY <2>1, QuietKept
<1>5. CASE SetWorktree(w.run, w.node, done) /\ Goto("checks")
  <2> HIDE DEF done, m
  <2>1. Progress([w EXCEPT !.pc = "checks"], done, m, runs[w.run]) /\ "checks" \in Working
    BY <1>2, <1>3 DEF Progress, WorkerState, Working
  <2> QED
    BY <1>1, <1>3, <1>5, <2>1, WritesOn DEF m
<1>6. CASE Goto("error") /\ \E left \in {d, done} : SetWorktree(w.run, w.node, left)
  <2>1. PICK left \in {d, done} : SetWorktree(w.run, w.node, left)
    BY <1>6
  <2>2. left \in Checkout /\ "error" \in Plain
    BY <1>2, <1>3 DEF Plain
  <2>3. /\ Progress([w EXCEPT !.pc = "error"], left, m, runs[w.run])
        /\ "error" \in Working
    BY <1>1, <2>2, Anything
  <2> QED
    BY <1>1, <1>6, <2>1, <2>2, <2>3, WritesOn
<1> QED
  BY <1>4, <1>5, <1>6 DEF CommitChanges

LEMMA RemoveKept ==
    ASSUME WorkerInv, RemoveCheckout
    PROVE  WorkerInv'
<1> DEFINE d == Worktree(w.run, w.node)
<1>1. /\ w.pc = "remove" /\ w \in WorkerState /\ w.sweep \in Sweeps
      /\ w.todo \subseteq DOMAIN order /\ Reported(w, runs) /\ w.run \in Runs /\ w.node \in Nodes
      /\ UNCHANGED <<runs, queue, order, calls, api>>
  BY InSweep DEF RemoveCheckout
<1>2. CASE w' = Down /\ UNCHANGED disk
  <2>1. Quiet /\ Knows(w')
    BY <1>2, GoesDown DEF RemoveCheckout, Quiet, Knows
  <2> QED
    BY <2>1, QuietKept
<1>3. ASSUME CandidateStill(w.run, w.node, "requested"), NEW left \in Checkout,
             SetWorktree(w.run, w.node, left), NEW removed \in BOOLEAN,
             w' = [w EXCEPT !.pc = "record", !.removed = removed], removed => left = "absent"
      PROVE  WorkerInv'
  <2>1. LedgerOK' /\ disk'[w.run][runs[w.run].fence[w.node]] = left
    BY <1>1, <1>3, Written
  <2>2. "record" \in Control
    BY DEF Control
  <2>3. /\ w' \in WorkerState /\ w'.pc = "record" /\ w'.sweep = w.sweep /\ w'.todo = w.todo
        /\ w'.run = w.run /\ w'.node = w.node /\ w'.removed = removed
        /\ w'.cycle = w.cycle /\ w'.claimed = w.claimed
    BY <1>1, <1>3, <2>2 DEF WorkerState
  <2>4. Reported(w', runs) /\ Placed(w')
    BY <1>1, <2>3 DEF Reported, Placed
  <2>5. /\ w' \in WorkerState /\ w'.pc = "record" /\ w'.sweep \in Sweeps
        /\ w'.todo \subseteq DOMAIN order
        /\ w'.removed => disk'[w'.run][runs[w'.run].fence[w'.node]] = "absent"
    BY <1>1, <1>3, <2>1, <2>3
  <2>6. WorkerAt(w', runs, disk', calls, DOMAIN queue, DOMAIN order, Cardinality(Candidates))
    BY <2>4, <2>5, SweepsOn
  <2> QED
    BY <1>1, <2>1, <2>6, WriteStep
<1>4. CASE CandidateStill(w.run, w.node, "requested")
  <2>1. RunOK(runs[w.run]) /\ disk[w.run] \in Disk /\ runs[w.run].node[w.node] = "succeeded"
    BY <1>1, <1>4 DEF WorkerInv, LedgerOK, CandidateStill
  <2>2. d \in Checkout /\ "absent" \in Checkout /\ "broken" \in Checkout
    BY <1>1, <2>1 DEF RunOK, Issued, Worktree, Disk, Checkout
  <2>3. CASE /\ SetWorktree(w.run, w.node, "absent")
             /\ w' = [w EXCEPT !.pc = "record", !.removed = TRUE]
    BY <1>3, <1>4, <2>2, <2>3
  <2>4. CASE /\ \E left \in {d, "absent", "broken"} : SetWorktree(w.run, w.node, left)
             /\ w' = [w EXCEPT !.pc = "record", !.removed = FALSE]
    BY <1>3, <1>4, <2>2, <2>4
  <2> QED
    BY <1>4, <2>3, <2>4 DEF RemoveCheckout
<1> QED
  BY <1>2, <1>4 DEF RemoveCheckout

(* A crash loses the worker and may tear what it was writing. *)
LEMMA TornCheckout ==
    ASSUME NEW pc, NEW d \in Checkout, NEW c \in Torn(pc, d)
    PROVE  c \in Checkout
  BY DEF Torn, Checkout

LEMMA CrashKept ==
    ASSUME WorkerInv, Crash
    PROVE  WorkerInv'
<1>1. /\ w' = Down /\ UNCHANGED <<runs, queue, order, calls, api>>
      /\ WorkerAt(w', runs, disk', calls, DOMAIN queue, DOMAIN order, Cardinality(Candidates))
  BY GoesDown DEF Crash
<1>2. CASE UNCHANGED disk
  BY <1>1, <1>2, WriteStep DEF WorkerInv, LedgerOK
<1>3. CASE /\ w.pc \in {"create", "apply", "commit"}
                  \/ (w.pc = "remove" /\ CandidateStill(w.run, w.node, "requested"))
           /\ \E d \in Torn(w.pc, Worktree(w.run, w.node)) : SetWorktree(w.run, w.node, d)
  <2>1. PICK d \in Torn(w.pc, Worktree(w.run, w.node)) : SetWorktree(w.run, w.node, d)
    BY <1>3
  <2>2. /\ w.run \in Runs /\ w.node \in Nodes /\ Worktree(w.run, w.node) \in Checkout
        /\ runs[w.run].active = w.node \/ CandidateStill(w.run, w.node, "requested")
    <3>1. CASE w.pc \in {"create", "apply", "commit"}
      BY <3>1, AtWork DEF Working, Holds
    <3>2. CASE w.pc = "remove" /\ CandidateStill(w.run, w.node, "requested")
      <4>1. w.run \in Runs /\ w.node \in Nodes
        BY <3>2, InSweep
      <4>2. RunOK(runs[w.run]) /\ disk[w.run] \in Disk /\ runs[w.run].node[w.node] = "succeeded"
        BY <3>2, <4>1 DEF WorkerInv, LedgerOK, CandidateStill
      <4> QED
        BY <3>2, <4>1, <4>2 DEF RunOK, Issued, Worktree, Disk
    <3> QED
      BY <1>3, <3>1, <3>2
  <2>3. d \in Checkout
    BY <2>1, <2>2, TornCheckout
  <2>4. LedgerOK'
    BY <1>1, <2>1, <2>2, <2>3, Written
  <2> QED
    BY <1>1, <2>4, WriteStep
<1> QED
  BY <1>2, <1>3 DEF Crash

(* The call that was recorded is made. *)
LEMMA CallProviderKept ==
    ASSUME WorkerInv, CallProvider
    PROVE  WorkerInv'
<1> DEFINE r == w.run
           n == w.node
           k == [calls[r] EXCEPT ![n] = @ + 1]
<1>1. w.pc = "propose" /\ w.pc \in Working /\ UNCHANGED <<runs, queue, order, disk, api>>
  BY DEF CallProvider, Working
<1>2. /\ w \in WorkerState /\ r \in Runs /\ n \in Nodes /\ runs[r].active = n
      /\ RunOK(runs[r]) /\ calls[r][n] < runs[r].calls[n] /\ n \in Writers
  BY <1>1, AtWork DEF Progress, Holds
<1>3. /\ disk[r] \in Disk /\ calls[r] \in Calls /\ calls \in [Runs -> Calls]
      /\ DiskOK(runs[r], disk[r], calls[r])
  BY <1>2 DEF WorkerInv, LedgerOK
<1>4. k \in Calls /\ k[n] = 1 /\ DiskOK(runs[r], disk[r], k)
  BY <1>2, <1>3, CallKept
<1>5. calls' = [calls EXCEPT ![r] = k]
  BY DEF CallProvider
<1> HIDE DEF k
<1>6. calls' \in [Runs -> Calls] /\ calls'[r] = k /\ \A q \in Runs : q # r => calls'[q] = calls[q]
  BY <1>2, <1>3, <1>4, <1>5
<1>7. ASSUME NEW q \in Runs PROVE DiskOK(runs[q], disk[q], calls'[q])
  <2>1. CASE q = r
    BY <1>4, <1>6, <2>1
  <2>2. CASE q # r
    BY <1>6, <2>2 DEF WorkerInv, LedgerOK
  <2> QED
    BY <2>1, <2>2
<1>8. LedgerOK'
  BY <1>1, <1>6, <1>7 DEF WorkerInv, LedgerOK
<1>9. PICK p \in {"apply", "error"} : Goto(p)
  BY DEF CallProvider
<1>10. /\ p \in Working
       /\ Progress([w EXCEPT !.pc = p], disk[r][runs[r].fence[n]], calls'[r][n], runs[r])
  BY <1>2, <1>4, <1>6, <1>9 DEF Progress, WorkerState, Working
<1>11. WorkerAt([w EXCEPT !.pc = p], runs, disk, calls', DOMAIN queue, DOMAIN order,
                Cardinality(Candidates))
  BY <1>1, <1>10, Moves DEF WorkerInv
<1>12. Candidates' = Candidates /\ OrderOK'
  BY <1>1 DEF Candidates, WorkerInv, OrderOK
<1> QED
  BY <1>1, <1>8, <1>9, <1>11, <1>12 DEF WorkerInv, Goto

----------------------------------------------------------------------------
(* The steps that append to the ledger *)

(* The time of the append changes nothing of what a batch says. *)
LEMMA StampedEvent ==
    ASSUME NEW e \in Events, NEW late \in BOOLEAN, NEW c, NEW m
    PROVE  /\ Stamp(e, late) \in Events /\ Stamp(e, late).type = e.type
           /\ e \in RunEvents => Stamp(e, late) = e
           /\ e.type \notin {"run.cancel-requested", "run.succeeded", "run.failed",
                             "run.canceled", "run.reconciliation"} =>
                 Stamp(e, late).node = e.node
           /\ e.type = "node.claimed" => Stamp(e, late).by = e.by
           /\ TrueEvent(e, c, m) => TrueEvent(Stamp(e, late), c, m)
<1>1. CASE e \in WorkerEvents
  <2> DEFINE s == Stamp(e, late)
  <2>1. s = [e EXCEPT !.late = late]
    BY <1>1 DEF Stamp
  <2>2. /\ s \in WorkerEvents /\ s.type = e.type /\ s.node = e.node /\ s.insp = e.insp
        /\ e.type \in {"worktree.prepared", "dispatch.started", "node.succeeded", "node.failed"}
        /\ s.type \in {"worktree.prepared", "dispatch.started", "node.succeeded", "node.failed"}
    BY <1>1, <2>1 DEF WorkerEvents
  <2>3. e \notin RunEvents
    BY <2>2 DEF RunEvents
  <2> HIDE DEF s
  <2>4. TrueEvent(e, c, m) => TrueEvent(s, c, m)
    BY <2>2 DEF TrueEvent, Inspected
  <2> QED
    BY <2>2, <2>3, <2>4 DEF s, Events
<1>2. CASE e \notin WorkerEvents
  BY <1>2 DEF Stamp
<1> QED
  BY <1>1, <1>2

LEMMA StampedBatch ==
    ASSUME NEW b \in Batches, NEW late \in BOOLEAN
    PROVE  Stamped(b, late) \in Batches /\ Stamped(b, late)[1] = Stamp(b[1], late)
<1> DEFINE s == Stamped(b, late)
<1>1. b \in Seq(Events) /\ Len(b) \in 1 .. 2 /\ (Len(b) = 2 => b[2] \in RunEvents)
  BY DEF Batches
<1>2. DOMAIN b = 1 .. Len(b) /\ \A i \in DOMAIN b : b[i] \in Events
  BY <1>1
<1>3. s = [i \in 1 .. Len(b) |-> Stamp(b[i], late)]
  BY <1>2 DEF Stamped
<1>4. \A i \in 1 .. Len(b) : Stamp(b[i], late) \in Events
  BY <1>2, StampedEvent
<1> HIDE DEF s
<1>5. s \in Seq(Events) /\ Len(s) = Len(b)
  BY <1>1, <1>3, <1>4
<1>6. s[1] = Stamp(b[1], late)
  BY <1>1, <1>3
<1>7. Len(b) = 2 => s[2] \in RunEvents
  <2>1. ASSUME Len(b) = 2 PROVE s[2] = Stamp(b[2], late) /\ b[2] \in Events /\ b[2] \in RunEvents
    BY <1>1, <1>2, <1>3, <2>1
  <2> QED
    BY <2>1, StampedEvent
<1> QED
  BY <1>1, <1>5, <1>6, <1>7 DEF Batches, s

(* A batch ends nothing that is over, and among the nodes that have succeeded before
   it none has its checkout back. *)
LEMMA BatchRetention ==
    ASSUME NEW r, Sound(r), NEW b \in Batches, AcceptsBatch(r, b)
    PROVE  \A n \in Nodes :
               /\ r.node[n] \in Done => FoldBatch(r, b).node[n] = r.node[n]
               /\ r.node[n] = "succeeded" /\ FoldBatch(r, b).retained[n] => r.retained[n]
<1> DEFINE s == FoldBatch(r, b)
           e == b[1]
           q == Apply(r, e)
<1>1. e \in Events /\ Accepts(r, e) /\ SameWork(q, s)
  BY BatchEffect
<1>2. Advances(r, s)
  BY BatchGrows, GrowsSound
<1>3. EventAccepted(r, e) /\ r \in RunState
  BY <1>1 DEF Accepts, Sound
<1>4. ASSUME NEW n \in Nodes, r.node[n] = "succeeded", q.retained[n] PROVE r.retained[n]
  <2> HIDE DEF e
  <2>2. CASE e.type = "node.claimed"
    BY <1>1, <1>3, <1>4, <2>2, ClaimEffect
  <2>3. CASE e.type = "worktree.prepared"
    BY <1>1, <1>3, <1>4, <2>3, PreparedEffect
  <2>4. CASE e.type = "dispatch.started"
    BY <1>1, <1>4, <2>4, DispatchEffect
  <2>5. CASE e.type \in LeaseOutcomes
    <3>1. /\ r.active = e.node /\ e.node \in Nodes
          /\ \A k \in Nodes : k # e.node => q.retained[k] = r.retained[k]
      BY <1>1, <2>5, OutcomeEffect
    <3>2. r.node[e.node] \in {"claimed", "running"}
      BY <3>1 DEF Sound, OneLease
    <3> QED
      BY <1>4, <3>1, <3>2
  <2>6. CASE e.type \in Cleanups
    <3>1. /\ r.retained[e.node] /\ e.node \in Nodes
          /\ \A k \in Nodes : k # e.node => q.retained[k] = r.retained[k]
      BY <1>1, <1>3, <2>6, CleanupEffect DEF Cleanups
    <3> QED
      BY <1>4, <3>1
  <2>7. CASE e.type \in {"run.cancel-requested", "run.succeeded", "run.failed", "run.canceled",
                        "run.reconciliation"}
    <3>1. e \in RunEvents \cup CancelEvents
      BY <1>1, <2>7 DEF Events, ClaimEvents, WorkerEvents, LeaseEvents, CleanupEvents
    <3>2. SameWork(r, q)
      BY <1>3, <3>1, RunEffect
    <3> QED
      BY <1>4, <3>2 DEF SameWork
  <2> QED
    BY <1>3, <2>2, <2>3, <2>4, <2>5, <2>6, <2>7 DEF EventAccepted, LeaseOutcomes, Cleanups
<1> HIDE DEF q, s
<1>5. \A n \in Nodes : s.retained[n] = q.retained[n]
  BY <1>1 DEF SameWork
<1> QED
  BY <1>2, <1>4, <1>5 DEF Advances, s

LEMMA CountCandidates ==
    ASSUME WorkerInv
    PROVE  IsFiniteSet(Candidates) /\ Cardinality(Candidates) \in Nat
<1>1. order \in Seq(Runs \X Nodes)
  BY DEF WorkerInv, OrderOK
<1>2. DOMAIN order = 1 .. Len(order) /\ Len(order) \in Nat
  BY <1>1
<1>3. IsFiniteSet(DOMAIN order)
  BY <1>2, FS_Interval
<1>4. Candidates \in SUBSET DOMAIN order
  BY Positions
<1> QED
  BY <1>3, <1>4, FS_Subset, FS_CardinalityType

(* What a stored batch does to the ledger: it stays sound and true, and the retained
   successful checkouts are no more than before, plus one for a success. *)
LEMMA Stored ==
    ASSUME WorkerInv, NEW r \in Runs, NEW b \in Batches, AcceptsBatch(runs[r], b), Store(r, b),
           UNCHANGED <<disk, calls>>,
           b[1].type # "run.cancel-requested" =>
               TrueEvent(b[1], disk[r][runs[r].fence[b[1].node]], calls[r][b[1].node])
    PROVE  /\ LedgerOK' /\ OrderOK' /\ DOMAIN order \subseteq DOMAIN order'
           /\ runs'[r] = FoldBatch(runs[r], b) /\ \A q \in Runs : q # r => runs'[q] = runs[q]
           /\ \A q \in Runs, n \in Nodes :
                 runs[q].node[n] \in Done => runs'[q].node[n] = runs[q].node[n]
           /\ Cardinality(Candidates') \in Nat
           /\ b[1].type # "node.succeeded" =>
                 Cardinality(Candidates') <= Cardinality(Candidates)
           /\ Cardinality(Candidates') <= Cardinality(Candidates) + 1
<1> DEFINE x == runs[r]
           s == FoldBatch(x, b)
           e == b[1]
<1>1. /\ runs \in [Runs -> RunState] /\ RunOK(x) /\ disk[r] \in Disk /\ calls[r] \in Calls
      /\ DiskOK(x, disk[r], calls[r]) /\ Sound(x)
  BY DEF WorkerInv, LedgerOK, RunOK
<1>2. RunOK(s) /\ DiskOK(s, disk[r], calls[r])
  BY <1>1, BatchKept
<1>3. s \in RunState
  BY <1>2 DEF RunOK, Sound
<1>4. runs' = [runs EXCEPT ![r] = s]
  BY DEF Store
<1>5. /\ runs' \in [Runs -> RunState] /\ runs'[r] = s
      /\ \A q \in Runs : q # r => runs'[q] = runs[q]
  <2> HIDE DEF s
  <2> QED
    BY <1>1, <1>3, <1>4
<1>6. /\ \A n \in Nodes : x.node[n] \in Done => s.node[n] = x.node[n]
      /\ \A n \in Nodes : x.node[n] = "succeeded" /\ s.retained[n] => x.retained[n]
  BY <1>1, BatchRetention
<1>7. \/ e.type # "node.succeeded" /\ order' = order
      \/ e.type = "node.succeeded" /\ order' = Append(order, <<r, e.node>>)
  BY DEF Store
<1>8. e.type = "node.succeeded" => e.node \in Nodes /\ s.node[e.node] = "succeeded"
  <2>1. e \in Events /\ Accepts(x, e) /\ SameWork(Apply(x, e), s)
    BY <1>1, BatchEffect
  <2> HIDE DEF e, s, x
  <2>2. ASSUME e.type = "node.succeeded"
        PROVE  e.node \in Nodes /\ OutcomeIs(e.type, Apply(x, e).node[e.node])
    BY <1>1, <2>1, <2>2, OutcomeEffect DEF LeaseOutcomes
  <2> QED
    BY <2>1, <2>2 DEF OutcomeIs, SameWork
<1> HIDE DEF s, x, e
<1>9. LedgerOK'
  <2>1. ASSUME NEW q \in Runs PROVE RunOK(runs'[q]) /\ DiskOK(runs'[q], disk[q], calls[q])
    <3>1. CASE q = r
      BY <1>2, <1>5, <3>1
    <3>2. CASE q # r
      BY <1>5, <3>2 DEF WorkerInv, LedgerOK
    <3> QED
      BY <3>1, <3>2
  <2> QED
    BY <1>5, <2>1 DEF WorkerInv, LedgerOK
<1>10. /\ \A q \in Runs, n \in Nodes :
             runs[q].node[n] \in Done => runs'[q].node[n] = runs[q].node[n]
       /\ \A q \in Runs, n \in Nodes :
             runs[q].node[n] = "succeeded" /\ runs'[q].retained[n] => runs[q].retained[n]
  BY <1>5, <1>6 DEF x
<1>11. /\ order \in Seq(Runs \X Nodes)
       /\ \A i \in DOMAIN order : runs[order[i][1]].node[order[i][2]] = "succeeded"
  BY DEF WorkerInv, OrderOK
<1>12. /\ order' \in Seq(Runs \X Nodes) /\ DOMAIN order \subseteq DOMAIN order'
       /\ \A i \in DOMAIN order : order'[i] = order[i]
       /\ e.type # "node.succeeded" => DOMAIN order' = DOMAIN order
       /\ e.type = "node.succeeded" =>
             /\ DOMAIN order' = DOMAIN order \cup {Len(order) + 1}
             /\ order'[Len(order) + 1] = <<r, e.node>>
  <2>1. CASE e.type = "node.succeeded"
    <3>1. <<r, e.node>> \in Runs \X Nodes /\ order' = Append(order, <<r, e.node>>)
      BY <1>7, <1>8, <2>1
    <3> QED
      BY <1>11, <2>1, <3>1
  <2>2. CASE e.type # "node.succeeded"
    BY <1>7, <1>11, <2>2
  <2> QED
    BY <2>1, <2>2
<1>13. \A i \in DOMAIN order : order[i][1] \in Runs /\ order[i][2] \in Nodes
  <2>1. ASSUME NEW i \in DOMAIN order PROVE order[i] \in Runs \X Nodes
    BY <1>11, <2>1
  <2> QED
    BY <2>1
<1>14. OrderOK'
  <2>1. ASSUME NEW i \in DOMAIN order' PROVE runs'[order'[i][1]].node[order'[i][2]] = "succeeded"
    <3>1. CASE i \in DOMAIN order
      BY <1>10, <1>11, <1>12, <1>13, <3>1 DEF Done
    <3>2. CASE i \notin DOMAIN order
      <4>1. e.type = "node.succeeded" /\ order'[i] = <<r, e.node>>
        BY <1>12, <2>1, <3>2
      <4> QED
        BY <1>5, <1>8, <4>1
    <3> QED
      BY <3>1, <3>2
  <2> QED
    BY <1>12, <2>1 DEF OrderOK
<1>15. \A i \in Candidates' : i \in Candidates \/ (e.type = "node.succeeded" /\ i = Len(order) + 1)
  <2> SUFFICES ASSUME NEW i \in Candidates', i \in DOMAIN order
               PROVE  i \in Candidates
    BY <1>12 DEF Candidates
  <2>1. /\ order'[i] = order[i] /\ order[i][1] \in Runs /\ order[i][2] \in Nodes
        /\ runs[order[i][1]].node[order[i][2]] = "succeeded"
    BY <1>11, <1>12, <1>13
  <2>2. runs'[order[i][1]].retained[order[i][2]]
    BY <2>1 DEF Candidates
  <2> QED
    BY <1>10, <2>1, <2>2 DEF Candidates
<1>16. IsFiniteSet(Candidates) /\ Cardinality(Candidates) \in Nat
  BY CountCandidates
<1>17. e.type # "node.succeeded" =>
           Cardinality(Candidates') \in Nat /\ Cardinality(Candidates') <= Cardinality(Candidates)
  <2>1. ASSUME e.type # "node.succeeded" PROVE Candidates' \in SUBSET Candidates
    BY <1>15, <2>1
  <2> QED
    BY <1>16, <2>1, FS_Subset, FS_CardinalityType
<1>18. Cardinality(Candidates') \in Nat /\ Cardinality(Candidates') <= Cardinality(Candidates) + 1
  <2> DEFINE C == Candidates \cup {Len(order) + 1}
  <2>1. Candidates' \in SUBSET C
    BY <1>15
  <2>2. IsFiniteSet(C) /\ Cardinality(C) \in {Cardinality(Candidates), Cardinality(Candidates) + 1}
    BY <1>16, FS_AddElement
  <2> HIDE DEF C
  <2>3. Cardinality(Candidates') <= Cardinality(C) /\ Cardinality(Candidates') \in Nat
    BY <2>1, <2>2, FS_Subset, FS_CardinalityType
  <2> QED
    BY <1>16, <2>2, <2>3
<1> QED
  BY <1>5, <1>9, <1>10, <1>12, <1>14, <1>17, <1>18 DEF e, s, x

(* The worker after an append. *)
LEMMA AtFields ==
    ASSUME w \in WorkerState, NEW p \in Control, p # "down"
    PROVE  /\ At(p) \in WorkerState /\ At(p).pc = p
           /\ At(p).run = w.run /\ At(p).node = w.node /\ At(p).todo = w.todo
           /\ At(p).sweep = w.sweep /\ At(p).removed = w.removed /\ At(p).quota = w.quota
           /\ At(p).cycle = w.cycle /\ At(p).claimed = w.claimed /\ At(p).once = w.once
<1>1. "idle" \in Control /\ 0 \in Nat /\ NoBatch \in Batches \cup {NoBatch}
  BY DEF Control
<1>2. At(p) = [w EXCEPT !.pc = p, !.seq = 0, !.batch = NoBatch, !.ok = "idle", !.err = "idle"]
  BY DEF At
<1> DEFINE y == [w EXCEPT !.pc = p, !.seq = 0, !.batch = NoBatch, !.ok = "idle", !.err = "idle"]
<1>3. y \in WorkerState
  <2> HIDE DEF NoBatch
  <2> QED
    BY <1>1 DEF WorkerState
<1>4. /\ y.pc = p
      /\ y.run = w.run /\ y.node = w.node /\ y.todo = w.todo
      /\ y.sweep = w.sweep /\ y.removed = w.removed /\ y.quota = w.quota
      /\ y.cycle = w.cycle /\ y.claimed = w.claimed /\ y.once = w.once
  BY DEF WorkerState
<1> HIDE DEF y
<1>5. At(p) = y
  BY <1>2 DEF y
<1> QED
  BY <1>3, <1>4, <1>5

(* What is known while a batch is appended. *)
LEMMA Appending ==
    ASSUME WorkerInv, w.pc = "append"
    PROVE  /\ w \in WorkerState /\ w.run \in Runs /\ w.node \in Nodes
           /\ PlaceOK(w, DOMAIN queue, DOMAIN order, Cardinality(Candidates))
           /\ Staged(w.batch, w.node, Worktree(w.run, w.node), calls[w.run][w.node])
           /\ Leads(w.batch[1].type, w.node, w.cycle, w.ok, w.err, Holding(w, runs[w.run]))
           /\ Sweeping(w) => Reported(w, runs)
           /\ w.ok # "down" /\ w.ok \in Control /\ w.err \in Control
           /\ w.batch[1].type \in {"node.claimed", "worktree.prepared", "dispatch.started"}
                                      \cup LeaseOutcomes \cup Cleanups
<1>1. /\ w \in WorkerState /\ PlaceOK(w, DOMAIN queue, DOMAIN order, Cardinality(Candidates))
      /\ StagedOK(w, Worktree(w.run, w.node), calls[w.run][w.node], runs[w.run])
      /\ Reporting(w) => Reported(w, runs)
  BY DEF WorkerInv, WorkerAt, Worktree
<1>2. w.run \in Runs /\ w.node \in Nodes
  BY <1>1 DEF PlaceOK, Placed
<1>3. Leads(w.batch[1].type, w.node, w.cycle, w.ok, w.err, Holding(w, runs[w.run]))
  BY <1>1 DEF StagedOK
<1>4. w.ok # "down"
  BY <1>3 DEF Leads, Sweeps
<1>5. w.batch[1].type \in {"node.claimed", "worktree.prepared", "dispatch.started"}
                              \cup LeaseOutcomes \cup Cleanups
  BY <1>3 DEF Leads, LeaseOutcomes, Cleanups, Ended
<1>6. w.ok \in Control /\ w.err \in Control
  BY <1>1 DEF WorkerState
<1> QED
  BY <1>1, <1>2, <1>3, <1>4, <1>5, <1>6 DEF StagedOK, Reporting

(* A refused append: the cycle ends without a record, or the worker finds out why while
   it holds its lease, or the process fails. *)
LEMMA AppendRefused ==
    ASSUME WorkerInv, w.pc = "append"
    PROVE  Knows(At(w.err))
<1> DEFINE y == At(w.err)
           N == Cardinality(Candidates)
<1>1. /\ w \in WorkerState /\ w.run \in Runs /\ w.node \in Nodes /\ w.err \in Control
      /\ PlaceOK(w, DOMAIN queue, DOMAIN order, N)
      /\ Leads(w.batch[1].type, w.node, w.cycle, w.ok, w.err, Holding(w, runs[w.run]))
  BY Appending
<1>2. CASE w.err = "down"
  BY <1>2, GoesDown DEF At, Knows
<1>3. CASE w.err # "down"
  <2>1. /\ y \in WorkerState /\ y.pc = w.err /\ y.run = w.run /\ y.node = w.node
        /\ y.quota = w.quota /\ y.claimed = w.claimed
    BY <1>1, <1>3, AtFields
  <2>2. /\ w.err = "conflict" \/ (w.err = "apiError" /\ Holding(w, runs[w.run]))
        /\ w.ok \notin {"recover", "trim", "remove", "reconcile"}
    BY <1>1, <1>3 DEF Leads, Sweeps
  <2>3. InCycle(w)
    BY <2>2 DEF InCycle
  <2> HIDE DEF y, N
  <2>4. w.quota /\ w.claimed = <<w.run, w.node>> /\ N <= MaxRetained
    BY <1>1, <2>3 DEF PlaceOK
  <2>5. ~Sweeping(y) /\ ~Reconciling(y) /\ ~Reporting(y) /\ y.pc \notin {"append", "record", "exited"}
    BY <2>1, <2>2 DEF Sweeping, Reconciling, Reporting
  <2>6. PlaceOK(y, DOMAIN queue, DOMAIN order, N)
    BY <1>1, <2>1, <2>4, <2>5 DEF PlaceOK, Placed
  <2>7. y.pc \in Working => y.pc = "apiError" /\ Holding(y, runs[y.run])
    BY <2>1, <2>2 DEF Holding, Working
  <2>8. y.pc = "apiError" =>
            Progress(y, disk[y.run][runs[y.run].fence[y.node]], calls[y.run][y.node], runs[y.run])
    BY DEF Progress
  <2>9. WorkerAt(y, runs, disk, calls, DOMAIN queue, DOMAIN order, N)
    BY <2>1, <2>5, <2>6, <2>7, <2>8 DEF WorkerAt
  <2> QED
    BY <2>9 DEF Knows, N, y
<1> QED
  BY <1>2, <1>3

(* What a cycle or a sweep reports is not undone by a batch. *)
LEMMA ReportedStays ==
    ASSUME NEW v, NEW u, u.cycle = v.cycle, u.claimed = v.claimed, NEW rs, NEW qs,
           Reported(v, rs),
           \A q \in Runs, n \in Nodes : rs[q].node[n] \in Done => qs[q].node[n] = rs[q].node[n]
    PROVE  Reported(u, qs)
<1>1. SUFFICES ASSUME v.cycle \in Reports
               PROVE  qs[v.claimed[1]].node[v.claimed[2]] \in Outcomes(v.cycle)
  BY DEF Reported
<1>2. v.claimed[1] \in Runs /\ v.claimed[2] \in Nodes
  BY <1>1 DEF Reported
<1>3. rs[v.claimed[1]].node[v.claimed[2]] \in Outcomes(v.cycle) /\ Outcomes(v.cycle) \subseteq Done
  BY <1>1 DEF Reported, Reports, Outcomes, Done
<1> QED
  BY <1>2, <1>3

(* What the worker knows once its batch is stored, x the run before and s after. *)
LEMMA AppendStored ==
    ASSUME WorkerInv, w.pc = "append", NEW b \in Batches, AcceptsBatch(runs[w.run], b),
           b[1].type = w.batch[1].type, b[1].node = w.node,
           b[1].type = "node.claimed" => b[1].by = Worker,
           NEW rs, rs[w.run] = FoldBatch(runs[w.run], b),
           \A q \in Runs, n \in Nodes : runs[q].node[n] \in Done => rs[q].node[n] = runs[q].node[n],
           NEW O, DOMAIN order \subseteq O, NEW N \in Nat,
           b[1].type # "node.succeeded" => N <= Cardinality(Candidates)
    PROVE  WorkerAt(At(w.ok), rs, disk, calls, DOMAIN queue, O, N)
<1> DEFINE e == b[1]
           r == w.run
           n == w.node
           x == runs[r]
           s == rs[r]
           y == At(w.ok)
           m == calls[r][n]
           C == Cardinality(Candidates)
<1>1. /\ w \in WorkerState /\ r \in Runs /\ n \in Nodes
      /\ PlaceOK(w, DOMAIN queue, DOMAIN order, C)
      /\ Leads(e.type, n, w.cycle, w.ok, w.err, Holding(w, x))
      /\ Sweeping(w) => Reported(w, runs)
      /\ w.ok # "down" /\ w.ok \in Control
  BY Appending
<1>2. /\ y \in WorkerState /\ y.pc = w.ok /\ y.run = r /\ y.node = n /\ y.todo = w.todo
      /\ y.sweep = w.sweep /\ y.quota = w.quota /\ y.cycle = w.cycle /\ y.claimed = w.claimed
  BY <1>1, AtFields
<1>3. RunOK(x) /\ Sound(x) /\ x \in RunState /\ m <= x.calls[n]
  BY <1>1 DEF WorkerInv, LedgerOK, RunOK, Sound, DiskOK, CallsRecorded
<1>4. e \in Events /\ Accepts(x, e) /\ SameWork(Apply(x, e), s)
  BY <1>3, BatchEffect
<1>5. C \in Nat /\ MaxRetained \in Nat
  BY CountCandidates, ConfigAssumption DEF ConfigAssumption
<1>6. e.node = n /\ (e.type = "node.claimed" => e.by = Worker)
  OBVIOUS
<1> HIDE DEF e, r, n, x, s, y, m, C
<1>7. InCycle(w) => w.quota /\ w.claimed = <<r, n>> /\ C <= MaxRetained
  BY <1>1 DEF PlaceOK, r, n
<1>8. CASE w.ok \in {"create", "execute", "propose"}
  <2>1. InCycle(w)
    BY <1>8 DEF InCycle
  <2>2. N <= C
    BY <1>1, <1>8 DEF Leads, Sweeps, e, C
  <2>3. N <= MaxRetained
    BY <1>5, <1>7, <2>1, <2>2
  <2>4. ~Sweeping(y) /\ ~Reconciling(y) /\ ~Reporting(y) /\ y.pc \in Working
        /\ y.pc \notin {"append", "record", "exited"}
    BY <1>2, <1>8 DEF Sweeping, Reconciling, Reporting, Working
  <2>5. PlaceOK(y, DOMAIN queue, O, N)
    BY <1>1, <1>2, <1>7, <2>1, <2>3, <2>4 DEF PlaceOK, Placed
  <2>6. Holding(y, s) /\ Progress(y, disk[r][s.fence[n]], m, s)
    <3>1. CASE w.ok = "create"
      <4>1. e.type = "node.claimed"
        BY <1>1, <3>1 DEF Leads, Sweeps
      <4>2. Apply(x, e).active = n /\ Apply(x, e).worker = Worker
        BY <1>3, <1>4, <1>6, <4>1, ClaimEffect
      <4> QED
        BY <1>2, <1>4, <3>1, <4>2 DEF SameWork, Holding, Progress
    <3>2. CASE w.ok = "execute"
      <4>1. e.type = "worktree.prepared" /\ Holding(w, x)
        BY <1>1, <3>2 DEF Leads, Sweeps
      <4>2. Apply(x, e).active = x.active /\ Apply(x, e).worker = x.worker
        BY <1>3, <1>4, <1>6, <4>1, PreparedEffect
      <4> QED
        BY <1>2, <1>4, <3>2, <4>1, <4>2 DEF SameWork, Holding, Progress, n
    <3>3. CASE w.ok = "propose"
      <4>1. e.type = "dispatch.started" /\ Holding(w, x) /\ n \in Writers
        BY <1>1, <3>3 DEF Leads, Sweeps
      <4>2. /\ Apply(x, e).active = x.active /\ Apply(x, e).worker = x.worker
            /\ x.calls[n] = 0 /\ Apply(x, e).calls = [x.calls EXCEPT ![n] = 1]
        BY <1>3, <1>4, <1>6, <4>1, DispatchEffect
      <4>3. s.calls[n] = 1
        BY <1>1, <1>3, <1>4, <4>2 DEF SameWork, RunState
      <4>4. m \in Nat
        BY <1>1 DEF WorkerInv, LedgerOK, Calls, m
      <4>5. m < s.calls[n]
        BY <1>3, <4>2, <4>3, <4>4
      <4> QED
        BY <1>2, <1>4, <3>3, <4>1, <4>2, <4>5 DEF SameWork, Holding, Progress, n
    <3> QED
      BY <1>8, <3>1, <3>2, <3>3
  <2>7. WorkerAt(y, rs, disk, calls, DOMAIN queue, O, N)
    BY <1>2, <2>4, <2>5, <2>6 DEF WorkerAt, s, m
  <2> QED
    BY <2>7 DEF y
<1>9. CASE w.ok = "conflict"
  <2>1. InCycle(w)
    BY <1>9 DEF InCycle
  <2>2. N <= C
    BY <1>1, <1>9 DEF Leads, Sweeps, Ended, e, C
  <2>3. N <= MaxRetained
    BY <1>5, <1>7, <2>1, <2>2
  <2>4. ~Sweeping(y) /\ ~Reconciling(y) /\ ~Reporting(y) /\ y.pc \notin Working
        /\ y.pc \notin {"append", "record", "exited"}
    BY <1>2, <1>9 DEF Sweeping, Reconciling, Reporting, Working
  <2>5. PlaceOK(y, DOMAIN queue, O, N)
    BY <1>1, <1>2, <1>7, <2>1, <2>3, <2>4 DEF PlaceOK, Placed
  <2>7. WorkerAt(y, rs, disk, calls, DOMAIN queue, O, N)
    BY <1>2, <2>4, <2>5 DEF WorkerAt
  <2> QED
    BY <2>7 DEF y
<1>10. CASE w.ok = "maintain"
  <2>1. InCycle(w)
    BY <1>10 DEF InCycle
  <2>2. \/ e.type = "node.succeeded" /\ w.cycle = "node-succeeded"
        \/ e.type \in {"node.failed", "node.reconciliation"} /\ w.cycle = "node-failed"
        \/ e.type = "node.canceled" /\ w.cycle = "node-canceled"
    BY <1>1, <1>10 DEF Leads, Sweeps
  <2>3. OutcomeIs(e.type, s.node[n])
    <3>1. e.type \in LeaseOutcomes
      BY <2>2 DEF LeaseOutcomes
    <3>2. OutcomeIs(e.type, Apply(x, e).node[n])
      BY <1>3, <1>4, <1>6, <3>1, OutcomeEffect
    <3> QED
      BY <1>4, <3>2 DEF SameWork
  <2>4. s.node[n] \in Outcomes(w.cycle)
    BY <2>2, <2>3 DEF OutcomeIs, Outcomes
  <2>5. w.claimed \in Runs \X Nodes /\ rs[w.claimed[1]].node[w.claimed[2]] = s.node[n]
    <3>1. w.claimed = <<r, n>>
      BY <1>7, <2>1
    <3>2. w.claimed \in Runs \X Nodes /\ w.claimed[1] = r /\ w.claimed[2] = n
      BY <1>1, <3>1
    <3> QED
      BY <3>2 DEF s
  <2>6. Reported(y, rs)
    BY <1>2, <2>4, <2>5 DEF Reported
  <2>7. WorkerAt(y, rs, disk, calls, DOMAIN queue, O, N)
    BY <1>2, <1>10, <2>6, Rests
  <2> QED
    BY <2>7 DEF y
<1>11. CASE w.ok = "reconcile"
  <2>1. w.cycle = "none" /\ w.todo \subseteq DOMAIN queue
    BY <1>1, <1>11 DEF PlaceOK, Reconciling
  <2>2. WorkerAt(y, rs, disk, calls, DOMAIN queue, O, N)
    BY <1>2, <1>11, <2>1, Rests
  <2> QED
    BY <2>2 DEF y
<1>12. CASE w.ok \in {"recover", "trim", "remove"}
  <2>1. Sweeping(w)
    BY <1>12 DEF Sweeping
  <2>2. w.sweep \in Sweeps /\ w.todo \subseteq O
    BY <1>1, <2>1 DEF PlaceOK
  <2>3. Reported(y, rs)
    BY <1>1, <1>2, <2>1, ReportedStays
  <2>4. /\ y.pc \in {"recover", "trim", "remove", "record", "append"}
        /\ y.pc \notin {"append", "record"} /\ Placed(y) /\ y.sweep \in Sweeps
        /\ y.todo \subseteq O
    BY <1>1, <1>2, <1>12, <2>2 DEF Placed
  <2>5. WorkerAt(y, rs, disk, calls, DOMAIN queue, O, N)
    BY <1>2, <2>3, <2>4, SweepsOn
  <2> QED
    BY <2>5 DEF y
<1> QED
  BY <1>1, <1>8, <1>9, <1>10, <1>11, <1>12 DEF Leads, Sweeps

(* _append_run_transitions, from the worker. *)
LEMMA AppendBatchKept ==
    ASSUME WorkerInv, AppendBatch
    PROVE  WorkerInv'
<1> DEFINE late == (w.run \in expired)
           b == Stamped(w.batch, late)
           r == w.run
           n == w.node
           N == Cardinality(Candidates)
<1>1. w.pc = "append" /\ UNCHANGED <<queue, disk, calls, api, crashes>>
  BY DEF AppendBatch
<1>2. /\ w \in WorkerState /\ r \in Runs /\ n \in Nodes
      /\ PlaceOK(w, DOMAIN queue, DOMAIN order, N)
      /\ Staged(w.batch, n, Worktree(r, n), calls[r][n])
      /\ Leads(w.batch[1].type, n, w.cycle, w.ok, w.err, Holding(w, runs[r]))
      /\ w.batch[1].type \in {"node.claimed", "worktree.prepared", "dispatch.started"}
                                 \cup LeaseOutcomes \cup Cleanups
  BY <1>1, Appending
<1>3. CASE UNCHANGED <<runs, order, expired>> /\ w' = At(w.err)
  <2>1. Quiet /\ Knows(w')
    BY <1>1, <1>3, AppendRefused DEF Quiet
  <2> QED
    BY <2>1, QuietKept
<1>4. CASE Appendable(r, w.seq, b) /\ Store(r, b) /\ w' = At(w.ok)
  <2>1. w.batch \in Batches /\ w.batch[1].node = n /\ w.batch[1] \in Events
        /\ TrueEvent(w.batch[1], Worktree(r, n), calls[r][n])
        /\ (w.batch[1].type = "node.claimed" => w.batch[1].by = Worker)
    BY <1>2 DEF Staged, Batches
  <2>2. late \in BOOLEAN
    OBVIOUS
  <2> HIDE DEF late
  <2>3. b \in Batches /\ b[1] = Stamp(w.batch[1], late)
    BY <2>1, <2>2, StampedBatch
  <2>4. w.batch[1].type \notin {"run.cancel-requested", "run.succeeded", "run.failed",
                                "run.canceled", "run.reconciliation"}
    BY <1>2 DEF LeaseOutcomes, Cleanups
  <2>5. /\ b[1].type = w.batch[1].type /\ b[1].node = n
        /\ TrueEvent(b[1], Worktree(r, n), calls[r][n])
        /\ (b[1].type = "node.claimed" => b[1].by = Worker)
    BY <2>1, <2>2, <2>3, <2>4, StampedEvent
  <2>6. AcceptsBatch(runs[r], b)
    BY <1>4 DEF Appendable
  <2> HIDE DEF b
  <2>7. TrueEvent(b[1], disk[r][runs[r].fence[b[1].node]], calls[r][b[1].node])
    BY <2>5 DEF Worktree
  <2>8. /\ LedgerOK' /\ OrderOK' /\ DOMAIN order \subseteq DOMAIN order'
        /\ runs'[r] = FoldBatch(runs[r], b)
        /\ \A q \in Runs, k \in Nodes :
              runs[q].node[k] \in Done => runs'[q].node[k] = runs[q].node[k]
        /\ Cardinality(Candidates') \in Nat
        /\ b[1].type # "node.succeeded" => Cardinality(Candidates') <= N
        /\ Cardinality(Candidates') <= N + 1
    BY <1>1, <1>2, <1>4, <2>3, <2>6, <2>7, Stored
  <2>9. N \in Nat /\ MaxRetained \in Nat /\ N <= MaxRetained + 1
    BY CountCandidates, ConfigAssumption DEF WorkerInv
  <2>10. Cardinality(Candidates') <= MaxRetained + 1
    <3>1. CASE b[1].type = "node.succeeded"
      <4>1. w.ok = "maintain"
        BY <1>2, <2>5, <3>1 DEF Leads, Ended
      <4>2. InCycle(w)
        BY <1>1, <4>1 DEF InCycle
      <4>3. N <= MaxRetained
        BY <1>2, <4>2 DEF PlaceOK
      <4> QED
        BY <2>8, <2>9, <4>3
    <3>2. CASE b[1].type # "node.succeeded"
      BY <2>8, <2>9, <3>2
    <3> QED
      BY <3>1, <3>2
  <2>11. WorkerAt(At(w.ok), runs', disk, calls, DOMAIN queue, DOMAIN order',
                  Cardinality(Candidates'))
    BY <1>1, <2>3, <2>5, <2>6, <2>8, AppendStored
  <2> QED
    BY <1>1, <1>4, <2>8, <2>10, <2>11 DEF WorkerInv
<1> QED
  BY <1>3, <1>4 DEF AppendBatch

(* cancel_run: whatever it is built on, the batch is a request and the end of the run. *)
LEMMA LoadForCancelKept ==
    ASSUME WorkerInv, NEW c \in Clients, NEW r \in Runs, LoadForCancel(c, r)
    PROVE  WorkerInv'
<1> DEFINE request == [type |-> "run.cancel-requested"]
           terminal == RunEvent("run.canceled", AnyRetained(runs[r], NodeStatus))
           b == IF runs[r].active = None THEN <<request, terminal>> ELSE <<request>>
           q == [run |-> r, seq |-> runs[r].seq, batch |-> b]
<1>1. api' = [api EXCEPT ![c] = q] /\ UNCHANGED <<runs, queue, order, disk, calls, w>>
  BY DEF LoadForCancel
<1>2. request \in CancelEvents /\ request \in Events
  BY DEF CancelEvents, Events
<1>3. terminal \in RunEvents
  BY DEF RunEvent, RunEvents, AnyRetained
<1> HIDE DEF request, terminal
<1>4. b \in Batches /\ b[1] = request
  BY <1>2, <1>3, Tuples
<1>5. ClientOK(q)
  BY <1>2, <1>4 DEF ClientOK
<1> HIDE DEF q
<1>6. DOMAIN api' = Clients /\ \A d \in Clients : ClientOK(api'[d])
  BY <1>1, <1>5 DEF WorkerInv
<1>7. Candidates' = Candidates /\ OrderOK' /\ LedgerOK'
  BY <1>1 DEF Candidates, WorkerInv, OrderOK, LedgerOK
<1> QED
  BY <1>1, <1>6, <1>7 DEF WorkerInv

LEMMA SameWorkAll ==
    ASSUME NEW r, NEW q, NEW s
    PROVE  SameWork(r, r) /\ (SameWork(r, q) /\ SameWork(q, s) => SameWork(r, s))
  BY DEF SameWork

(* ... so storing it leaves every lease and checkout, and what the worker knows, as it was. *)
LEMMA AppendCancelKept ==
    ASSUME WorkerInv, NEW c \in Clients, AppendCancel(c)
    PROVE  WorkerInv'
<1> DEFINE q == api[c]
           r == q.run
           b == q.batch
<1>1. /\ q # NoRequest /\ UNCHANGED <<queue, disk, calls, w>>
      /\ api' = [api EXCEPT ![c] = NoRequest]
  BY DEF AppendCancel
<1>2. r \in Runs /\ b \in Batches /\ b[1] \in CancelEvents
  BY <1>1 DEF WorkerInv, ClientOK
<1>3. DOMAIN api' = Clients /\ \A d \in Clients : ClientOK(api'[d])
  BY <1>1 DEF WorkerInv, ClientOK
<1>4. CASE UNCHANGED <<runs, order, expired>>
  <2>1. Candidates' = Candidates /\ OrderOK' /\ LedgerOK'
    BY <1>1, <1>4 DEF Candidates, WorkerInv, OrderOK, LedgerOK
  <2> QED
    BY <1>1, <1>3, <1>4, <2>1 DEF WorkerInv
<1>5. CASE Appendable(r, q.seq, b) /\ Store(r, b)
  <2>1. AcceptsBatch(runs[r], b) /\ b[1].type = "run.cancel-requested"
    BY <1>2, <1>5 DEF Appendable, CancelEvents
  <2> HIDE DEF q, r, b
  <2>2. /\ LedgerOK' /\ OrderOK' /\ runs'[r] = FoldBatch(runs[r], b)
        /\ \A p \in Runs : p # r => runs'[p] = runs[p]
    BY <1>1, <1>2, <1>5, <2>1, Stored
  <2>3. Sound(runs[r]) /\ runs[r] \in RunState
    BY <1>2 DEF WorkerInv, LedgerOK, RunOK, Sound
  <2>4. Accepts(runs[r], b[1]) /\ SameWork(Apply(runs[r], b[1]), runs'[r])
    BY <1>2, <2>1, <2>2, <2>3, BatchEffect
  <2>5. SameWork(runs[r], Apply(runs[r], b[1]))
    BY <1>2, <2>3, <2>4, RunEffect DEF Accepts
  <2>6. \A p \in Runs : SameWork(runs[p], runs'[p])
    BY <2>2, <2>4, <2>5, SameWorkAll
  <2>7. order' = order
    BY <1>5, <2>1 DEF Store
  <2>8. \A i \in DOMAIN order : order[i][1] \in Runs
    <3>1. order \in Seq(Runs \X Nodes)
      BY DEF WorkerInv, OrderOK
    <3>2. ASSUME NEW i \in DOMAIN order PROVE order[i] \in Runs \X Nodes
      BY <3>1, <3>2
    <3> QED
      BY <3>2
  <2>9. Candidates' = Candidates
    BY <2>6, <2>7, <2>8 DEF Candidates, SameWork
  <2>10. WorkerAt(w, runs', disk, calls, DOMAIN queue, DOMAIN order, Cardinality(Candidates))
    BY <2>6, WorkerStays DEF WorkerInv
  <2> QED
    BY <1>1, <1>3, <2>2, <2>7, <2>9, <2>10 DEF WorkerInv
<1> QED
  BY <1>4, <1>5 DEF AppendCancel

LEMMA EnvironmentKept ==
    ASSUME WorkerInv, NEW r \in Runs, SubmitRun(r) \/ LeaseExpires(r)
    PROVE  WorkerInv'
<1>1. UNCHANGED <<runs, order, disk, calls, w, api>>
  BY DEF SubmitRun, LeaseExpires
<1>2. queue' \in Seq(Runs) /\ DOMAIN queue \subseteq DOMAIN queue'
  <2>1. queue \in Seq(Runs)
    BY DEF WorkerInv
  <2>2. queue' = queue \/ queue' = Append(queue, r)
    BY DEF SubmitRun, LeaseExpires
  <2> QED
    BY <2>1, <2>2
<1>3. Candidates' = Candidates /\ OrderOK' /\ LedgerOK'
  BY <1>1 DEF Candidates, WorkerInv, OrderOK, LedgerOK
<1>4. \A q \in Runs : SameWork(runs[q], runs[q])
  BY SameWorkAll
<1>5. WorkerAt(w, runs, disk, calls, DOMAIN queue', DOMAIN order, Cardinality(Candidates))
  BY <1>2, <1>4, WorkerStays DEF WorkerInv
<1> QED
  BY <1>1, <1>2, <1>3, <1>5 DEF WorkerInv

----------------------------------------------------------------------------
(* The invariant *)

LEMMA InitKept == Init => WorkerInv
<1> SUFFICES ASSUME Init PROVE WorkerInv
  OBVIOUS
<1> DEFINE D == [f \in Tokens |-> "absent"]
           K == [n \in Nodes |-> 0]
<1>1. Sound(Queued) /\ Complete(Queued)
  BY QueuedSound
<1>2. Issued(Queued)
  BY PlanAssumption DEF Issued, Queued
<1>3. D \in Disk /\ K \in Calls
  BY DEF Disk, Calls, Checkout
<1>4. DiskOK(Queued, D, K)
  <2>1. WorkKept(Queued, D) /\ RetainedKept(Queued, D)
    BY DEF WorkKept, RetainedKept, Queued
  <2>2. CommittedKept(Queued, D, K) /\ CallsRecorded(Queued, K)
    BY WorkerAssumption DEF CommittedKept, CallsRecorded, Queued
  <2> QED
    BY <2>1, <2>2 DEF DiskOK
<1>5. LedgerOK
  <2>1. Queued \in RunState
    BY <1>1 DEF Sound
  <2>2. runs = [r \in Runs |-> Queued] /\ disk = [r \in Runs |-> D] /\ calls = [r \in Runs |-> K]
    BY DEF Init
  <2> HIDE DEF D, K
  <2> QED
    BY <1>1, <1>2, <1>3, <1>4, <2>1, <2>2 DEF LedgerOK, RunOK
<1>6. order = <<>> /\ queue = <<>> /\ OrderOK
  BY DEF Init, OrderOK
<1>7. Candidates = {}
  BY <1>6 DEF Candidates
<1>8. Cardinality(Candidates) <= MaxRetained + 1
  BY <1>7, FS_EmptySet, ConfigAssumption
<1>9. DOMAIN api = Clients /\ \A c \in Clients : ClientOK(api[c])
  BY DEF Init, ClientOK
<1>10. WorkerAt(w, runs, disk, calls, DOMAIN queue, DOMAIN order, Cardinality(Candidates))
  BY GoesDown DEF Init
<1> QED
  BY <1>5, <1>6, <1>8, <1>9, <1>10 DEF WorkerInv

(* One action of the worker at a time. *)
LEMMA WorkerStepKept ==
    ASSUME WorkerInv, WorkerStep
    PROVE  WorkerInv'
<1>1. CASE ClaimConflict \/ NothingReady
  BY <1>1, EndCycleKnows, QuietKept DEF ClaimConflict, NothingReady
<1>2. CASE ReconcileNext
  BY <1>2, ReconcileNextKnows, QuietKept DEF ReconcileNext
<1>3. CASE Reconciled
  BY <1>3, ReconciledKnows, QuietKept DEF Reconciled
<1>4. CASE StartMaintenance
  BY <1>4, StartMaintenanceKnows, QuietKept DEF StartMaintenance
<1>5. CASE RecoverNext
  BY <1>5, RecoverNextKnows, QuietKept DEF RecoverNext
<1>6. CASE StartTrim
  BY <1>6, StartTrimKnows, QuietKept DEF StartTrim
<1>7. CASE TrimNext
  BY <1>7, TrimNextKnows, QuietKept DEF TrimNext
<1>8. CASE RecordRemoval
  BY <1>8, RecordRemovalKnows, QuietKept DEF RecordRemoval
<1>9. CASE EndMaintenance
  BY <1>9, EndMaintenanceKnows, QuietKept DEF EndMaintenance
<1>10. ASSUME NEW r \in Runs, NEW n \in Nodes, ClaimNode(r, n) PROVE WorkerInv'
  BY <1>10, ClaimNodeKnows, QuietKept DEF ClaimNode
<1>11. CASE RecordCreateFailure
  BY <1>11, RecordCreateFailureKnows, QuietKept DEF RecordCreateFailure
<1>12. CASE PrepareNode
  BY <1>12, PrepareNodeKnows, QuietKept DEF PrepareNode
<1>13. CASE Execute
  BY <1>13, ExecuteKnows, QuietKept DEF Execute
<1>14. CASE RecordDispatch
  BY <1>14, RecordDispatchKnows, QuietKept DEF RecordDispatch
<1>15. CASE RunChecks
  BY <1>15, RunChecksKnows, QuietKept DEF RunChecks
<1>16. CASE RecordSuccess
  BY <1>16, RecordSuccessKnows, QuietKept DEF RecordSuccess
<1>17. CASE Refused \/ Failed
  BY <1>17, HandlersKnow, QuietKept DEF Refused, Failed
<1>18. CASE AcknowledgeCancellation
  BY <1>18, AcknowledgeCancellationKnows, QuietKept DEF AcknowledgeCancellation
<1>19. CASE RecordFailure
  BY <1>19, RecordFailureKnows, QuietKept DEF RecordFailure
<1>20. CASE AppendBatch
  BY <1>20, AppendBatchKept
<1>21. CASE RemoveCheckout
  BY <1>21, RemoveKept
<1>22. CASE CreateWorktree \/ CreateFails
  BY <1>22, CreateKept
<1>23. CASE CallProvider
  BY <1>23, CallProviderKept
<1>24. CASE ApplyChanges
  BY <1>24, ApplyKept
<1>25. CASE CommitChanges
  BY <1>25, CommitKept
<1> QED
  BY <1>1, <1>2, <1>3, <1>4, <1>5, <1>6, <1>7, <1>8, <1>9, <1>10, <1>11, <1>12, <1>13, <1>14,
     <1>15, <1>16, <1>17, <1>18, <1>19, <1>20, <1>21, <1>22, <1>23, <1>24, <1>25
  DEF WorkerStep

LEMMA NextKept == WorkerInv /\ [Next]_vars => WorkerInv'
<1> SUFFICES ASSUME WorkerInv, [Next]_vars PROVE WorkerInv'
  OBVIOUS
<1>1. CASE WorkerStep
  BY <1>1, WorkerStepKept
<1>2. CASE Crash
  BY <1>2, CrashKept
<1>3. CASE Restart
  BY <1>3, RestartKnows, QuietKept DEF Restart, Quiet
<1>4. ASSUME NEW r \in Runs, SubmitRun(r) \/ LeaseExpires(r) PROVE WorkerInv'
  BY <1>4, EnvironmentKept
<1>5. ASSUME NEW c \in Clients, AppendCancel(c) PROVE WorkerInv'
  BY <1>5, AppendCancelKept
<1>6. ASSUME NEW c \in Clients, NEW r \in Runs, LoadForCancel(c, r) PROVE WorkerInv'
  BY <1>6, LoadForCancelKept
<1>7. CASE UNCHANGED vars
  <2>1. Quiet /\ w' = w
    BY <1>7 DEF vars, Quiet
  <2>2. Knows(w')
    BY <2>1 DEF WorkerInv, Knows
  <2> QED
    BY <2>1, <2>2, QuietKept
<1> QED
  BY <1>1, <1>2, <1>3, <1>4, <1>5, <1>6, <1>7 DEF Next

(* The invariant holds in every state, whoever acts, fails, expires or crashes when. *)
THEOREM WorkerInductive == Spec => []WorkerInv
<1>1. Init => WorkerInv
  BY InitKept
<1>2. WorkerInv /\ [Next]_vars => WorkerInv'
  BY NextKept
<1> QED
  BY <1>1, <1>2, PTL DEF Spec

----------------------------------------------------------------------------
(* What follows from it *)

(* _execute calls the provider at most once for a node and never without a
   dispatch.started on record, across crashes, restarts, expiries and cancellations. *)
THEOREM ProviderCalledOnce == Spec => []ProviderOnce
<1>1. WorkerInv => ProviderOnce
  <2> SUFFICES ASSUME WorkerInv, NEW r \in Runs, NEW n \in Nodes
               PROVE  calls[r][n] <= runs[r].calls[n] /\ runs[r].calls[n] <= 1
    BY DEF ProviderOnce
  <2>1. RunOK(runs[r]) /\ DiskOK(runs[r], disk[r], calls[r])
    BY DEF WorkerInv, LedgerOK
  <2> QED
    BY <2>1 DEF RunOK, Sound, DispatchedOnce, DiskOK, CallsRecorded
<1> QED
  BY <1>1, WorkerInductive, PTL

(* From claim to outcome the worker holds the lease of the node it works on: no other
   actor of RuntimeService takes it away. *)
THEOREM LeaseHeld == Spec => []WorkerHoldsLease
<1>1. WorkerInv => WorkerHoldsLease
  BY AtWork DEF WorkerHoldsLease
<1> QED
  BY <1>1, WorkerInductive, PTL

(* The ledger and the checkouts agree: no work is lost sight of, what is retained is
   there, a recorded success of a writing node is committed. *)
THEOREM LedgerAndDisk == Spec => []LedgerMatchesDisk
<1>1. WorkerInv => LedgerMatchesDisk
  <2> SUFFICES ASSUME WorkerInv PROVE LedgerMatchesDisk
    OBVIOUS
  <2>1. \A r \in Runs : DiskOK(runs[r], disk[r], calls[r])
    BY DEF WorkerInv, LedgerOK
  <2>2. NoLostWork
    BY <2>1 DEF NoLostWork, DiskOK, WorkKept
  <2>3. RetainedIsThere
    BY <2>1 DEF RetainedIsThere, DiskOK, RetainedKept, Worktree
  <2>4. WriterCommitted
    BY <2>1 DEF WriterCommitted, DiskOK, CommittedKept, Worktree
  <2> QED
    BY <2>2, <2>3, <2>4 DEF LedgerMatchesDisk
<1> QED
  BY <1>1, WorkerInductive, PTL

(* serve(once=True) ends with the status of the node it claimed. *)
THEOREM TruthfulCycles == Spec => []CycleTruthful
<1>1. WorkerInv => CycleTruthful
  <2> SUFFICES ASSUME WorkerInv, w.pc = "exited", w.cycle # "idle"
               PROVE  runs[w.claimed[1]].node[w.claimed[2]] \in Outcomes(w.cycle)
    BY DEF CycleTruthful
  <2>1. w \in WorkerState /\ w.cycle # "none" /\ Reported(w, runs)
    BY DEF WorkerInv, WorkerAt, PlaceOK, Reporting
  <2>2. w.cycle \in Reports \cup {"claim-conflict"}
    BY <2>1 DEF WorkerState, Cycle, Reports
  <2>3. CASE w.cycle \in Reports
    BY <2>1, <2>3 DEF Reported
  <2>4. CASE w.cycle = "claim-conflict"
    <3>1. w.claimed[1] \in Runs /\ w.claimed[2] \in Nodes
      BY <2>1, <2>4 DEF Reported
    <3>2. runs[w.claimed[1]].node \in [Nodes -> NodeStatus]
      BY <3>1 DEF WorkerInv, LedgerOK, RunState
    <3>3. Outcomes(w.cycle) = NodeStatus
      BY <2>4 DEF Outcomes
    <3> QED
      BY <3>1, <3>2, <3>3
  <2> QED
    BY <2>2, <2>3, <2>4
<1> QED
  BY <1>1, WorkerInductive, PTL

(* maintain_successful_worktrees keeps the retained successful checkouts within the
   limit, plus the one the cycle just produced, even when removals fail. *)
THEOREM RetentionSafety == Spec => []RetentionBounded
<1>1. WorkerInv => RetentionBounded
  BY DEF WorkerInv, RetentionBounded
<1> QED
  BY <1>1, WorkerInductive, PTL

----------------------------------------------------------------------------
(* Each run's stream is one of RunLifecycle *)

(* The grammar of the instance is the grammar of this module. *)
LEMMA SameEvents ==
    ASSUME NEW x
    PROVE  RL(x)!Events = Events
  BY DEF Events, ClaimEvents, WorkerEvents, LeaseEvents, CleanupEvents, RunEvents,
         CancelEvents, Tokens, Inspection, RL!Events, RL!ClaimEvents, RL!WorkerEvents,
         RL!LeaseEvents, RL!CleanupEvents, RL!RunEvents, RL!CancelEvents, RL!Tokens,
         RL!Inspection

LEMMA SameAccepts ==
    ASSUME NEW x, NEW r, NEW e
    PROVE  RL(x)!Accepts(r, e) = Accepts(r, e)
  BY DEF ClaimAccepted, PreparedAccepted, DispatchAccepted, NodeSucceededAccepted,
         NodeFailedAccepted, RequeueAccepted, NodeCanceledAccepted, ReconciliationAccepted,
         CleanupAccepted, CancelAccepted, RunSucceededAccepted, RunFailedAccepted,
         RunCanceledAccepted, RunReconciliationAccepted, ByHolder, OnLease, AnyRetained,
         EventAccepted, Accepts, NodeStatus, RL!ClaimAccepted, RL!PreparedAccepted,
         RL!DispatchAccepted, RL!NodeSucceededAccepted, RL!NodeFailedAccepted,
         RL!RequeueAccepted, RL!NodeCanceledAccepted, RL!ReconciliationAccepted,
         RL!CleanupAccepted, RL!CancelAccepted, RL!RunSucceededAccepted,
         RL!RunFailedAccepted, RL!RunCanceledAccepted, RL!RunReconciliationAccepted,
         RL!ByHolder, RL!OnLease, RL!AnyRetained, RL!EventAccepted, RL!Accepts,
         RL!NodeStatus

LEMMA SameApply ==
    ASSUME NEW x, NEW r, NEW e
    PROVE  RL(x)!Apply(r, e) = Apply(r, e)
  BY DEF Claim, Prepare, Dispatch, NodeSucceed, NodeFail, Requeue, NodeCancel,
         NodeReconcile, RequestCleanup, Clean, FailCleanup, RequestCancel, EndRun,
         RunReconcile, EndLease, Fold, Apply, RL!Claim, RL!Prepare, RL!Dispatch,
         RL!NodeSucceed, RL!NodeFail, RL!Requeue, RL!NodeCancel, RL!NodeReconcile,
         RL!RequestCleanup, RL!Clean, RL!FailCleanup, RL!RequestCancel, RL!EndRun,
         RL!RunReconcile, RL!EndLease, RL!Fold, RL!Apply

LEMMA SameComplete ==
    ASSUME NEW x, NEW r
    PROVE  RL(x)!Complete(r) = Complete(r)
  BY DEF RL!Complete, Complete

LEMMA StepOf ==
    ASSUME NEW r \in Runs, Grows(runs[r], runs'[r])
    PROVE  RL(r)!Step
  BY SameEvents, SameAccepts, SameApply, SameComplete DEF RL!Step, RL!Grows, Grows

(* A stored batch is a step of its run and of no other. *)
LEMMA StoreImplements ==
    ASSUME WorkerInv, NEW r \in Runs, NEW b \in Batches, AcceptsBatch(runs[r], b), Store(r, b)
    PROVE  \A q \in Runs : runs'[q] = runs[q] \/ RL(q)!Step
<1>1. runs' = [runs EXCEPT ![r] = FoldBatch(runs[r], b)] /\ runs \in [Runs -> RunState]
  BY DEF Store, WorkerInv, LedgerOK
<1>2. runs'[r] = FoldBatch(runs[r], b) /\ \A q \in Runs : q # r => runs'[q] = runs[q]
  BY <1>1
<1>3. Grows(runs[r], runs'[r])
  BY <1>2, BatchGrows
<1> QED
  BY <1>2, <1>3, StepOf

LEMMA StepImplements ==
    ASSUME WorkerInv, [Next]_vars
    PROVE  \A r \in Runs : runs'[r] = runs[r] \/ RL(r)!Step
<1>1. CASE UNCHANGED runs
  BY <1>1
<1>2. CASE AppendBatch
  <2>1. w.run \in Runs /\ w.batch \in Batches
    BY <1>2, Appending DEF AppendBatch, Staged
  <2> DEFINE late == (w.run \in expired)
             b == Stamped(w.batch, late)
  <2>2. late \in BOOLEAN
    OBVIOUS
  <2>3. UNCHANGED runs \/ (Appendable(w.run, w.seq, b) /\ Store(w.run, b))
    BY <1>2 DEF AppendBatch
  <2> HIDE DEF late
  <2>4. b \in Batches
    BY <2>1, <2>2, StampedBatch
  <2> HIDE DEF b
  <2>5. CASE Appendable(w.run, w.seq, b) /\ Store(w.run, b)
    BY <2>1, <2>4, <2>5, StoreImplements DEF Appendable
  <2> QED
    BY <1>1, <2>3, <2>5
<1>3. ASSUME NEW c \in Clients, AppendCancel(c)
      PROVE  \A r \in Runs : runs'[r] = runs[r] \/ RL(r)!Step
  <2>1. api[c].run \in Runs /\ api[c].batch \in Batches
    BY <1>3 DEF AppendCancel, WorkerInv, ClientOK
  <2>2. CASE /\ Appendable(api[c].run, api[c].seq, api[c].batch)
             /\ Store(api[c].run, api[c].batch)
    BY <2>1, <2>2, StoreImplements DEF Appendable
  <2> QED
    BY <1>1, <1>3, <2>2 DEF AppendCancel
<1>4. \/ UNCHANGED runs \/ AppendBatch \/ \E c \in Clients : AppendCancel(c)
  BY DEF Next, WorkerStep, Quiet, vars, ClaimConflict, ReconcileNext, Reconciled,
         StartMaintenance, RecoverNext, StartTrim, TrimNext, RemoveCheckout, RecordRemoval,
         EndMaintenance, ClaimNode, NothingReady, CreateWorktree, CreateFails,
         RecordCreateFailure, PrepareNode, Execute, RecordDispatch, CallProvider,
         ApplyChanges, CommitChanges, RunChecks, RecordSuccess, Refused, Failed,
         AcknowledgeCancellation, RecordFailure, Crash, Restart, SubmitRun, LeaseExpires,
         LoadForCancel
<1> QED
  BY <1>1, <1>2, <1>3, <1>4

(* Whoever appends to it, and however stale what it read was, the stream of every run
   starts as RunLifecycle says and grows only by batches it allows. *)
THEOREM RunsImplementLifecycle == Spec => ImplementsRunLifecycle
<1>1. Init => \A r \in Runs : RL(r)!Init
  BY DEF Init, RL!Init, RL!Queued, Queued
<1>2. WorkerInv /\ [Next]_vars => [\A r \in Runs : runs'[r] = runs[r] \/ RL(r)!Step]_vars
  BY StepImplements
<1> QED
  BY <1>1, <1>2, WorkerInductive, PTL DEF Spec, ImplementsRunLifecycle
=============================================================================
