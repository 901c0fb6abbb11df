---------------------------- MODULE MCLifecycles ----------------------------
(* The three streams of a run, each on its own: a behaviour is one of
   RunLifecycle, of ReviewLifecycle or of VerificationLifecycle, with the other
   two streams empty.  The run's plan has three nodes: two that depend on nothing
   and one that depends on both.  A fourth kind of behaviour hands every draft of
   three tasks to the compiler of generated plans. *)
EXTENDS RunLifecycle, ReviewLifecycle, VerificationLifecycle, PlanCompiler, TLC

CONSTANTS n1, n2, n3, w1

MCNodes == {n1, n2, n3}
MCDependsOn == [n \in MCNodes |-> IF n = n3 THEN {n1, n2} ELSE {}]
MCWorkers == {w1}

(* Tasks 1, 2 and 3 with any dependencies, on an unknown task 4 too, each a writer or
   not. *)
Drafts ==
    {[t \in 1 .. 3 |-> [id |-> t, deps |-> deps[t], checks |-> GoalChecks,
                        paths |-> IF t \in writers THEN GoalPaths ELSE {}]] :
        deps \in [1 .. 3 -> SUBSET (1 .. 4)], writers \in SUBSET (1 .. 3)}

VARIABLES
    stream,  \* the stream that grows, or "draft"
    draft    \* the draft compiled last

MCInit ==
    /\ Init /\ ReviewInit /\ VerificationInit /\ draft = <<>>
    /\ stream \in {"run", "review", "verification", "draft"}

MCNext ==
    \/ stream = "run" /\ Next /\ UNCHANGED <<review, verification, draft, stream>>
    \/ stream = "review" /\ ReviewNext /\ UNCHANGED <<run, verification, draft, stream>>
    \/ stream = "verification" /\ VerificationNext /\ UNCHANGED <<run, review, draft, stream>>
    \/ /\ stream = "draft" /\ draft = <<>> /\ draft' \in Drafts
       /\ UNCHANGED <<run, review, verification, stream>>

MCSpec == MCInit /\ [][MCNext]_<<run, review, verification, draft, stream>>

(* compile_plan gives no order to a cyclic draft and a sound one to any other, and it
   admits exactly the drafts whose writers follow one another. *)
PlansSound == draft # <<>> => OrderSound(draft) /\ WritersSound(draft)

(* The two nodes without dependencies, the principals and the snapshots are
   interchangeable. *)
MCSymmetry ==
    Permutations({n1, n2}) \cup Permutations(Principals) \cup Permutations(Snapshots)
=============================================================================
