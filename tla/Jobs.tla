-------------------------------- MODULE Jobs --------------------------------
(***************************************************************************)
(* What the lifecycles of a review and of a verification share: a job is   *)
(* about a snapshot, and is leased under rising tokens to workers.         *)
(***************************************************************************)
EXTENDS Integers, Absent

CONSTANTS
    Principals,  \* worker and supervisor ids
    Snapshots,   \* what a job is about: the run's terminal event, state and artifacts,
                 \* for a verification also the succeeded review
    MaxToken     \* bound: the highest token explored

ASSUME JobNone == None \notin Principals /\ None \notin Snapshots
ASSUME JobBounds == MaxToken \in Nat
=============================================================================
