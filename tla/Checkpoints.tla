---------------------------- MODULE Checkpoints ----------------------------
(***************************************************************************)
(* Projection checkpoints (kernel/projections.py) as the execution journal *)
(* uses them (orchestration/execution_runtime.py): a run is folded from    *)
(* the last checkpoint and the events after it, and a new checkpoint is    *)
(* saved against the position of the old one.  Loading, reading and saving *)
(* are transactions of their own; runners of several processes interleave. *)
(*                                                                         *)
(* A folded state is the set of the global positions of the events that    *)
(* went into it.                                                           *)
(***************************************************************************)
EXTENDS Naturals, Sequences, FiniteSets, Absent

CONSTANTS
    Runners,  \* whoever folds the run
    MaxLog    \* bound: events in the ledger

ASSUME LogAssumption == MaxLog \in Nat

(* Checkpoint: the folded state, the global position and the stream sequence of the last
   event in it, and whether this build loads the state. *)
Checkpoint == [state : SUBSET Nat, position : Nat, sequence : Nat, legible : BOOLEAN]
ASSUME CheckpointAssumption == None \notin Checkpoint

VARIABLES
    log,     \* the ledger by global position: TRUE for an event of the run's stream
    row,     \* the run's row of projection_checkpoints
    runners  \* what each runner holds

ckvars == <<log, row, runners>>

RunEvents(upTo) == {p \in 1 .. upTo : log[p]}

NoRunner == [pc |-> "idle", saves |-> FALSE, prior |-> None, result |-> None, read |-> 0]

CheckpointInit ==
    /\ log = <<>>
    /\ row = None
    /\ runners = [r \in Runners |-> NoRunner]

----------------------------------------------------------------------------
(* ProjectionRunner.rebuild *)

(* Seeded fault: read_stream is called with the global position. *)
ReadFromPosition(checkpoint) ==
    {p \in RunEvents(Len(log)) :
        checkpoint = None \/ Cardinality(RunEvents(p)) > checkpoint.position}

(* read_stream after the checkpoint's stream sequence. *)
ReadFrom(checkpoint) ==
    {p \in RunEvents(Len(log)) :
        checkpoint = None \/ Cardinality(RunEvents(p)) > checkpoint.sequence}

(* replay: events at or before the checkpoint's position are skipped; the last event
   applied gives position and sequence. *)
Replay(checkpoint) ==
    LET from == IF checkpoint = None THEN [state |-> {}, position |-> 0, sequence |-> 0, legible |-> TRUE]
                ELSE checkpoint
        new == {p \in ReadFrom(checkpoint) : p > from.position}
        last == CHOOSE p \in new : \A q \in new : q <= p
    IN  IF new = {} THEN from
        ELSE [state |-> from.state \cup new, position |-> last,
              sequence |-> Cardinality(RunEvents(last)), legible |-> TRUE]

----------------------------------------------------------------------------
AppendEvent ==
    /\ Len(log) < MaxLog
    /\ \E own \in BOOLEAN : log' = Append(log, own)
    /\ UNCHANGED <<row, runners>>

(* _rebuild and _save_checkpoint begin with the stored checkpoint. *)
LoadCheckpoint(r) ==
    /\ runners[r].pc = "idle"
    /\ \E saves \in BOOLEAN :
         runners' = [runners EXCEPT ![r] =
             [NoRunner EXCEPT !.pc = "loaded", !.saves = saves, !.prior = row]]
    /\ UNCHANGED <<log, row>>

(* A state load_state refuses: _rebuild folds the whole stream instead, while
   _save_checkpoint gives up, which append suppresses. *)
Rebuild(r) ==
    LET runner == runners[r]
        usable == runner.prior = None \/ runner.prior.legible
    IN  /\ runner.pc = "loaded"
        /\ runners' = [runners EXCEPT ![r] =
              IF usable
              THEN [runner EXCEPT !.pc = IF runner.saves THEN "save" ELSE "idle",
                                  !.result = Replay(runner.prior), !.read = Len(log)]
              ELSE IF runner.saves THEN NoRunner
              ELSE [runner EXCEPT !.pc = "idle", !.result = Replay(None), !.read = Len(log)]]
        /\ UNCHANGED <<log, row>>

RowPosition == IF row = None THEN 0 ELSE row.position

(* CheckpointStore.save: the row must be where it was when it was loaded, may not
   go back, and is not replaced at its own position. *)
Saves(expected, new) ==
    /\ expected = RowPosition
    /\ new.position >= RowPosition
    /\ row # None => new.position > RowPosition

SaveCheckpoint(r) ==
    LET runner == runners[r]
        expected == IF runner.prior = None THEN 0 ELSE runner.prior.position
    IN  /\ runner.pc = "save"
        /\ row' = IF Saves(expected, runner.result) THEN runner.result ELSE row
        /\ runners' = [runners EXCEPT ![r] = NoRunner]
        /\ UNCHANGED log

(* The stored state was written by a build whose states this one does not load. *)
Outdate ==
    /\ row # None
    /\ row' = [row EXCEPT !.legible = FALSE]
    /\ UNCHANGED <<log, runners>>

CheckpointNext ==
    \/ AppendEvent
    \/ Outdate
    \/ \E r \in Runners : LoadCheckpoint(r) \/ Rebuild(r) \/ SaveCheckpoint(r)

CheckpointSpec == CheckpointInit /\ [][CheckpointNext]_ckvars

----------------------------------------------------------------------------
(* Properties *)

ExactUpTo(result, position) ==
    /\ result.state = RunEvents(position)
    /\ result.sequence = Cardinality(result.state)

(* However runners and appends interleave, a rebuild from a checkpoint is the fold of
   the whole stream as it was read, a stored checkpoint is the fold of the stream up
   to its position, and a later checkpoint is never replaced by an earlier one. *)
CheckpointsExact ==
    [][/\ row # None => ExactUpTo(row, row.position)
       /\ row # None => row' # None /\ row'.position >= row.position
       /\ \A r \in Runners :
             runners[r].result # None => ExactUpTo(runners[r].result, runners[r].read)]_ckvars
=============================================================================
