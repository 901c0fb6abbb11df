----------------------------- MODULE MCStores -----------------------------
(* What is kept on the host: a behaviour is one of EventStore, of Checkpoints, of
   LocalState, of Admission or of TextChanges, while the other stores stay as they began.
   Only one of them steps, so they share the model values v1, ..., v6 and one symmetry. *)
EXTENDS EventStore, Checkpoints, LocalState, Admission, TextChanges, TLC

CONSTANTS v1, v2, v3, v4, v5, v6, small

MCBlobs == {small, v3, v4}
MCSize == [b \in MCBlobs |-> IF b = small THEN 1 ELSE 2]

VARIABLE component  \* the component that steps

storeVars == <<ledger, heads, answer>>
localVars == <<livars, recovery>>
textVars == <<files, head, litter, executor>>

MCInit ==
    /\ component \in {"events", "checkpoints", "local", "admission", "text"}
    /\ Init /\ CheckpointInit /\ LocalInit /\ AdmissionInit /\ TextInit
    /\ component # "text" => \A p \in TextPaths : files[p] = None

MCNext ==
    \/ /\ component = "events" /\ Next
       /\ UNCHANGED <<ckvars, localVars, avars, textVars, component>>
    \/ /\ component = "checkpoints" /\ CheckpointNext
       /\ UNCHANGED <<storeVars, localVars, avars, textVars, component>>
    \/ /\ component = "local" /\ LocalNext
       /\ UNCHANGED <<storeVars, ckvars, avars, textVars, component>>
    \/ /\ component = "admission" /\ AdmissionNext
       /\ UNCHANGED <<storeVars, ckvars, localVars, textVars, component>>
    \/ /\ component = "text" /\ TextNext
       /\ UNCHANGED <<storeVars, ckvars, localVars, avars, component>>

MCSpec == MCInit /\ [][MCNext]_<<storeVars, ckvars, localVars, avars, textVars, component>>

MCSymmetry == Permutations({v1, v2}) \cup Permutations({v3, v4}) \cup Permutations({v5, v6})
=============================================================================
