----------------------------- MODULE MCReview -----------------------------
(* What follows a run: a behaviour is one of ReviewPipeline, of EvidenceReplay (the
   evidence of one node is recorded, harmed and read again), of ReviewVerdict (one
   review of a run of two nodes) or of Gateway (one model call). *)
EXTENDS MCReviewPipeline, ReviewVerdict, EvidenceReplay, Gateway

CONSTANT f1

(* A local profile, a remote one that comes first, the same after its clearance or its
   model has changed, one whose adapter is not as declared. *)
Cheap == [id |-> 1, model |-> 1, enabled |-> TRUE, local |-> TRUE, deterministic |-> TRUE,
          classification |-> 1, priority |-> 1,
          limit |-> [u \in Usages |-> IF u = "cost" THEN 0 ELSE 1],
          adapter |-> [local |-> TRUE, deterministic |-> TRUE]]

Remote == [Cheap EXCEPT !.id = 2, !.local = FALSE, !.deterministic = FALSE, !.priority = 0,
                        !.limit = [u \in Usages |-> 1],
                        !.adapter = [local |-> FALSE, deterministic |-> FALSE]]

MCPolicies == {{Cheap, Remote}, {Cheap, [Remote EXCEPT !.classification = 0]},
               {[Cheap EXCEPT !.enabled = FALSE], [Remote EXCEPT !.model = 2]},
               {[Cheap EXCEPT !.priority = 0, !.adapter.deterministic = FALSE],
                [Cheap EXCEPT !.id = 3, !.limit["input"] = 0]}}

VARIABLE component  \* the component that steps

MCInit ==
    /\ component \in {"pipeline", "verdict", "evidence", "gateway"}
    /\ Init /\ VerdictInit /\ EvidenceInit /\ GatewayInit
    /\ component # "evidence" => attempt.write
    /\ component # "gateway" => policy = {Cheap, Remote}

MCNext ==
    \/ component = "pipeline" /\ Next /\ UNCHANGED <<docket, evars, gvars, component>>
    \/ component = "verdict" /\ VerdictNext /\ UNCHANGED <<vars, evars, gvars, component>>
    \/ component = "evidence" /\ EvidenceNext /\ UNCHANGED <<vars, docket, gvars, component>>
    \/ component = "gateway" /\ GatewayNext /\ UNCHANGED <<vars, docket, evars, component>>

MCSpec == MCInit /\ [][MCNext]_<<vars, docket, evars, gvars, component>>
=============================================================================
