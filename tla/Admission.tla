------------------------------ MODULE Admission ------------------------------
(***************************************************************************)
(* Projects, intents, plans and runs on their way into the ledger:         *)
(* register_project, accept_intent, accept_plan and submit_run of          *)
(* RuntimeService (bootstrap/runtime_service.py) as called, concurrently   *)
(* and repeatedly, by the handlers of the HTTP API (interfaces/http).      *)
(*                                                                         *)
(* Each has a stream that ever holds one first event, which keeps the      *)
(* request and who made it.  A plan also pins its base commit with a Git   *)
(* reference before it is recorded.  What else a request says is its body: *)
(* for a plan, the base commit.                                            *)
(***************************************************************************)
EXTENDS Absent

CONSTANTS
    ProjectIds, IntentIds, PlanIds, RunIds,
    Bodies,      \* what requests for one id may differ in; commits that exist, for plans
    Callers,     \* the principals
    Handlers     \* requests in progress at a time

VARIABLES
    accepted,  \* stream -> its first event
    pins,      \* plan id -> the commit its reference names
    handler    \* the requests in progress and the last answer of each

avars == <<accepted, pins, handler>>

Request(kind, id, project, intent, plan, body) ==
    [kind |-> kind, id |-> id, project |-> project, intent |-> intent, plan |-> plan,
     body |-> body]

ApiRequests ==
    {Request("project", p, p, None, None, b) : p \in ProjectIds, b \in Bodies}
    \cup {Request("intent", i, p, i, None, b) : i \in IntentIds, p \in ProjectIds, b \in Bodies}
    \cup {Request("plan", q, p, i, q, b) :
            q \in PlanIds, p \in ProjectIds, i \in IntentIds, b \in Bodies}
    \cup {Request("run", r, p, i, q, b) :
            r \in RunIds, p \in ProjectIds, i \in IntentIds, q \in PlanIds, b \in Bodies}

(* What a stream holds: the request and who made it. *)
FirstEvents == [request : ApiRequests, caller : Callers]

ASSUME AdmissionAssumption ==
    None \notin Bodies /\ None \notin FirstEvents /\ None \notin {"accepted", "conflict"}

(* _project_stream, _intent_stream, _plan_stream, _run_stream *)
StreamOf(request) == <<request.kind, request.id>>

NoRequest ==
    [pc |-> "idle", request |-> None, caller |-> None, base |-> None, answer |-> None]

AdmissionInit ==
    /\ accepted = [s \in {StreamOf(q) : q \in ApiRequests} |-> None]
    /\ pins = [q \in PlanIds |-> None]
    /\ handler = [h \in Handlers |-> NoRequest]

----------------------------------------------------------------------------
(* One request *)

(* The events a request builds on. *)
Parents(request) ==
    CASE request.kind = "project" -> {}
      [] request.kind = "intent" -> {<<"project", request.project>>}
      [] request.kind = "plan" ->
            {<<"project", request.project>>, <<"intent", request.intent>>}
      [] request.kind = "run" ->
            {<<"project", request.project>>, <<"intent", request.intent>>,
             <<"plan", request.plan>>}

(* They are of the same project, and the plan of the same intent. *)
Agrees(request, parent) ==
    /\ parent.project = request.project
    /\ parent.kind = "plan" => parent.intent = request.intent

(* _request_event_payload *)
Event(h) == [request |-> handler[h].request, caller |-> handler[h].caller]

To(h, pc) == handler' = [handler EXCEPT ![h].pc = pc]

Answer(h, answer) ==
    handler' = [handler EXCEPT ![h].pc = "idle", ![h].base = None, ![h].answer = answer]

(* A handler gets a request: a new one, or one whose answer was lost. *)
Receive(h) ==
    /\ handler[h].pc = "idle"
    /\ \E request \in ApiRequests, caller \in Callers :
         handler' = [handler EXCEPT ![h] =
            [NoRequest EXCEPT !.pc = "check", !.request = request, !.caller = caller]]
    /\ UNCHANGED <<accepted, pins>>

Asked(h, kind) == handler[h].pc = "check" /\ handler[h].request.kind = kind

(* _require_storage, the first thing each operation does. *)
NoStorage(h) ==
    /\ handler[h].pc = "check"
    /\ Answer(h, "storage-quota-exceeded")
    /\ UNCHANGED <<accepted, pins>>

(* _required_event of every parent, and their agreement.  A mismatch is answered as a
   conflict too; it has a name of its own here. *)
Missing(h) == \E s \in Parents(handler[h].request) : accepted[s] = None
Mismatch(h) ==
    \E s \in Parents(handler[h].request) :
        accepted[s] # None /\ ~Agrees(handler[h].request, accepted[s].request)

Unsupported(h) ==
    /\ handler[h].pc = "check"
    /\ \/ Missing(h) /\ Answer(h, "not-found")
       \/ ~Missing(h) /\ Mismatch(h) /\ Answer(h, "mismatch")
    /\ UNCHANGED <<accepted, pins>>

Supported(h) == ~Missing(h) /\ ~Mismatch(h)

(* _require_project_root *)
RegisterProject(h) ==
    /\ Asked(h, "project")
    /\ To(h, "record") \/ Answer(h, "invalid")
    /\ UNCHANGED <<accepted, pins>>

AcceptIntent(h) ==
    /\ Asked(h, "intent") /\ Supported(h)
    /\ To(h, "record")
    /\ UNCHANGED <<accepted, pins>>

(* The checks of a generated plan contradict one another, or the evidence of the plan
   would be too much for a review. *)
PlanUnfit(h) ==
    /\ Asked(h, "plan") /\ Supported(h)
    /\ Answer(h, "invalid")
    /\ UNCHANGED <<accepted, pins>>

(* accept_plan looks whether the plan is there already: then it is that plan's commit
   that is pinned. *)
AcceptPlan(h) ==
    /\ Asked(h, "plan") /\ Supported(h)
    /\ LET prior == accepted[StreamOf(handler[h].request)]
       IN  handler' = [handler EXCEPT ![h].pc = "retain",
               ![h].base = IF prior = None THEN handler[h].request.body
                                           ELSE prior.request.body]
    /\ UNCHANGED <<accepted, pins>>

SubmitRun(h) ==
    /\ Asked(h, "run") /\ Supported(h)
    /\ To(h, "record")
    /\ UNCHANGED <<accepted, pins>>

(* Seeded fault: the reference is moved to the commit of the request. *)
RetainMoves(h) ==
    /\ handler[h].pc = "retain"
    /\ pins' = [pins EXCEPT ![handler[h].request.plan] = handler[h].base]
    /\ To(h, "record")
    /\ UNCHANGED accepted

(* retain_plan_base_commit: create the reference, or find it at the same commit. *)
Retain(h) ==
    /\ handler[h].pc = "retain"
    /\ LET plan == handler[h].request.plan
       IN  IF pins[plan] = None
           THEN pins' = [pins EXCEPT ![plan] = handler[h].base] /\ To(h, "record")
           ELSE /\ UNCHANGED pins
                /\ IF pins[plan] = handler[h].base THEN To(h, "record")
                   ELSE Answer(h, "not-ready")
    /\ UNCHANGED accepted

(* The commit does not exist any more, or Git fails. *)
RetainFails(h) ==
    /\ handler[h].pc = "retain"
    /\ \E answer \in {"invalid", "not-ready"} : Answer(h, answer)
    /\ UNCHANGED <<accepted, pins>>

(* _require_idempotent, _require_run_idempotent *)
Idempotent(h, event) == IF event = Event(h) THEN "accepted" ELSE "conflict"

(* _record_immutable, _record_run_queued: what is on record answers the request. *)
RecordRead(h) ==
    /\ handler[h].pc = "record"
    /\ LET existing == accepted[StreamOf(handler[h].request)]
       IN  IF existing = None THEN To(h, "append") ELSE Answer(h, Idempotent(h, existing))
    /\ UNCHANGED <<accepted, pins>>

(* The append expects an empty stream; one that lost the race reads again. *)
RecordAppend(h) ==
    /\ handler[h].pc = "append"
    /\ LET stream == StreamOf(handler[h].request)
       IN  IF accepted[stream] = None
           THEN /\ accepted' = [accepted EXCEPT ![stream] = Event(h)]
                /\ Answer(h, "accepted")
           ELSE /\ Answer(h, Idempotent(h, accepted[stream]))
                /\ UNCHANGED accepted
    /\ UNCHANGED pins

(* The API process ends, and with it the request. *)
HandlerLost(h) ==
    /\ handler[h].pc # "idle"
    /\ handler' = [handler EXCEPT ![h] = NoRequest]
    /\ UNCHANGED <<accepted, pins>>

AdmissionNext ==
    \E h \in Handlers :
        \/ Receive(h) \/ NoStorage(h) \/ Unsupported(h)
        \/ RegisterProject(h) \/ AcceptIntent(h) \/ PlanUnfit(h) \/ AcceptPlan(h)
        \/ SubmitRun(h) \/ Retain(h) \/ RetainFails(h) \/ RecordRead(h)
        \/ RecordAppend(h) \/ HandlerLost(h)

AdmissionSpec == AdmissionInit /\ [][AdmissionNext]_avars

----------------------------------------------------------------------------
(* Properties *)

(* Whatever requests race, are repeated or break off: the commit of an accepted plan is
   pinned by the plan's own reference; what is accepted builds on accepted events that
   agree with it; a caller is told that a request was accepted only when it is that very
   request that is on record; and a request is answered by a conflict only when another
   one is on record for its id. *)
AdmissionSound ==
    /\ \A s \in DOMAIN accepted : accepted[s] # None =>
         LET request == accepted[s].request
         IN  /\ StreamOf(request) = s
             /\ request.kind = "plan" => pins[request.plan] = request.body
             /\ \A t \in Parents(request) :
                  accepted[t] # None /\ Agrees(request, accepted[t].request)
    /\ \A h \in Handlers :
         /\ handler[h].answer = "accepted" => accepted[StreamOf(handler[h].request)] = Event(h)
         /\ handler[h].answer = "conflict" =>
              accepted[StreamOf(handler[h].request)] \notin {None, Event(h)}
=============================================================================
