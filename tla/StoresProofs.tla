---------------------------- MODULE StoresProofs ----------------------------
(***************************************************************************)
(* Proofs about what is kept on the host: what an admission records, what  *)
(* a projection folds, what the artifact store and its bundles hold, and   *)
(* what a change proposal leaves in a checkout.                            *)
(***************************************************************************)
EXTENDS EventStore, Admission, Checkpoints, LocalState, TextChanges, TLAPS, FiniteSetTheorems,
        WellFoundedInduction

----------------------------------------------------------------------------
(* Admission *)

AdmissionStreams == {StreamOf(request) : request \in ApiRequests}

HandlerStates ==
    [pc : {"idle", "check", "retain", "record", "append"},
     request : ApiRequests \cup {None}, caller : Callers \cup {None},
     base : Bodies \cup {None},
     answer : {None, "accepted", "conflict", "storage-quota-exceeded", "not-found", "mismatch",
               "invalid", "not-ready"}]

(* The fields of a request, by its kind. *)
LEMMA RequestFields ==
    ASSUME NEW q \in ApiRequests
    PROVE  /\ q.kind \in {"project", "intent", "plan", "run"}
           /\ q.body \in Bodies
           /\ q.kind = "plan" => q.plan \in PlanIds /\ q.id = q.plan
           /\ q.kind = "project" => q.id = q.project
           /\ q.project \in ProjectIds
           /\ q.kind # "project" => q.intent \in IntentIds
           /\ q.kind = "run" => q.plan \in PlanIds
  BY DEF ApiRequests, Request

(* The streams a request is about. *)
LEMMA RequestStreams ==
    ASSUME NEW q \in ApiRequests
    PROVE  StreamOf(q) \in AdmissionStreams /\ Parents(q) \subseteq AdmissionStreams
  <1>1. StreamOf(q) \in AdmissionStreams
    BY DEF AdmissionStreams
  <1>2. <<"project", q.project>> \in AdmissionStreams
    <2>1. Request("project", q.project, q.project, None, None, q.body) \in ApiRequests
      BY RequestFields DEF ApiRequests
    <2>2. QED
      BY <2>1 DEF AdmissionStreams, StreamOf, Request
  <1>3. q.kind # "project" => <<"intent", q.intent>> \in AdmissionStreams
    <2>1. q.kind # "project" =>
             Request("intent", q.intent, q.project, q.intent, None, q.body) \in ApiRequests
      BY RequestFields DEF ApiRequests
    <2>2. QED
      BY <2>1 DEF AdmissionStreams, StreamOf, Request
  <1>4. q.kind = "run" => <<"plan", q.plan>> \in AdmissionStreams
    <2>1. q.kind = "run" =>
             Request("plan", q.plan, q.project, q.intent, q.plan, q.body) \in ApiRequests
      BY RequestFields DEF ApiRequests
    <2>2. QED
      BY <2>1 DEF AdmissionStreams, StreamOf, Request
  <1>5. QED
    BY <1>1, <1>2, <1>3, <1>4, RequestFields DEF Parents

(* The invariant says of each handler x, of each record and of each answer what it
   says with respect to the accepted events a and the pins p. *)

(* Everything a request builds on is accepted and agrees with it. *)
Founded(a, q) == \A t \in Parents(q) : a[t] # None /\ Agrees(q, a[t].request)

(* A plan on its way: the commit it pins is its own, unless the plan was accepted
   meanwhile, and once pinned it stays pinned. *)
PlanUnderWay(x, a, p) ==
    /\ x.pc = "retain" => x.request.kind = "plan" /\ x.base \in Bodies
    /\ x.pc \in {"retain", "record", "append"} /\ x.request.kind = "plan" =>
          x.base = x.request.body \/ a[StreamOf(x.request)] # None
    /\ x.pc \in {"record", "append"} /\ x.request.kind = "plan" =>
          p[x.request.plan] = x.base /\ x.base \in Bodies

(* What a handler knows of the request it has in hand. *)
InHand(x, a, p) ==
    /\ x.pc # "idle" => x.answer = None
    /\ x.pc # "idle" \/ x.answer \in {"accepted", "conflict"} =>
          x.request \in ApiRequests /\ x.caller \in Callers
    /\ x.pc \in {"retain", "record", "append"} => Founded(a, x.request)
    /\ PlanUnderWay(x, a, p)

(* What is on record in one stream. *)
OnRecord(s, a, p) ==
    a[s] # None =>
        /\ StreamOf(a[s].request) = s
        /\ a[s].request.kind = "plan" => p[a[s].request.plan] = a[s].request.body
        /\ Founded(a, a[s].request)

(* A caller was told the truth. *)
Truthful(x, a) ==
    LET event == [request |-> x.request, caller |-> x.caller] IN
    /\ x.answer = "accepted" => a[StreamOf(x.request)] = event
    /\ x.answer = "conflict" => a[StreamOf(x.request)] \notin {None, event}

Accepts == [AdmissionStreams -> FirstEvents \cup {None}]
PinSets == [PlanIds -> Bodies \cup {None}]

AdmissionInv ==
    /\ accepted \in Accepts
    /\ pins \in PinSets
    /\ handler \in [Handlers -> HandlerStates]
    /\ \A s \in AdmissionStreams : OnRecord(s, accepted, pins)
    /\ \A h \in Handlers : InHand(handler[h], accepted, pins) /\ Truthful(handler[h], accepted)

(* Nothing that is set is ever changed. *)
Kept(f, g) == \A i \in DOMAIN f : f[i] # None => g[i] = f[i]

(* A request that is founded stays so. *)
LEMMA FoundedForever ==
    ASSUME NEW q \in ApiRequests, NEW a \in Accepts, NEW b \in Accepts, Kept(a, b),
           Founded(a, q)
    PROVE  Founded(b, q)
  BY RequestStreams DEF Founded, Kept, Accepts

(* What is said of a handler that does not move is not affected by the others. *)
LEMMA HandKept ==
    ASSUME NEW x \in HandlerStates,
           NEW a \in Accepts, NEW b \in Accepts, Kept(a, b),
           NEW p \in PinSets, NEW q \in PinSets, Kept(p, q),
           InHand(x, a, p), Truthful(x, a)
    PROVE  InHand(x, b, q) /\ Truthful(x, b)
  <1>1. x.request \in ApiRequests => StreamOf(x.request) \in AdmissionStreams
    BY RequestStreams
  <1>2. Truthful(x, b)
    <2>1. CASE x.answer \in {"accepted", "conflict"}
      <3>1. [request |-> x.request, caller |-> x.caller] \in FirstEvents
        BY <2>1 DEF InHand, FirstEvents
      <3>2. a[StreamOf(x.request)] # None
        BY <2>1, <3>1, AdmissionAssumption DEF Truthful
      <3>3. b[StreamOf(x.request)] = a[StreamOf(x.request)]
        BY <1>1, <2>1, <3>2 DEF InHand, Kept, Accepts
      <3>4. QED
        BY <2>1, <3>3 DEF Truthful
    <2>2. QED
      BY <2>1 DEF Truthful
  <1>3. PlanUnderWay(x, b, q)
    <2>1. x.pc # "idle" /\ x.request.kind = "plan" => x.request.plan \in PlanIds
      BY RequestFields DEF InHand
    <2>2. x.pc # "idle" => StreamOf(x.request) \in AdmissionStreams
      BY <1>1 DEF InHand
    <2>3. QED
      BY <2>1, <2>2, AdmissionAssumption DEF InHand, PlanUnderWay, Kept, Accepts, PinSets
  <1>4. x.pc \in {"retain", "record", "append"} => Founded(b, x.request)
    BY FoundedForever DEF InHand
  <1>5. QED
    BY <1>2, <1>3, <1>4 DEF InHand

(* A record that was there is still there, as it was. *)
LEMMA RecordsKept ==
    ASSUME NEW a \in Accepts, NEW b \in Accepts, Kept(a, b),
           NEW p \in PinSets, NEW q \in PinSets, Kept(p, q),
           NEW s \in AdmissionStreams, OnRecord(s, a, p), a[s] # None
    PROVE  OnRecord(s, b, q)
  <1>1. b[s] = a[s] /\ a[s] \in FirstEvents
    BY DEF Kept, Accepts
  <1>2. a[s].request \in ApiRequests
    BY <1>1 DEF FirstEvents
  <1>3. Founded(b, a[s].request)
    BY <1>2, FoundedForever DEF OnRecord
  <1>4. a[s].request.kind = "plan" => q[a[s].request.plan] = a[s].request.body
    <2>1. a[s].request.kind = "plan" => a[s].request.plan \in PlanIds
                                        /\ a[s].request.body \in Bodies
      BY <1>2, RequestFields
    <2>2. QED
      BY <2>1, AdmissionAssumption DEF OnRecord, Kept, PinSets
  <1>5. QED
    BY <1>1, <1>3, <1>4 DEF OnRecord

(* So a step has to be looked at only where it moves: the handler whose step it is, and
   a record that it makes. *)
LEMMA AdmissionMoves ==
    ASSUME AdmissionInv, NEW h \in Handlers, NEW x \in HandlerStates,
           handler' = [handler EXCEPT ![h] = x],
           accepted' \in Accepts, Kept(accepted, accepted'),
           pins' \in PinSets, Kept(pins, pins'),
           InHand(x, accepted', pins'), Truthful(x, accepted'),
           \A s \in AdmissionStreams : accepted[s] = None => OnRecord(s, accepted', pins')
    PROVE  AdmissionInv'
  <1>1. handler' \in [Handlers -> HandlerStates]
    BY DEF AdmissionInv
  <1>2. \A s \in AdmissionStreams : OnRecord(s, accepted', pins')
    BY RecordsKept DEF AdmissionInv
  <1>3. \A g \in Handlers : InHand(handler'[g], accepted', pins') /\ Truthful(handler'[g], accepted')
    <2>1. TAKE g \in Handlers
    <2>2. CASE g = h
      BY <2>2 DEF AdmissionInv
    <2>3. CASE g # h
      <3>1. handler'[g] = handler[g] /\ handler[g] \in HandlerStates
        BY <2>3 DEF AdmissionInv
      <3>2. InHand(handler[g], accepted, pins) /\ Truthful(handler[g], accepted)
        BY DEF AdmissionInv
      <3>3. QED
        BY <3>1, <3>2, HandKept DEF AdmissionInv
    <2>4. QED
      BY <2>2, <2>3
  <1>4. QED
    BY <1>1, <1>2, <1>3 DEF AdmissionInv

(* A step that changes nothing but its handler. *)
LEMMA AdmissionStays ==
    ASSUME AdmissionInv, NEW h \in Handlers, NEW x \in HandlerStates,
           handler' = [handler EXCEPT ![h] = x], UNCHANGED <<accepted, pins>>,
           InHand(x, accepted, pins), Truthful(x, accepted)
    PROVE  AdmissionInv'
  <1>1. Kept(accepted, accepted') /\ Kept(pins, pins')
    BY DEF Kept
  <1>2. QED
    BY <1>1, AdmissionMoves DEF AdmissionInv

(* The initial state. *)
LEMMA AdmissionStarts == AdmissionInit => AdmissionInv
  <1> SUFFICES ASSUME AdmissionInit PROVE AdmissionInv
    OBVIOUS
  <1>1. accepted \in Accepts /\ pins \in PinSets
    BY DEF AdmissionInit, Accepts, PinSets, AdmissionStreams
  <1>2. NoRequest \in HandlerStates /\ NoRequest.pc = "idle" /\ NoRequest.answer = None
    BY DEF NoRequest, HandlerStates
  <1>3. \A s \in AdmissionStreams : OnRecord(s, accepted, pins)
    BY DEF AdmissionInit, AdmissionStreams, OnRecord
  <1>4. InHand(NoRequest, accepted, pins) /\ Truthful(NoRequest, accepted)
    BY <1>2, AdmissionAssumption DEF InHand, PlanUnderWay, Truthful
  <1>5. QED
    BY <1>1, <1>2, <1>3, <1>4 DEF AdmissionInit, AdmissionInv

(* An answer that is neither "accepted" nor "conflict" is right whatever happened. *)
LEMMA OtherAnswers ==
    ASSUME AdmissionInv, NEW h \in Handlers,
           NEW reply \in {"storage-quota-exceeded", "not-found", "mismatch", "invalid",
                           "not-ready"},
           Answer(h, reply), UNCHANGED <<accepted, pins>>
    PROVE  AdmissionInv'
  <1> DEFINE x == [handler[h] EXCEPT !.pc = "idle", !.base = None, !.answer = reply]
  <1>1. handler[h] \in HandlerStates
    BY DEF AdmissionInv
  <1>2. x \in HandlerStates /\ x.pc = "idle" /\ x.answer = reply
    BY <1>1 DEF HandlerStates
  <1>3. handler' = [handler EXCEPT ![h] = x]
    BY DEF Answer
  <1>4. InHand(x, accepted, pins) /\ Truthful(x, accepted)
    BY <1>2 DEF InHand, PlanUnderWay, Truthful
  <1> HIDE DEF x
  <1>5. QED
    BY <1>2, <1>3, <1>4, AdmissionStays

(* Every step keeps the invariant. *)
LEMMA AdmissionSteps == AdmissionInv /\ [AdmissionNext]_avars => AdmissionInv'
  <1> SUFFICES ASSUME AdmissionInv, [AdmissionNext]_avars PROVE AdmissionInv'
    OBVIOUS
  <1>0. CASE UNCHANGED avars
    BY <1>0 DEF avars, AdmissionInv
  <1> SUFFICES ASSUME NEW h \in Handlers,
                      \/ Receive(h) \/ NoStorage(h) \/ Unsupported(h)
                      \/ RegisterProject(h) \/ AcceptIntent(h) \/ PlanUnfit(h) \/ AcceptPlan(h)
                      \/ SubmitRun(h) \/ Retain(h) \/ RetainFails(h) \/ RecordRead(h)
                      \/ RecordAppend(h) \/ HandlerLost(h)
               PROVE  AdmissionInv'
    BY <1>0 DEF AdmissionNext
  <1> DEFINE x == handler[h]
  <1>a. /\ x \in HandlerStates
        /\ InHand(x, accepted, pins)
        /\ Truthful(x, accepted)
        /\ accepted \in Accepts /\ pins \in PinSets
    BY DEF AdmissionInv
  <1>b. x.pc # "idle" => /\ x.request \in ApiRequests /\ x.caller \in Callers /\ x.answer = None
                         /\ StreamOf(x.request) \in AdmissionStreams
                         /\ x.request.kind = "plan" => x.request.plan \in PlanIds
                         /\ x.request.body \in Bodies
    BY <1>a, RequestStreams, RequestFields DEF InHand
  (* To(h, pc) of a request that is founded. *)
  <1>c. ASSUME NEW pc \in {"retain", "record", "append"}, To(h, pc), x.pc # "idle",
               UNCHANGED <<accepted, pins>>, Founded(accepted, x.request),
               PlanUnderWay([x EXCEPT !.pc = pc], accepted, pins)
        PROVE  AdmissionInv'
    <2> DEFINE y == [x EXCEPT !.pc = pc]
    <2>1. y \in HandlerStates
      BY <1>a DEF HandlerStates
    <2>2. handler' = [handler EXCEPT ![h] = y]
      BY <1>c DEF To
    <2>3. /\ y.pc = pc /\ y.request = x.request /\ y.caller = x.caller /\ y.answer = x.answer
      BY <1>a DEF HandlerStates
    <2>4. InHand(y, accepted, pins) /\ Truthful(y, accepted)
      BY <1>b, <1>c, <2>3, AdmissionAssumption DEF InHand, Truthful
    <2> HIDE DEF y
    <2>5. QED
      BY <1>c, <2>1, <2>2, <2>4, AdmissionStays
  (* The checks make a request founded. *)
  <1>d. Supported(h) => Founded(accepted, x.request)
    BY DEF Supported, Missing, Mismatch, Founded
  <1>1. CASE Receive(h)
    <2>1. PICK request \in ApiRequests, caller \in Callers :
            handler' = [handler EXCEPT ![h] =
               [NoRequest EXCEPT !.pc = "check", !.request = request, !.caller = caller]]
      BY <1>1 DEF Receive
    <2> DEFINE y == [NoRequest EXCEPT !.pc = "check", !.request = request, !.caller = caller]
    <2>2. y \in HandlerStates /\ y.pc = "check" /\ y.request = request /\ y.caller = caller
          /\ y.answer = None
      BY DEF HandlerStates, NoRequest
    <2>3. InHand(y, accepted, pins) /\ Truthful(y, accepted)
      BY <2>2, AdmissionAssumption DEF InHand, PlanUnderWay, Truthful
    <2>4. handler' = [handler EXCEPT ![h] = y] /\ UNCHANGED <<accepted, pins>>
      BY <1>1, <2>1 DEF Receive
    <2> HIDE DEF y
    <2>5. QED
      BY <2>2, <2>3, <2>4, AdmissionStays
  <1>2. CASE NoStorage(h)
    BY <1>2, OtherAnswers DEF NoStorage
  <1>3. CASE Unsupported(h)
    BY <1>3, OtherAnswers DEF Unsupported
  <1>4. CASE RegisterProject(h)
    <2>1. CASE To(h, "record")
      <3>1. x.pc # "idle" /\ x.request.kind = "project" /\ UNCHANGED <<accepted, pins>>
        BY <1>4 DEF RegisterProject, Asked
      <3>2. Founded(accepted, x.request)
        BY <3>1 DEF Founded, Parents
      <3>3. PlanUnderWay([x EXCEPT !.pc = "record"], accepted, pins)
        BY <1>a, <3>1 DEF PlanUnderWay, HandlerStates
      <3>4. QED
        BY <1>c, <2>1, <3>1, <3>2, <3>3
    <2>2. CASE Answer(h, "invalid")
      BY <1>4, <2>2, OtherAnswers DEF RegisterProject
    <2>3. QED
      BY <1>4, <2>1, <2>2 DEF RegisterProject
  <1>5. CASE AcceptIntent(h) \/ SubmitRun(h)
    <2>1. x.pc # "idle" /\ x.request.kind \in {"intent", "run"} /\ UNCHANGED <<accepted, pins>>
          /\ To(h, "record") /\ Supported(h)
      BY <1>5 DEF AcceptIntent, SubmitRun, Asked
    <2>2. PlanUnderWay([x EXCEPT !.pc = "record"], accepted, pins)
      BY <1>a, <2>1 DEF PlanUnderWay, HandlerStates
    <2>3. QED
      BY <1>c, <1>d, <2>1, <2>2
  <1>6. CASE PlanUnfit(h)
    BY <1>6, OtherAnswers DEF PlanUnfit
  <1>7. CASE AcceptPlan(h)
    <2> DEFINE prior == accepted[StreamOf(x.request)]
               base == IF prior = None THEN x.request.body ELSE prior.request.body
               y == [x EXCEPT !.pc = "retain", !.base = base]
    <2>1. x.pc = "check" /\ x.request.kind = "plan" /\ Supported(h)
          /\ UNCHANGED <<accepted, pins>>
      BY <1>7 DEF AcceptPlan, Asked
    <2>2. prior # None => prior \in FirstEvents
      BY <1>a, <1>b, <2>1 DEF Accepts
    <2>3. base \in Bodies
      BY <1>b, <2>1, <2>2, RequestFields DEF FirstEvents
    <2>4. handler' = [handler EXCEPT ![h] = y]
      BY <1>7 DEF AcceptPlan
    <2> HIDE DEF base
    <2>5. /\ y \in HandlerStates
          /\ y.pc = "retain" /\ y.base = base /\ y.request = x.request
          /\ y.caller = x.caller /\ y.answer = x.answer
      BY <1>a, <2>3 DEF HandlerStates
    <2>6. base = x.request.body \/ prior # None
      BY DEF base
    <2>7. InHand(y, accepted, pins) /\ Truthful(y, accepted)
      BY <1>b, <1>d, <2>1, <2>3, <2>5, <2>6, AdmissionAssumption
         DEF InHand, PlanUnderWay, Truthful
    <2> HIDE DEF y
    <2>8. QED
      BY <2>1, <2>4, <2>5, <2>7, AdmissionStays
  <1>8. CASE Retain(h)
    <2> DEFINE plan == x.request.plan
    <2>1. /\ x.pc = "retain" /\ x.request.kind = "plan" /\ x.base \in Bodies
          /\ Founded(accepted, x.request) /\ plan \in PlanIds
          /\ x.base = x.request.body \/ accepted[StreamOf(x.request)] # None
          /\ accepted' = accepted
      BY <1>8, <1>a, <1>b DEF Retain, InHand, PlanUnderWay
    <2>2. CASE pins[plan] = None
      <3> DEFINE y == [x EXCEPT !.pc = "record"]
      <3>1. pins' = [pins EXCEPT ![plan] = x.base] /\ handler' = [handler EXCEPT ![h] = y]
        BY <1>8, <2>2 DEF Retain, To
      <3>2. pins' \in PinSets /\ Kept(pins, pins') /\ pins'[plan] = x.base
        BY <1>a, <2>1, <2>2, <3>1 DEF PinSets, Kept
      <3>3. Kept(accepted, accepted')
        BY <2>1 DEF Kept
      <3>4. y \in HandlerStates /\ y.pc = "record" /\ y.base = x.base
            /\ y.request = x.request /\ y.caller = x.caller /\ y.answer = x.answer
        BY <1>a DEF HandlerStates
      <3>5. InHand(y, accepted', pins') /\ Truthful(y, accepted')
        BY <1>b, <2>1, <3>2, <3>4, AdmissionAssumption DEF InHand, PlanUnderWay, Truthful
      <3>6. \A s \in AdmissionStreams : accepted[s] = None => OnRecord(s, accepted', pins')
        BY <2>1 DEF OnRecord
      <3> HIDE DEF y
      <3>7. QED
        BY <1>a, <2>1, <3>1, <3>2, <3>3, <3>4, <3>5, <3>6, AdmissionMoves
    <2>3. CASE pins[plan] # None /\ pins[plan] = x.base
      <3>1. To(h, "record") /\ UNCHANGED <<accepted, pins>>
        BY <1>8, <2>3 DEF Retain
      <3>2. PlanUnderWay([x EXCEPT !.pc = "record"], accepted, pins)
        BY <1>a, <2>1, <2>3 DEF PlanUnderWay, HandlerStates
      <3>3. QED
        BY <1>c, <2>1, <3>1, <3>2
    <2>4. CASE pins[plan] # None /\ pins[plan] # x.base
      BY <1>8, <2>4, OtherAnswers DEF Retain
    <2>5. QED
      BY <2>2, <2>3, <2>4
  <1>9. CASE RetainFails(h)
    BY <1>9, OtherAnswers DEF RetainFails
  <1> DEFINE stream == StreamOf(x.request)
             event == [request |-> x.request, caller |-> x.caller]
  (* The answer of _require_idempotent. *)
  <1>e. ASSUME x.pc # "idle", accepted[stream] # None,
               Answer(h, Idempotent(h, accepted[stream])), UNCHANGED <<accepted, pins>>
        PROVE  AdmissionInv'
    <2> DEFINE reply == Idempotent(h, accepted[stream])
               y == [x EXCEPT !.pc = "idle", !.base = None, !.answer = reply]
    <2>1. /\ reply \in {"accepted", "conflict"}
          /\ reply = "accepted" => accepted[stream] = event
          /\ reply = "conflict" => accepted[stream] # event
      BY DEF Idempotent, Event
    <2>2. handler' = [handler EXCEPT ![h] = y]
      BY <1>e DEF Answer
    <2> HIDE DEF reply
    <2>3. y \in HandlerStates /\ y.pc = "idle" /\ y.answer = reply
          /\ y.request = x.request /\ y.caller = x.caller
      BY <1>a, <2>1 DEF HandlerStates
    <2>4. InHand(y, accepted, pins) /\ Truthful(y, accepted)
      BY <1>b, <1>e, <2>1, <2>3 DEF InHand, PlanUnderWay, Truthful
    <2> HIDE DEF y
    <2>5. QED
      BY <1>e, <2>2, <2>3, <2>4, AdmissionStays
  <1>10. CASE RecordRead(h)
    <2>1. x.pc = "record" /\ UNCHANGED <<accepted, pins>>
      BY <1>10 DEF RecordRead
    <2>2. CASE accepted[stream] = None
      <3>1. To(h, "append")
        BY <1>10, <2>2 DEF RecordRead
      <3>2. PlanUnderWay([x EXCEPT !.pc = "append"], accepted, pins)
        BY <1>a, <2>1 DEF InHand, PlanUnderWay, HandlerStates
      <3>3. QED
        BY <1>a, <1>c, <2>1, <3>1, <3>2 DEF InHand
    <2>3. CASE accepted[stream] # None
      BY <1>10, <1>e, <2>1, <2>3 DEF RecordRead
    <2>4. QED
      BY <2>2, <2>3
  <1>11. CASE RecordAppend(h)
    <2>1. x.pc = "append" /\ pins' = pins
      BY <1>11 DEF RecordAppend
    <2>2. CASE accepted[stream] = None
      <3> DEFINE y == [x EXCEPT !.pc = "idle", !.base = None, !.answer = "accepted"]
      <3>1. accepted' = [accepted EXCEPT ![stream] = event]
            /\ handler' = [handler EXCEPT ![h] = y]
        BY <1>11, <2>2 DEF RecordAppend, Answer, Event
      <3>2. event \in FirstEvents /\ event # None
        BY <1>b, <2>1, AdmissionAssumption DEF FirstEvents
      <3>3. accepted' \in Accepts /\ Kept(accepted, accepted') /\ accepted'[stream] = event
        BY <1>a, <1>b, <2>1, <2>2, <3>1, <3>2 DEF Accepts, Kept
      <3>4. Kept(pins, pins')
        BY <2>1 DEF Kept
      <3>5. y \in HandlerStates /\ y.pc = "idle" /\ y.answer = "accepted"
            /\ y.request = x.request /\ y.caller = x.caller
        BY <1>a DEF HandlerStates
      <3>6. InHand(y, accepted', pins') /\ Truthful(y, accepted')
        BY <1>b, <2>1, <3>3, <3>5 DEF InHand, PlanUnderWay, Truthful
      <3>7. Founded(accepted', x.request)
        BY <1>a, <1>b, <2>1, <3>3, FoundedForever DEF InHand
      <3>8. OnRecord(stream, accepted', pins')
        BY <1>a, <1>b, <2>1, <2>2, <3>3, <3>7 DEF OnRecord, InHand, PlanUnderWay
      <3>9. \A s \in AdmissionStreams : accepted[s] = None => OnRecord(s, accepted', pins')
        BY <1>a, <1>b, <2>1, <3>1, <3>8 DEF OnRecord, Accepts
      <3> HIDE DEF y
      <3>10. QED
        BY <1>a, <2>1, <3>1, <3>3, <3>4, <3>5, <3>6, <3>9, AdmissionMoves
    <2>3. CASE accepted[stream] # None
      BY <1>11, <1>e, <2>1, <2>3 DEF RecordAppend
    <2>4. QED
      BY <2>2, <2>3
  <1>12. CASE HandlerLost(h)
    <2>1. NoRequest \in HandlerStates /\ NoRequest.pc = "idle" /\ NoRequest.answer = None
      BY DEF NoRequest, HandlerStates
    <2>2. InHand(NoRequest, accepted, pins) /\ Truthful(NoRequest, accepted)
      BY <2>1, AdmissionAssumption DEF InHand, PlanUnderWay, Truthful
    <2>3. QED
      BY <1>12, <2>1, <2>2, AdmissionStays DEF HandlerLost
  <1>13. QED
    BY <1>1, <1>2, <1>3, <1>4, <1>5, <1>6, <1>7, <1>8, <1>9, <1>10, <1>11, <1>12

(* Whatever requests race, are repeated or break off: an accepted plan is pinned, what is
   accepted builds on accepted events that agree with it, and answers are true. *)
THEOREM AdmissionSafety == AdmissionSpec => []AdmissionSound
  <1>1. AdmissionInv => AdmissionSound
    BY DEF AdmissionInv, AdmissionSound, OnRecord, Founded, Truthful, Event, Accepts
  <1>2. QED
    BY <1>1, AdmissionStarts, AdmissionSteps, PTL DEF AdmissionSpec

----------------------------------------------------------------------------
(* Checkpoints *)

(* A set of naturals has a least element ... *)
LEMMA LeastNat ==
    ASSUME NEW S \in SUBSET Nat, S # {}
    PROVE  \E m \in S : \A k \in S : m <= k
  <1>1. \A k, m \in Nat : k < m => <<k, m>> \in OpToRel(<, Nat)
    <2> DEFINE R == OpToRel(<, Nat)
    <2>1. R = {ss \in Nat \X Nat : ss[1] < ss[2]}
      BY Zenon DEF OpToRel
    <2> HIDE DEF R
    <2>2. \A k, m \in Nat : k < m => <<k, m>> \in R
      BY <2>1
    <2>3. QED
      BY <2>2 DEF R
  <1>2. PICK m \in S : \A k \in S : ~(<<k, m>> \in OpToRel(<, Nat))
    BY NatLessThanWellFounded, WFMin, Zenon
  <1>3. \A k \in S : ~(k < m)
    BY <1>1, <1>2, Zenon
  <1>4. QED
    BY <1>3

(* ... and a bounded one a greatest. *)
LEMMA GreatestNat ==
    ASSUME NEW n \in Nat, NEW S \in SUBSET (0 .. n), S # {}
    PROVE  \E m \in S : \A k \in S : k <= m
  <1> DEFINE T == {n - k : k \in S}
  <1>1. \A k \in S : k \in Nat /\ k <= n /\ n - k \in T
    OBVIOUS
  <1>2. T \subseteq Nat
    BY <1>1
  <1>3. T # {}
    BY <1>1
  <1>4. PICK t \in T : \A k \in T : t <= k
    BY <1>2, <1>3, LeastNat
  <1>5. PICK m \in S : t = n - m
    BY <1>4
  <1>6. ASSUME NEW k \in S PROVE k <= m
    <2>1. n - m <= n - k
      BY <1>1, <1>4, <1>5
    <2>2. QED
      BY <1>1, <2>1
  <1>7. QED
    BY <1>6

(* The run's events among the first n of a ledger. *)
EventsUpTo(l, n) == {p \in 1 .. n : l[p]}

(* A checkpoint is the fold of the events up to its position. *)
Exact(l, c) ==
    /\ c \in Checkpoint
    /\ c.position <= Len(l)
    /\ c.state = EventsUpTo(l, c.position)
    /\ c.sequence = Cardinality(c.state)

RunnerStates ==
    [pc : {"idle", "loaded", "save"}, saves : BOOLEAN, prior : Checkpoint \cup {None},
     result : Checkpoint \cup {None}, read : Nat]

RunnerExact(l, x) ==
    /\ x.prior # None => Exact(l, x.prior)
    /\ x.result # None => /\ Exact(l, x.result)
                          /\ x.read <= Len(l)
                          /\ x.result.state = EventsUpTo(l, x.read)
    /\ x.pc = "save" => x.result # None

CheckpointInv ==
    /\ log \in Seq(BOOLEAN)
    /\ row # None => Exact(log, row)
    /\ runners \in [Runners -> RunnerStates]
    /\ \A r \in Runners : RunnerExact(log, runners[r])

(* Events are numbered by how many there are up to each. *)
LEMMA EventsFinite ==
    ASSUME NEW l, NEW n \in Nat
    PROVE  /\ EventsUpTo(l, n) \in SUBSET Nat
           /\ IsFiniteSet(EventsUpTo(l, n))
           /\ Cardinality(EventsUpTo(l, n)) \in Nat
  <1>1. EventsUpTo(l, n) \in SUBSET (1 .. n)
    BY DEF EventsUpTo
  <1>2. IsFiniteSet(1 .. n)
    BY FS_Interval
  <1>3. IsFiniteSet(EventsUpTo(l, n))
    BY <1>1, <1>2, FS_Subset
  <1>4. QED
    BY <1>1, <1>3, FS_CardinalityType

LEMMA EventsCount ==
    ASSUME NEW l, NEW m \in Nat, NEW n \in Nat, m < n, n \in EventsUpTo(l, n)
    PROVE  Cardinality(EventsUpTo(l, n)) > Cardinality(EventsUpTo(l, m))
  <1>1. EventsUpTo(l, m) \in SUBSET EventsUpTo(l, n) /\ n \notin EventsUpTo(l, m)
    BY DEF EventsUpTo
  <1>2. /\ Cardinality(EventsUpTo(l, m)) <= Cardinality(EventsUpTo(l, n))
        /\ Cardinality(EventsUpTo(l, n)) # Cardinality(EventsUpTo(l, m))
    BY <1>1, EventsFinite, FS_Subset
  <1>3. QED
    BY <1>2, EventsFinite

(* replay gives the fold of the whole stream as it was read, from wherever it starts:
   no event is applied twice, and none is skipped that the checkpoint does not hold. *)
LEMMA ReplayExact ==
    ASSUME log \in Seq(BOOLEAN), NEW c, c # None => Exact(log, c)
    PROVE  Exact(log, Replay(c)) /\ Replay(c).state = EventsUpTo(log, Len(log))
  <1> DEFINE from == IF c = None THEN [state |-> {}, position |-> 0, sequence |-> 0, legible |-> TRUE]
                     ELSE c
             new == {p \in ReadFrom(c) : p > from.position}
             last == CHOOSE p \in new : \A q \in new : q <= p
             n == Len(log)
  <1>0. n \in Nat
    OBVIOUS
  <1>1. Exact(log, from)
    <2>1. EventsUpTo(log, 0) = {}
      BY DEF EventsUpTo
    <2>2. CASE c = None
      BY <2>1, <2>2, FS_EmptySet DEF Exact, Checkpoint
    <2>3. CASE c # None
      BY <2>3
    <2>4. QED
      BY <2>2, <2>3
  <1>2. Replay(c) = IF new = {} THEN from
                    ELSE [state |-> from.state \cup new, position |-> last,
                          sequence |-> Cardinality(RunEvents(last)), legible |-> TRUE]
    BY DEF Replay
  <1>3. \A k : RunEvents(k) = EventsUpTo(log, k)
    BY DEF RunEvents, EventsUpTo
  <1>4. new = {p \in EventsUpTo(log, n) : p > from.position}
    <2>1. ASSUME NEW p \in EventsUpTo(log, n), p > from.position
          PROVE  p \in ReadFrom(c)
      <3>1. p \in Nat /\ p \in EventsUpTo(log, p)
        BY DEF EventsUpTo
      <3>2. CASE c = None
        BY <1>3, <3>2 DEF ReadFrom
      <3>3. CASE c # None
        <4>1. c = from /\ c.position \in Nat /\ c.position < p
          BY <3>1, <3>3, <2>1, <1>1 DEF Exact, Checkpoint
        <4>2. Cardinality(EventsUpTo(log, p)) > c.sequence
          BY <1>1, <3>1, <4>1, EventsCount DEF Exact
        <4>3. QED
          BY <1>3, <4>2 DEF ReadFrom
      <3>4. QED
        BY <3>2, <3>3
    <2>2. ReadFrom(c) \subseteq EventsUpTo(log, n)
      BY <1>3 DEF ReadFrom
    <2>3. QED
      BY <2>1, <2>2
  <1> HIDE DEF new, from
  <1>5. from.position \in Nat /\ from.position <= n /\ from.state = EventsUpTo(log, from.position)
    BY <1>1 DEF Exact, Checkpoint
  <1>6. from.state \cup new = EventsUpTo(log, n)
    BY <1>0, <1>4, <1>5 DEF EventsUpTo
  <1>7. CASE new = {}
    BY <1>1, <1>2, <1>6, <1>7
  <1>8. CASE new # {}
    <2>1. new \in SUBSET (0 .. n)
      BY <1>4 DEF EventsUpTo
    <2>2. last \in new /\ \A q \in new : q <= last
      <3>1. \E p \in new : \A q \in new : q <= p
        BY <1>0, <1>8, <2>1, GreatestNat
      <3>2. QED
        BY <3>1
    <2> HIDE DEF last
    <2>3. last \in Nat /\ last <= n /\ last > from.position
      BY <1>0, <1>4, <2>2 DEF EventsUpTo
    <2>4. EventsUpTo(log, last) = EventsUpTo(log, n)
      <3>1. \A p \in EventsUpTo(log, n) : p <= last
        BY <1>0, <1>4, <1>5, <2>2, <2>3 DEF EventsUpTo
      <3>2. QED
        BY <1>0, <2>3, <3>1 DEF EventsUpTo
    <2>5. Replay(c) = [state |-> EventsUpTo(log, n), position |-> last,
                       sequence |-> Cardinality(EventsUpTo(log, n)), legible |-> TRUE]
      BY <1>2, <1>3, <1>6, <1>8, <2>4
    <2>6. QED
      BY <1>0, <2>3, <2>4, <2>5, EventsFinite DEF Exact, Checkpoint
  <1>9. QED
    BY <1>7, <1>8

(* An event appended to the ledger changes nothing of what was folded before. *)
LEMMA ExactForever ==
    ASSUME NEW l \in Seq(BOOLEAN), NEW own \in BOOLEAN
    PROVE  /\ \A c : Exact(l, c) => Exact(Append(l, own), c)
           /\ \A x : x \in RunnerStates /\ RunnerExact(l, x) => RunnerExact(Append(l, own), x)
  <1>1. Len(Append(l, own)) = Len(l) + 1 /\ Len(l) \in Nat
    OBVIOUS
  <1>2. \A n \in Nat : n <= Len(l) => EventsUpTo(Append(l, own), n) = EventsUpTo(l, n)
    BY DEF EventsUpTo
  <1>3. \A c : Exact(l, c) => Exact(Append(l, own), c)
    BY <1>1, <1>2 DEF Exact, Checkpoint
  <1>4. QED
    BY <1>1, <1>2, <1>3 DEF RunnerExact, RunnerStates

LEMMA CheckpointStarts == CheckpointInit => CheckpointInv
  <1> SUFFICES ASSUME CheckpointInit PROVE CheckpointInv
    OBVIOUS
  <1>1. NoRunner \in RunnerStates /\ RunnerExact(log, NoRunner)
    BY DEF NoRunner, RunnerStates, RunnerExact
  <1>2. QED
    BY <1>1 DEF CheckpointInit, CheckpointInv

(* A step of one runner that leaves the ledger. *)
LEMMA RunnerMoves ==
    ASSUME CheckpointInv, UNCHANGED log, row' # None => Exact(log, row'),
           NEW r \in Runners, NEW x \in RunnerStates, RunnerExact(log, x),
           runners' = [runners EXCEPT ![r] = x]
    PROVE  CheckpointInv'
  BY DEF CheckpointInv

LEMMA CheckpointSteps == CheckpointInv /\ [CheckpointNext]_ckvars => CheckpointInv'
  <1> SUFFICES ASSUME CheckpointInv, [CheckpointNext]_ckvars PROVE CheckpointInv'
    OBVIOUS
  <1>1. CASE UNCHANGED ckvars
    BY <1>1 DEF ckvars, CheckpointInv
  <1>2. CASE AppendEvent
    <2>1. PICK own \in BOOLEAN : log' = Append(log, own)
      BY <1>2 DEF AppendEvent
    <2>2. row' = row /\ runners' = runners /\ log \in Seq(BOOLEAN)
      BY <1>2 DEF AppendEvent, CheckpointInv
    <2>3. log' \in Seq(BOOLEAN)
      BY <2>1, <2>2
    <2>4. QED
      BY <2>1, <2>2, <2>3, ExactForever DEF CheckpointInv
  <1>3. CASE Outdate
    <2>1. /\ row # None /\ Exact(log, row)
          /\ row' = [row EXCEPT !.legible = FALSE] /\ UNCHANGED <<log, runners>>
      BY <1>3 DEF Outdate, CheckpointInv
    <2>2. Exact(log, row')
      BY <2>1 DEF Exact, Checkpoint
    <2>3. QED
      BY <2>1, <2>2 DEF CheckpointInv
  <1>4. ASSUME NEW r \in Runners, LoadCheckpoint(r) PROVE CheckpointInv'
    <2>1. PICK saves \in BOOLEAN :
             runners' = [runners EXCEPT ![r] =
                 [NoRunner EXCEPT !.pc = "loaded", !.saves = saves, !.prior = row]]
      BY <1>4 DEF LoadCheckpoint
    <2> DEFINE x == [NoRunner EXCEPT !.pc = "loaded", !.saves = saves, !.prior = row]
    <2>2. row \in Checkpoint \cup {None} /\ UNCHANGED <<log, row>>
      BY <1>4 DEF LoadCheckpoint, CheckpointInv, Exact
    <2>3. x \in RunnerStates /\ x.prior = row /\ x.result = None /\ x.pc = "loaded"
      BY <2>2 DEF NoRunner, RunnerStates
    <2>4. RunnerExact(log, x)
      BY <2>3 DEF RunnerExact, CheckpointInv
    <2> HIDE DEF x
    <2>5. QED
      BY <2>1, <2>2, <2>3, <2>4, RunnerMoves DEF x, CheckpointInv
  <1>5. ASSUME NEW r \in Runners, Rebuild(r) PROVE CheckpointInv'
    <2> DEFINE x == runners[r]
               new == [x EXCEPT !.pc = IF x.saves THEN "save" ELSE "idle",
                                !.result = Replay(x.prior), !.read = Len(log)]
               whole == [x EXCEPT !.pc = "idle", !.result = Replay(None), !.read = Len(log)]
    <2>1. x \in RunnerStates /\ RunnerExact(log, x) /\ log \in Seq(BOOLEAN)
      BY DEF CheckpointInv
    <2>0. Len(log) \in Nat
      BY <2>1
    <2>1a. x \in RunnerStates
      BY <2>1
    <2>2. ASSUME NEW c, c # None => Exact(log, c)
          PROVE  Replay(c) \in Checkpoint /\ Exact(log, Replay(c))
                 /\ Replay(c).state = EventsUpTo(log, Len(log))
      BY <2>1, <2>2, ReplayExact DEF Exact
    <2>3. new \in RunnerStates /\ RunnerExact(log, new)
      <3>1. new \in RunnerStates /\ new.prior = x.prior /\ new.result = Replay(x.prior)
            /\ new.read = Len(log)
        <4>1. Replay(x.prior) \in Checkpoint
          BY <2>1, <2>2 DEF RunnerExact
        <4>2. QED
          BY <2>0, <2>1a, <4>1 DEF RunnerStates
      <3>2. QED
        BY <2>1, <2>2, <3>1, CheckpointAssumption DEF RunnerExact
    <2>4. whole \in RunnerStates /\ RunnerExact(log, whole)
      <3>1. whole \in RunnerStates /\ whole.prior = x.prior /\ whole.result = Replay(None)
            /\ whole.read = Len(log) /\ whole.pc = "idle"
        <4>1. Replay(None) \in Checkpoint
          BY <2>2
        <4>2. QED
          BY <2>0, <2>1a, <4>1 DEF RunnerStates
      <3>2. QED
        BY <2>1, <2>2, <3>1 DEF RunnerExact
    <2>5. NoRunner \in RunnerStates /\ RunnerExact(log, NoRunner)
      BY DEF NoRunner, RunnerStates, RunnerExact
    <2>6. UNCHANGED <<log, row>> /\ \/ runners' = [runners EXCEPT ![r] = new]
                                    \/ runners' = [runners EXCEPT ![r] = whole]
                                    \/ runners' = [runners EXCEPT ![r] = NoRunner]
      BY <1>5 DEF Rebuild
    <2> HIDE DEF new, whole
    <2>7. QED
      BY <2>3, <2>4, <2>5, <2>6, RunnerMoves DEF CheckpointInv
  <1>6. ASSUME NEW r \in Runners, SaveCheckpoint(r) PROVE CheckpointInv'
    <2>1. NoRunner \in RunnerStates /\ RunnerExact(log, NoRunner)
      BY DEF NoRunner, RunnerStates, RunnerExact
    <2>2. Exact(log, runners[r].result)
      BY <1>6 DEF SaveCheckpoint, CheckpointInv, RunnerExact
    <2>3. row' # None => Exact(log, row')
      BY <1>6, <2>2 DEF SaveCheckpoint, CheckpointInv
    <2>4. QED
      BY <1>6, <2>1, <2>3, RunnerMoves DEF SaveCheckpoint
  <1>7. QED
    BY <1>1, <1>2, <1>3, <1>4, <1>5, <1>6 DEF CheckpointNext

(* A stored checkpoint never goes away and never goes back. *)
LEMMA CheckpointForward ==
    ASSUME CheckpointInv, [CheckpointNext]_ckvars, row # None
    PROVE  row' # None /\ row'.position >= row.position
  <1>0. row \in Checkpoint
    BY DEF CheckpointInv, Exact
  <1>1. CASE UNCHANGED row
    BY <1>0, <1>1 DEF Checkpoint
  <1>2. CASE Outdate
    <2>1. row' = [row EXCEPT !.legible = FALSE]
      BY <1>2 DEF Outdate
    <2>2. row' \in Checkpoint /\ row'.position = row.position /\ row.position \in Nat
      BY <1>0, <2>1 DEF Checkpoint
    <2>3. QED
      BY <2>2, CheckpointAssumption
  <1>3. ASSUME NEW r \in Runners, SaveCheckpoint(r)
        PROVE  row' # None /\ row'.position >= row.position
    <2>1. runners[r].result \in Checkpoint
      BY <1>3 DEF SaveCheckpoint, CheckpointInv, RunnerExact, Exact
    <2>2. row' = row \/ (row' = runners[r].result /\ row'.position >= RowPosition)
      BY <1>3 DEF SaveCheckpoint, Saves
    <2>3. QED
      BY <1>1, <2>1, <2>2, CheckpointAssumption DEF RowPosition
  <1>4. QED
    BY <1>1, <1>2, <1>3 DEF CheckpointNext, ckvars, AppendEvent, LoadCheckpoint, Rebuild

(* However runners and appends interleave, a rebuild is the fold of the whole stream as it
   was read, and a stored checkpoint is exact and never replaced by an earlier one. *)
THEOREM CheckpointSafety == CheckpointSpec => CheckpointsExact
  <1>1. ASSUME CheckpointInv, CheckpointInv', [CheckpointNext]_ckvars
        PROVE  /\ row # None => ExactUpTo(row, row.position)
               /\ row # None => row' # None /\ row'.position >= row.position
               /\ \A r \in Runners :
                     runners[r].result # None => ExactUpTo(runners[r].result, runners[r].read)
    <2>1. \A k : RunEvents(k) = EventsUpTo(log, k)
      BY DEF RunEvents, EventsUpTo
    <2>2. row # None => ExactUpTo(row, row.position)
      BY <1>1, <2>1 DEF CheckpointInv, Exact, ExactUpTo
    <2>3. \A r \in Runners :
             runners[r].result # None => ExactUpTo(runners[r].result, runners[r].read)
      BY <1>1, <2>1 DEF CheckpointInv, RunnerExact, Exact, ExactUpTo
    <2>4. QED
      BY <1>1, <2>2, <2>3, CheckpointForward
  <1>2. QED
    BY <1>1, CheckpointStarts, CheckpointSteps, PTL DEF CheckpointSpec, CheckpointsExact

----------------------------------------------------------------------------
(* The artifact store *)

(* The bytes of artifacts, each by its artifact and its offset. *)
Bytes(S) == UNION {{b} \X (1 .. Size[b]) : b \in S}

(* An artifact that is new adds its size. *)
LEMMA UsedAdds ==
    ASSUME NEW S \in SUBSET Blobs, IsFiniteSet(Bytes(S)), NEW b \in Blobs, b \notin S
    PROVE  IsFiniteSet(Bytes(S \cup {b})) /\ Used(S \cup {b}) = Used(S) + Size[b]
  <1> DEFINE own == {b} \X (1 .. Size[b])
  <1>1. Size[b] \in Nat /\ Size[b] >= 1
    BY QuotaAssumption
  <1>2. IsFiniteSet(1 .. Size[b]) /\ Cardinality(1 .. Size[b]) = Size[b]
    BY <1>1, FS_Interval
  <1>3. IsFiniteSet({b}) /\ Cardinality({b}) = 1
    BY FS_Singleton
  <1>4. IsFiniteSet(own) /\ Cardinality(own) = Size[b]
    <2>1. IsFiniteSet(own) /\ Cardinality(own) = Cardinality({b}) * Cardinality(1 .. Size[b])
      BY <1>2, <1>3, FS_Product, Zenon
    <2>2. 1 * Size[b] = Size[b]
      BY <1>1
    <2>3. QED
      BY <1>2, <1>3, <2>1, <2>2, Zenon
  <1>5. Bytes(S \cup {b}) = Bytes(S) \cup own
    BY DEF Bytes
  <1>6. Bytes(S) \cap own = {}
    BY DEF Bytes
  <1> HIDE DEF own
  <1>7. Cardinality(Bytes(S)) \in Nat
    BY FS_CardinalityType
  <1>8. /\ IsFiniteSet(Bytes(S) \cup own)
        /\ Cardinality(Bytes(S) \cup own) = Cardinality(Bytes(S)) + Size[b]
    <2>1. /\ IsFiniteSet(Bytes(S) \cup own)
          /\ Cardinality(Bytes(S) \cup own)
               = Cardinality(Bytes(S)) + Cardinality(own) - Cardinality(Bytes(S) \cap own)
      BY <1>4, FS_Union, Zenon
    <2>2. Cardinality(Bytes(S) \cap own) = 0
      BY <1>6, FS_EmptySet, Zenon
    <2>3. Cardinality(Bytes(S)) + Size[b] - 0 = Cardinality(Bytes(S)) + Size[b]
      BY <1>1, <1>7
    <2>4. QED
      BY <1>4, <2>1, <2>2, <2>3, Zenon
  <1>9. QED
    BY <1>5, <1>8 DEF Used, Bytes

(* The put in progress has been admitted under the quota, and the rows that count have
   not changed since; its row follows its file. *)
ArtifactInv ==
    /\ rows \in SUBSET Blobs /\ IsFiniteSet(Bytes(rows))
    /\ refs \subseteq rows /\ rows \subseteq blobs
    /\ Used(rows) <= Quota
    /\ putter \in [pc : {"idle", "write", "commit"}, blob : Blobs \cup {None}]
    /\ putter.pc # "idle" => /\ putter.blob \in Blobs \ rows
                             /\ Used(rows) + Size[putter.blob] <= Quota
    /\ putter.pc = "commit" => putter.blob \in blobs

LEMMA ArtifactsStart == LocalInit => ArtifactInv
  <1> SUFFICES ASSUME LocalInit PROVE ArtifactInv
    OBVIOUS
  <1>1. rows = {} /\ refs = {} /\ blobs = {} /\ putter = NoPut
    BY DEF LocalInit
  <1>2. Bytes({}) = {}
    BY DEF Bytes
  <1>3. IsFiniteSet(Bytes(rows)) /\ Used(rows) = 0
    BY <1>1, <1>2, FS_EmptySet DEF Used, Bytes
  <1>4. QED
    BY <1>1, <1>3, QuotaAssumption DEF ArtifactInv, NoPut

(* Backups and restores only read the store. *)
LEMMA CopiesLeaveArtifacts ==
    ASSUME LocalNext
    PROVE  \/ \E b \in Blobs : BeginPut(b) \/ ReferTo(b)
           \/ WriteBlob \/ CommitRow \/ AbandonPut
           \/ UNCHANGED livars
  BY DEF LocalNext, StartBackup, CopyArtifact, PublishBundle, ListBundles, PruneFile, EndBackup,
         VerifyBundle, LockTarget, RestoreFile, RenameTarget, AbandonRestore

LEMMA ArtifactsStep == ArtifactInv /\ [LocalNext]_<<livars, recovery>> => ArtifactInv'
  <1> SUFFICES ASSUME ArtifactInv, [LocalNext]_<<livars, recovery>> PROVE ArtifactInv'
    OBVIOUS
  <1>1. CASE UNCHANGED livars
    BY <1>1 DEF livars, ArtifactInv, Used, Bytes
  <1>2. ASSUME NEW b \in Blobs, BeginPut(b) PROVE ArtifactInv'
    <2>1. /\ rows' = rows /\ blobs' = blobs /\ refs' = refs
          /\ putter' = [pc |-> "write", blob |-> b]
          /\ b \notin rows /\ Used(rows) + Size[b] <= Quota
      BY <1>2 DEF BeginPut
    <2>2. Used(rows)' = Used(rows) /\ Bytes(rows)' = Bytes(rows)
      BY <2>1 DEF Used, Bytes
    <2>3. QED
      BY <2>1, <2>2 DEF ArtifactInv
  <1>3. ASSUME NEW b \in Blobs, ReferTo(b) PROVE ArtifactInv'
    BY <1>3 DEF ReferTo, ArtifactInv, Used, Bytes
  <1>4. CASE WriteBlob
    BY <1>4 DEF WriteBlob, ArtifactInv, Used, Bytes
  <1>5. CASE CommitRow
    <2> DEFINE b == putter.blob
    <2>1. /\ rows' = rows \cup {b} /\ blobs' = blobs /\ refs' = refs /\ putter' = NoPut
          /\ b \in Blobs /\ b \notin rows /\ b \in blobs /\ Used(rows) + Size[b] <= Quota
      BY <1>5 DEF CommitRow, ArtifactInv
    <2>2. IsFiniteSet(Bytes(rows \cup {b})) /\ Used(rows \cup {b}) = Used(rows) + Size[b]
      BY <2>1, UsedAdds DEF ArtifactInv
    <2>3. Used(rows)' = Used(rows \cup {b}) /\ Bytes(rows)' = Bytes(rows \cup {b})
      BY <2>1 DEF Used, Bytes
    <2>4. QED
      BY <2>1, <2>2, <2>3 DEF ArtifactInv, NoPut
  <1>6. CASE AbandonPut
    BY <1>6 DEF AbandonPut, ArtifactInv, NoPut, Used, Bytes
  <1>7. UNCHANGED <<livars, recovery>> => UNCHANGED livars
    OBVIOUS
  <1>8. QED
    BY <1>1, <1>2, <1>3, <1>4, <1>5, <1>6, <1>7, CopiesLeaveArtifacts

(* Whatever writer is interrupted at whatever step: an event names only artifacts that
   have a row, a row has its file, and the rows are within the quota. *)
THEOREM ArtifactsSafety == LocalSpec => []ArtifactsDurable
  <1>1. ArtifactInv => ArtifactsDurable
    BY DEF ArtifactInv, ArtifactsDurable
  <1>2. QED
    BY <1>1, ArtifactsStart, ArtifactsStep, PTL DEF LocalSpec

----------------------------------------------------------------------------
(* Bundles and restored roots *)

(* A snapshot of the database: its events name artifacts it has rows of. *)
Snapshot(b) == b \in Bundle /\ b.refs \subseteq b.rows

BackupStates ==
    [pc : {"idle", "copy", "publish", "list", "prune"}, id : Nat, bundle : Bundle,
     victims : SUBSET Nat]

BackupSound(bs, x) ==
    /\ x \in BackupStates /\ Snapshot(x.bundle)
    /\ x.pc # "idle" => x.id \in DOMAIN bs
    /\ x.victims \subseteq DOMAIN bs

BundlesSound(bs) ==
    /\ bs \in Seq(Bundle \cup {None})
    /\ \A i \in DOMAIN bs : bs[i] # None => Snapshot(bs[i])

RestoreStates == [pc : {"idle", "lock", "copy", "rename"}, id : Nat, bundle : Bundle]

RestoreSound(x) ==
    /\ x \in RestoreStates /\ Snapshot(x.bundle)
    /\ x.pc = "rename" => x.bundle.files = x.bundle.rows \cup {"database"}
    /\ x.bundle.files \subseteq x.bundle.rows \cup {"database"}

TargetSound(t) ==
    t # None => t.files = t.rows \cup {"database"} /\ t.refs \subseteq t.rows

CopiesInv ==
    /\ BundlesSound(bundles)
    /\ backup \in [Backups -> BackupStates]
    /\ \A p \in Backups : BackupSound(bundles, backup[p])
    /\ restorer \in [Restores -> RestoreStates]
    /\ \A p \in Restores : RestoreSound(restorer[p])
    /\ TargetSound(target)

LEMMA EmptySound ==
    /\ \A bs : BackupSound(bs, NoBackup)
    /\ RestoreSound(NoRestore)
  BY DEF BackupSound, BackupStates, RestoreSound, RestoreStates, NoBackup, NoRestore, NoBundle,
         Snapshot, Bundle

LEMMA CopiesStart == LocalInit => CopiesInv
  <1> SUFFICES ASSUME LocalInit PROVE CopiesInv
    OBVIOUS
  <1>1. /\ bundles = <<>> /\ target = None
        /\ backup = [p \in Backups |-> NoBackup]
        /\ restorer = [p \in Restores |-> NoRestore]
    BY DEF LocalInit
  <1>2. BundlesSound(<<>>) /\ TargetSound(None)
    BY DEF BundlesSound, TargetSound
  <1>3. NoBackup \in BackupStates /\ NoRestore \in RestoreStates
    BY EmptySound DEF BackupSound, RestoreSound
  <1>4. QED
    BY <1>1, <1>2, <1>3, EmptySound DEF CopiesInv

(* A step of one backup, which may add or change a bundle ... *)
LEMMA BackupMoves ==
    ASSUME CopiesInv, UNCHANGED <<restorer, target>>,
           NEW p \in Backups, NEW x, BackupSound(bundles', x),
           backup' = [backup EXCEPT ![p] = x],
           BundlesSound(bundles'), DOMAIN bundles \subseteq DOMAIN bundles'
    PROVE  CopiesInv'
  <1>1. x \in BackupStates
    BY DEF BackupSound
  <1>2. \A q \in Backups : backup'[q] = IF q = p THEN x ELSE backup[q]
    BY <1>1 DEF CopiesInv
  <1>3. \A q \in Backups : BackupSound(bundles', backup'[q])
    BY <1>2 DEF CopiesInv, BackupSound
  <1>4. QED
    BY <1>1, <1>3 DEF CopiesInv

(* ... and one of a restore, which changes none. *)
LEMMA RestoreMoves ==
    ASSUME CopiesInv, UNCHANGED <<bundles, backup>>,
           NEW p \in Restores, NEW x, RestoreSound(x),
           restorer' = [restorer EXCEPT ![p] = x], TargetSound(target')
    PROVE  CopiesInv'
  <1>1. x \in RestoreStates
    BY DEF RestoreSound
  <1>2. \A q \in Restores : restorer'[q] = IF q = p THEN x ELSE restorer[q]
    BY <1>1 DEF CopiesInv
  <1>3. QED
    BY <1>1, <1>2 DEF CopiesInv

(* A bundle that is published or loses a file leaves the other bundles as they are. *)
LEMMA BundleChanges ==
    ASSUME NEW bs, BundlesSound(bs), NEW i \in DOMAIN bs, NEW b, b = None \/ Snapshot(b)
    PROVE  /\ BundlesSound([bs EXCEPT ![i] = b])
           /\ DOMAIN [bs EXCEPT ![i] = b] = DOMAIN bs
  BY DEF BundlesSound, Snapshot

LEMMA BackupSteps ==
    ASSUME CopiesInv, ArtifactInv, NEW p \in Backups,
           \/ StartBackup(p) \/ CopyArtifact(p) \/ PublishBundle(p)
           \/ ListBundles(p) \/ PruneFile(p) \/ EndBackup(p)
    PROVE  CopiesInv'
  <1> DEFINE x == backup[p]
  <1>a. BundlesSound(bundles) /\ x \in BackupStates /\ BackupSound(bundles, x)
    BY DEF CopiesInv
  (* The backup gives up or returns. *)
  <1>b. ASSUME backup' = [backup EXCEPT ![p] = NoBackup], UNCHANGED <<bundles, restorer, target>>
        PROVE  CopiesInv'
    BY <1>a, <1>b, BackupMoves, EmptySound
  (* Its state alone changes. *)
  <1>c. ASSUME NEW y, backup' = [backup EXCEPT ![p] = y], BackupSound(bundles, y),
               UNCHANGED <<bundles, restorer, target>>
        PROVE  CopiesInv'
    BY <1>a, <1>c, BackupMoves
  <1>1. CASE StartBackup(p)
    <2>1. PICK now \in Clock :
             backup' = [backup EXCEPT ![p] =
                 [pc |-> "copy", id |-> Len(bundles) + 1, victims |-> {},
                  bundle |-> [created |-> now, rows |-> rows, refs |-> refs,
                              files |-> {"database"}]]]
      BY <1>1 DEF StartBackup
    <2>2. bundles' = Append(bundles, None) /\ UNCHANGED <<restorer, target>>
      BY <1>1 DEF StartBackup
    <2> DEFINE b == [created |-> now, rows |-> rows, refs |-> refs, files |-> {"database"}]
               y == [pc |-> "copy", id |-> Len(bundles) + 1, victims |-> {}, bundle |-> b]
    <2>3. Snapshot(b)
      BY RetentionAssumption DEF ArtifactInv, Snapshot, Bundle
    <2> HIDE DEF b
    <2>4. Len(bundles) \in Nat /\ bundles \in Seq(Bundle \cup {None})
      BY <1>a DEF BundlesSound
    <2>5. /\ bundles' \in Seq(Bundle \cup {None}) /\ DOMAIN bundles \subseteq DOMAIN bundles'
          /\ Len(bundles) + 1 \in DOMAIN bundles'
          /\ \A i \in DOMAIN bundles' :
                bundles'[i] = None \/ (i \in DOMAIN bundles /\ bundles'[i] = bundles[i])
      BY <2>2, <2>4
    <2>6. BundlesSound(bundles')
      BY <1>a, <2>5 DEF BundlesSound
    <2>7. y \in BackupStates
      BY <2>3, <2>4 DEF BackupStates, Snapshot
    <2>8. BackupSound(bundles', y)
      BY <2>3, <2>5, <2>7 DEF BackupSound
    <2> HIDE DEF y
    <2>9. backup' = [backup EXCEPT ![p] = y]
      BY <2>1 DEF y, b
    <2>10. QED
      BY <2>2, <2>5, <2>6, <2>8, <2>9, BackupMoves
  <1>2. CASE CopyArtifact(p)
    <2> DEFINE left == x.bundle.rows \ x.bundle.files
    <2>0. UNCHANGED <<bundles, restorer, target>>
      BY <1>2 DEF CopyArtifact
    <2>1. ASSUME NEW pc \in {"copy", "publish"}, NEW f \in Blobs \cup {"manifest"},
                 backup' = [backup EXCEPT ![p] =
                              [x EXCEPT !.pc = pc, !.bundle.files = @ \cup {f}]],
                 x.pc = "copy"
          PROVE  CopiesInv'
      <3> DEFINE y == [x EXCEPT !.pc = pc, !.bundle.files = @ \cup {f}]
      <3>1. y.bundle = [x.bundle EXCEPT !.files = @ \cup {f}] /\ Snapshot(y.bundle)
        BY <1>a DEF BackupSound, BackupStates, Snapshot, Bundle
      <3>2. y.id = x.id /\ y.victims = x.victims /\ y \in BackupStates
        BY <1>a, <3>1 DEF BackupStates, Snapshot
      <3>3. BackupSound(bundles, y)
        BY <1>a, <2>1, <3>1, <3>2 DEF BackupSound
      <3> HIDE DEF y
      <3>4. QED
        BY <1>c, <2>0, <2>1, <3>3 DEF y
    <2>2. CASE left = {}
      <3>1. backup' = [backup EXCEPT ![p] =
                          [x EXCEPT !.pc = "publish", !.bundle.files = @ \cup {"manifest"}]]
        BY <1>2, <2>2 DEF CopyArtifact, CopiesInv, BackupStates
      <3>2. QED
        BY <1>2, <2>1, <3>1 DEF CopyArtifact
    <2>3. CASE left # {}
      <3>1. PICK b \in left :
              backup' = IF b \in blobs THEN [backup EXCEPT ![p].bundle.files = @ \cup {b}]
                        ELSE [backup EXCEPT ![p] = NoBackup]
        BY <1>2, <2>3, Zenon DEF CopyArtifact
      <3>2. b \in Blobs
        BY <1>a DEF BackupSound, Snapshot, Bundle
      <3>3. CASE b \in blobs
        <4>1. x.pc = "copy" /\ [x EXCEPT !.bundle.files = @ \cup {b}]
                  = [x EXCEPT !.pc = "copy", !.bundle.files = @ \cup {b}]
          BY <1>2, <1>a DEF CopyArtifact, BackupStates
        <4>2. backup' = [backup EXCEPT ![p] = [x EXCEPT !.bundle.files = @ \cup {b}]]
          BY <3>1, <3>3 DEF CopiesInv
        <4>3. QED
          BY <2>1, <3>2, <4>1, <4>2
      <3>4. CASE b \notin blobs
        BY <1>b, <2>0, <3>1, <3>4
      <3>5. QED
        BY <3>3, <3>4
    <2>4. QED
      BY <2>2, <2>3
  <1>3. CASE PublishBundle(p)
    <2>1. CASE Complete(x.bundle)
      <3>1. /\ bundles' = [bundles EXCEPT ![x.id] = x.bundle]
            /\ UNCHANGED <<restorer, target>> /\ x.pc = "publish"
            /\ backup' = [backup EXCEPT ![p] = [x EXCEPT !.pc = "list"]]
        BY <1>3, <2>1 DEF PublishBundle, CopiesInv
      <3>2. x.id \in DOMAIN bundles /\ Snapshot(x.bundle)
        BY <1>a, <3>1 DEF BackupSound
      <3>3. BundlesSound(bundles') /\ DOMAIN bundles' = DOMAIN bundles
        BY <1>a, <3>1, <3>2, BundleChanges
      <3>4. BackupSound(bundles', [x EXCEPT !.pc = "list"])
        BY <1>a, <3>1, <3>2, <3>3 DEF BackupSound, BackupStates
      <3>5. QED
        BY <3>1, <3>3, <3>4, BackupMoves
    <2>2. CASE ~Complete(x.bundle)
      BY <1>3, <1>b, <2>2 DEF PublishBundle
    <2>3. QED
      BY <2>1, <2>2
  <1>4. CASE ListBundles(p)
    <2> DEFINE victims == Victims(x.id)
    <2>1. victims \subseteq DOMAIN bundles
      BY DEF Victims, VerifiedBundles
    <2>2. DOMAIN bundles \subseteq Nat
      BY <1>a DEF BundlesSound
    <2> HIDE DEF victims
    <2>3. /\ backup' = [backup EXCEPT ![p] = [x EXCEPT !.pc = "prune", !.victims = victims]]
          /\ x.pc = "list" /\ UNCHANGED <<bundles, restorer, target>>
      BY <1>4 DEF ListBundles, CopiesInv, victims
    <2>4. BackupSound(bundles, [x EXCEPT !.pc = "prune", !.victims = victims])
      BY <1>a, <2>1, <2>2, <2>3 DEF BackupSound, BackupStates
    <2>5. QED
      BY <1>c, <2>3, <2>4
  <1>5. CASE PruneFile(p)
    <2>0. UNCHANGED <<restorer, target>> /\ x.pc = "prune"
      BY <1>5 DEF PruneFile
    <2>1. PICK id \in x.victims :
             IF bundles[id] = None
             THEN backup' = [backup EXCEPT ![p] = NoBackup] /\ UNCHANGED bundles
             ELSE IF bundles[id].files = {}
             THEN /\ bundles' = [bundles EXCEPT ![id] = None]
                  /\ backup' = [backup EXCEPT ![p].victims = @ \ {id}]
             ELSE /\ \E f \in bundles[id].files : bundles' = [bundles EXCEPT ![id].files = @ \ {f}]
                  /\ UNCHANGED backup
      BY <1>5 DEF PruneFile
    <2>2. id \in DOMAIN bundles
      BY <1>a DEF BackupSound
    <2>3. CASE bundles[id] = None
      BY <1>b, <2>0, <2>1, <2>3
    <2>4. CASE bundles[id] # None /\ bundles[id].files = {}
      <3> DEFINE y == [x EXCEPT !.victims = @ \ {id}]
      <3>1. /\ bundles' = [bundles EXCEPT ![id] = None]
            /\ backup' = [backup EXCEPT ![p] = y]
        BY <2>1, <2>4 DEF CopiesInv
      <3>2. BundlesSound(bundles') /\ DOMAIN bundles' = DOMAIN bundles
        BY <1>a, <2>2, <3>1, BundleChanges
      <3>3. BackupSound(bundles', y)
        BY <1>a, <3>2 DEF BackupSound, BackupStates
      <3>4. QED
        BY <2>0, <3>1, <3>2, <3>3, BackupMoves
    <2>5. CASE bundles[id] # None /\ bundles[id].files # {}
      <3>1. PICK f \in bundles[id].files : bundles' = [bundles EXCEPT ![id].files = @ \ {f}]
        BY <2>1, <2>5
      <3> DEFINE b == [bundles[id] EXCEPT !.files = @ \ {f}]
      <3>2. Snapshot(bundles[id])
        BY <1>a, <2>2, <2>5 DEF BundlesSound
      <3>3. Snapshot(b)
        BY <3>2 DEF Snapshot, Bundle
      <3>4. bundles' = [bundles EXCEPT ![id] = b]
        BY <3>1
      <3> HIDE DEF b
      <3>5. BundlesSound(bundles') /\ DOMAIN bundles' = DOMAIN bundles
        BY <1>a, <2>2, <3>3, <3>4, BundleChanges
      <3>6. BackupSound(bundles', x)
        BY <1>a, <3>5 DEF BackupSound
      <3>7. backup' = [backup EXCEPT ![p] = x]
        BY <2>1, <2>5 DEF CopiesInv
      <3>8. QED
        BY <2>0, <3>5, <3>6, <3>7, BackupMoves
    <2>6. QED
      BY <2>3, <2>4, <2>5
  <1>6. CASE EndBackup(p)
    BY <1>6, <1>b DEF EndBackup
  <1>7. QED
    BY <1>1, <1>2, <1>3, <1>4, <1>5, <1>6

LEMMA RestoreSteps ==
    ASSUME CopiesInv, NEW p \in Restores,
           \/ VerifyBundle(p) \/ LockTarget(p) \/ RestoreFile(p) \/ RenameTarget(p)
           \/ AbandonRestore(p)
    PROVE  CopiesInv'
  <1> DEFINE x == restorer[p]
  <1>a. BundlesSound(bundles) /\ x \in RestoreStates /\ RestoreSound(x) /\ TargetSound(target)
    BY DEF CopiesInv
  <1>b. UNCHANGED <<bundles, backup>>
    BY DEF VerifyBundle, LockTarget, RestoreFile, RenameTarget, AbandonRestore
  <1>c. ASSUME NEW y, RestoreSound(y), restorer' = [restorer EXCEPT ![p] = y], target' = target
        PROVE  CopiesInv'
    BY <1>a, <1>b, <1>c, RestoreMoves
  <1>1. CASE VerifyBundle(p)
    <2>1. PICK id \in VerifiedBundles :
             restorer' = [restorer EXCEPT ![p] =
                 [pc |-> "lock", id |-> id, bundle |-> [bundles[id] EXCEPT !.files = {}]]]
      BY <1>1 DEF VerifyBundle
    <2> DEFINE b == [bundles[id] EXCEPT !.files = {}]
    <2>2. Snapshot(bundles[id]) /\ id \in Nat
      BY <1>a DEF VerifiedBundles, BundlesSound
    <2>3. Snapshot(b) /\ b.files = {}
      BY <2>2 DEF Snapshot, Bundle
    <2> HIDE DEF b
    <2>4. RestoreSound([pc |-> "lock", id |-> id, bundle |-> b])
      BY <2>2, <2>3 DEF RestoreSound, RestoreStates, Snapshot
    <2>5. QED
      BY <1>1, <1>c, <2>1, <2>4 DEF VerifyBundle, b
  <1>2. CASE LockTarget(p)
    <2>1. target' = target /\ x.pc = "lock"
      BY <1>2 DEF LockTarget
    <2>2. \/ restorer' = [restorer EXCEPT ![p] = NoRestore]
          \/ restorer' = [restorer EXCEPT ![p] = [x EXCEPT !.pc = "copy"]]
      BY <1>2 DEF LockTarget, CopiesInv
    <2>3. RestoreSound([x EXCEPT !.pc = "copy"])
      BY <1>a DEF RestoreSound, RestoreStates
    <2>4. QED
      BY <1>c, <2>1, <2>2, <2>3, EmptySound
  <1>3. CASE RestoreFile(p)
    <2> DEFINE left == (x.bundle.rows \cup {"database"}) \ x.bundle.files
    <2>1. target' = target /\ x.pc = "copy"
      BY <1>3 DEF RestoreFile
    <2>2. CASE left = {}
      <3>1. restorer' = [restorer EXCEPT ![p] = [x EXCEPT !.pc = "rename"]]
        BY <1>3, <2>2 DEF RestoreFile, CopiesInv
      <3>2. RestoreSound([x EXCEPT !.pc = "rename"])
        BY <1>a, <2>2 DEF RestoreSound, RestoreStates
      <3>3. QED
        BY <1>c, <2>1, <3>1, <3>2
    <2>3. CASE left # {}
      <3>1. PICK f \in left :
               \/ restorer' = [restorer EXCEPT ![p] = [x EXCEPT !.bundle.files = @ \cup {f}]]
               \/ restorer' = [restorer EXCEPT ![p] = NoRestore]
        BY <1>3, <2>3 DEF RestoreFile, CopiesInv
      <3> DEFINE b == [x.bundle EXCEPT !.files = @ \cup {f}]
                 y == [x EXCEPT !.bundle = b]
      <3>2. Snapshot(b) /\ b.files = x.bundle.files \cup {f} /\ b.rows = x.bundle.rows
        BY <1>a DEF RestoreSound, Snapshot, Bundle
      <3>3. y = [x EXCEPT !.bundle.files = @ \cup {f}]
        OBVIOUS
      <3> HIDE DEF b
      <3>4. y \in RestoreStates /\ y.pc = "copy" /\ y.bundle = b
        BY <1>a, <2>1, <3>2 DEF RestoreStates, Snapshot
      <3> HIDE DEF y
      <3>5. RestoreSound(y)
        BY <1>a, <2>1, <3>2, <3>4 DEF RestoreSound
      <3>6. QED
        BY <1>c, <2>1, <3>1, <3>3, <3>5, EmptySound
    <2>4. QED
      BY <2>2, <2>3
  <1>4. CASE RenameTarget(p)
    <2>1. TargetSound(target')
      BY <1>4, <1>a DEF RenameTarget, TargetSound, RestoreSound, Snapshot
    <2>2. QED
      BY <1>4, <1>b, <2>1, EmptySound, RestoreMoves DEF RenameTarget
  <1>5. CASE AbandonRestore(p)
    BY <1>5, <1>c, EmptySound DEF AbandonRestore
  <1>6. QED
    BY <1>1, <1>2, <1>3, <1>4, <1>5

(* A step is one of a backup, one of a restore, or leaves both alone. *)
LEMMA WhoCopies ==
    ASSUME LocalNext
    PROVE  \/ \E p \in Backups :
                 \/ StartBackup(p) \/ CopyArtifact(p) \/ PublishBundle(p)
                 \/ ListBundles(p) \/ PruneFile(p) \/ EndBackup(p)
           \/ \E p \in Restores :
                 \/ VerifyBundle(p) \/ LockTarget(p) \/ RestoreFile(p) \/ RenameTarget(p)
                 \/ AbandonRestore(p)
           \/ UNCHANGED recovery
  BY DEF LocalNext, BeginPut, ReferTo, WriteBlob, CommitRow, AbandonPut

LEMMA CopiesStep ==
    CopiesInv /\ ArtifactInv /\ [LocalNext]_<<livars, recovery>> => CopiesInv'
  <1> SUFFICES ASSUME CopiesInv, ArtifactInv, [LocalNext]_<<livars, recovery>> PROVE CopiesInv'
    OBVIOUS
  <1>1. CASE UNCHANGED recovery
    BY <1>1 DEF recovery, CopiesInv
  <1>2. QED
    BY <1>1, BackupSteps, RestoreSteps, WhoCopies

(* However many backups and restores there are at a time, and whenever one of them ends:
   a bundle that verifies and a restored root hold the database of one moment and every
   artifact that it names. *)
THEOREM CopiesSafety == LocalSpec => []CopiesWhole
  <1>1. CopiesInv => CopiesWhole
    BY DEF CopiesInv, CopiesWhole, BundlesSound, Snapshot, TargetSound, VerifiedBundles, Complete,
           Expected
  <1>2. QED
    BY <1>1, ArtifactsStart, ArtifactsStep, CopiesStart, CopiesStep, PTL DEF LocalSpec

(* With one backup at a time, the bundle published last is whole, and it is not among
   those that the backup that published it is pruning. *)
LatestInv ==
    /\ latest # 0 => /\ latest \in DOMAIN bundles
                     /\ bundles[latest] # None
                     /\ Complete(bundles[latest])
    /\ \A p \in Backups :
         /\ backup[p].pc \in {"list", "prune"} => latest = backup[p].id
         /\ backup[p].pc = "prune" => latest \notin backup[p].victims

LEMMA LatestSteps ==
    ASSUME \A p, q \in Backups : p = q,
           LatestInv, CopiesInv, CopiesInv', [LocalNext]_<<livars, recovery>>
    PROVE  LatestInv'
  <1>1. CASE UNCHANGED <<bundles, latest, backup>>
    BY <1>1 DEF LatestInv, Complete, Expected
  <1>2. ASSUME NEW p \in Backups,
               \/ StartBackup(p) \/ CopyArtifact(p) \/ PublishBundle(p)
               \/ ListBundles(p) \/ PruneFile(p) \/ EndBackup(p)
        PROVE  LatestInv'
    <2> DEFINE x == backup[p]
               y == backup'[p]
               Whole(bs, i) == i # 0 => i \in DOMAIN bs /\ bs[i] # None /\ Complete(bs[i])
    <2>a. Backups = {p} /\ x \in BackupStates /\ BackupSound(bundles, x) /\ BundlesSound(bundles)
      BY DEF CopiesInv
    <2>b. SUFFICES ASSUME \/ ~Whole(bundles', latest')
                          \/ y.pc \in {"list", "prune"} /\ latest' # y.id
                          \/ y.pc = "prune" /\ latest' \in y.victims
                   PROVE  FALSE
      BY <2>a DEF LatestInv, Complete, Expected
    <2>c. /\ Whole(bundles, latest)
          /\ x.pc \in {"list", "prune"} => latest = x.id
          /\ x.pc = "prune" => latest \notin x.victims
      BY DEF LatestInv
    <2>d. Len(bundles) \in Nat /\ bundles \in Seq(Bundle \cup {None})
          /\ DOMAIN bundles = 1 .. Len(bundles)
      BY <2>a DEF BundlesSound
    (* A backup that is over leaves what it published. *)
    <2>e. ASSUME backup' = [backup EXCEPT ![p] = NoBackup], UNCHANGED <<bundles, latest>>
          PROVE  FALSE
      BY <2>b, <2>c, <2>e DEF CopiesInv, NoBackup
    <2>1. CASE StartBackup(p)
      <3>1. /\ bundles' = Append(bundles, None) /\ latest' = latest /\ y.pc = "copy"
        BY <1>2, <2>1 DEF StartBackup, CopiesInv
      <3>2. \A i \in DOMAIN bundles : i \in DOMAIN bundles' /\ bundles'[i] = bundles[i]
        BY <2>d, <3>1
      <3>3. QED
        BY <2>b, <2>c, <3>1, <3>2
    <2>2. CASE CopyArtifact(p)
      <3>1. UNCHANGED <<bundles, latest>> /\ x.pc = "copy"
        BY <2>2 DEF CopyArtifact
      <3>2. y.pc \in {"copy", "publish", "idle"}
        BY <2>2, <2>a DEF CopyArtifact, CopiesInv, BackupStates, NoBackup
      <3>3. QED
        BY <2>b, <2>c, <3>1, <3>2
    <2>3. CASE PublishBundle(p)
      <3>1. CASE Complete(x.bundle)
        <4>1. /\ bundles' = [bundles EXCEPT ![x.id] = x.bundle] /\ latest' = x.id
              /\ x.pc = "publish" /\ backup' = [backup EXCEPT ![p].pc = "list"]
          BY <2>3, <3>1 DEF PublishBundle
        <4>2. y.pc = "list" /\ y.id = x.id
          BY <2>a, <4>1 DEF CopiesInv, BackupStates
        <4>3. x.id \in DOMAIN bundles /\ x.bundle # None
          BY <2>a, <4>1, BundleAssumption DEF BackupSound, Snapshot
        <4>4. x.id \in DOMAIN bundles' /\ bundles'[x.id] = x.bundle
          BY <2>d, <4>1, <4>3
        <4>5. QED
          BY <2>b, <3>1, <4>1, <4>2, <4>3, <4>4
      <3>2. CASE ~Complete(x.bundle)
        BY <2>3, <2>e, <3>2 DEF PublishBundle
      <3>3. QED
        BY <3>1, <3>2
    <2>4. CASE ListBundles(p)
      <3> DEFINE victims == Victims(x.id)
      <3>1. x.id \notin victims
        BY DEF Victims
      <3> HIDE DEF victims
      <3>2. /\ backup' = [backup EXCEPT ![p].pc = "prune", ![p].victims = victims]
            /\ x.pc = "list" /\ UNCHANGED <<bundles, latest>>
        BY <2>4 DEF ListBundles, victims
      <3>3. y.id = x.id /\ y.victims = victims
        BY <2>a, <3>2 DEF CopiesInv, BackupStates
      <3>4. QED
        BY <2>b, <2>c, <3>1, <3>2, <3>3
    <2>5. CASE PruneFile(p)
      <3>0. latest' = latest /\ x.pc = "prune"
        BY <2>5 DEF PruneFile
      <3>1. PICK id \in x.victims :
               IF bundles[id] = None
               THEN backup' = [backup EXCEPT ![p] = NoBackup] /\ UNCHANGED bundles
               ELSE IF bundles[id].files = {}
               THEN /\ bundles' = [bundles EXCEPT ![id] = None]
                    /\ backup' = [backup EXCEPT ![p].victims = @ \ {id}]
               ELSE /\ \E f \in bundles[id].files : bundles' = [bundles EXCEPT ![id].files = @ \ {f}]
                    /\ UNCHANGED backup
        BY <2>5 DEF PruneFile
      <3>2. id \in DOMAIN bundles /\ id # latest
        BY <2>a, <2>c, <3>0 DEF BackupSound
      <3>3. CASE bundles[id] = None
        BY <2>e, <3>0, <3>1, <3>3
      <3>4. CASE bundles[id] # None
        <4>1. \/ backup' = backup
              \/ backup' = [backup EXCEPT ![p].victims = @ \ {id}]
          BY <3>1, <3>4
        <4>2. y.pc = "prune" /\ y.id = x.id /\ y.victims \subseteq x.victims
          BY <2>a, <3>0, <4>1 DEF CopiesInv, BackupStates
        <4>3. \E b : bundles' = [bundles EXCEPT ![id] = b]
          BY <3>1, <3>4
        <4>4. \A i \in DOMAIN bundles : i # id => i \in DOMAIN bundles' /\ bundles'[i] = bundles[i]
          BY <2>d, <4>3
        <4>5. QED
          BY <2>b, <2>c, <3>0, <3>2, <4>2, <4>4
      <3>5. QED
        BY <3>3, <3>4
    <2>6. CASE EndBackup(p)
      BY <2>6, <2>e DEF EndBackup
    <2>7. QED
      BY <1>2, <2>1, <2>2, <2>3, <2>4, <2>5, <2>6
  <1>3. ASSUME NEW p \in Restores,
               \/ VerifyBundle(p) \/ LockTarget(p) \/ RestoreFile(p) \/ RenameTarget(p)
               \/ AbandonRestore(p)
        PROVE  UNCHANGED <<bundles, latest, backup>>
    BY <1>3 DEF VerifyBundle, LockTarget, RestoreFile, RenameTarget, AbandonRestore
  <1>4. QED
    BY <1>1, <1>2, <1>3, WhoCopies DEF recovery

(* With one backup at a time there is always a whole bundle to go back to, once one was
   published, whatever is pruned and whenever the backup is interrupted. *)
THEOREM RecoverySafety ==
    ASSUME \A p, q \in Backups : p = q
    PROVE  LocalSpec => []RecoveryComplete
  <1>1. LocalInit => LatestInv
    BY DEF LocalInit, LatestInv, NoBackup
  <1>2. LatestInv /\ CopiesInv /\ CopiesInv' /\ [LocalNext]_<<livars, recovery>> => LatestInv'
    BY LatestSteps
  <1>3. LatestInv => (latest # 0 => latest \in VerifiedBundles)
    BY DEF LatestInv, VerifiedBundles
  <1>4. LocalSpec => [](LatestInv /\ CopiesInv)
    BY <1>1, <1>2, ArtifactsStart, ArtifactsStep, CopiesStart, CopiesStep, PTL DEF LocalSpec
  <1>5. QED
    BY <1>3, <1>4, CopiesSafety, PTL DEF RecoveryComplete

----------------------------------------------------------------------------
(* Change proposals *)

(* A planned operation: what it expects is the file as it was found. *)
Planned ==
    [path : TextPaths, operation : {"create", "replace", "delete"},
     expected : File \cup {None}, content : Texts \cup {None}]

(* The operations are on different paths, each with the file it was planned for. *)
PlanSound(plan, start) ==
    /\ plan \in Seq(Planned)
    /\ \A i \in DOMAIN plan : /\ Before(plan[i]) = start[plan[i].path]
                              /\ After(plan[i]) \in File \cup {None}
    /\ \A i, j \in DOMAIN plan : plan[i].path = plan[j].path => i = j

(* The first k operations have had their effect, the others none. *)
Done(fs, plan, start, k) ==
    \A p \in TextPaths :
        /\ \A i \in DOMAIN plan : plan[i].path = p /\ i <= k => fs[p] = After(plan[i])
        /\ (\A i \in DOMAIN plan : plan[i].path = p => i > k) => fs[p] = start[p]

ExecutorShape(e) ==
    e = [pc |-> e.pc, plan |-> e.plan, next |-> e.next, start |-> e.start, base |-> e.base,
         result |-> e.result]

(* A rollback has the operation it is at to take back, or it was not begun. *)
Underway(fs, dirty, e) ==
    /\ e.pc = "idle" => e.start = fs
    /\ e.pc = "apply" => /\ PlanSound(e.plan, e.start)
                         /\ e.next \in 1 .. Len(e.plan) + 1
                         /\ Done(fs, e.plan, e.start, e.next - 1)
    /\ e.pc = "rollback" => /\ PlanSound(e.plan, e.start)
                            /\ e.next \in 0 .. Len(e.plan)
                            /\ \/ Done(fs, e.plan, e.start, e.next)
                               \/ Done(fs, e.plan, e.start, e.next - 1)
    /\ e.pc = "done" /\ e.result \in {"applied", "committed"} =>
          PlanSound(e.plan, e.start) /\ Done(fs, e.plan, e.start, Len(e.plan)) /\ ~dirty
    /\ e.pc = "done" /\ e.result \in {"rolled-back", "mismatch"} => fs = e.start /\ ~dirty
    /\ e.pc = "done" /\ e.result = "refused" => fs = e.start

TextInv ==
    /\ files \in Files /\ litter \in BOOLEAN
    /\ ExecutorShape(executor) /\ executor.start \in Files
    /\ executor.pc \in {"idle", "apply", "rollback", "done"}
    /\ executor.pc = "rollback" => executor.result \in {"rolled-back", "mismatch"}
    /\ Underway(files, litter, executor)

LEMMA PlanFields ==
    ASSUME NEW plan, NEW start, PlanSound(plan, start), NEW k \in DOMAIN plan
    PROVE  /\ plan[k].path \in TextPaths /\ k \in Nat /\ k >= 1 /\ k <= Len(plan)
           /\ Len(plan) \in Nat /\ DOMAIN plan = 1 .. Len(plan)
  <1>1. plan \in Seq(Planned)
    BY DEF PlanSound
  <1>2. Len(plan) \in Nat /\ DOMAIN plan = 1 .. Len(plan) /\ plan[k] \in Planned
    BY <1>1
  <1>3. QED
    BY <1>2 DEF Planned

(* The effect of operation k, and its restoration. *)
LEMMA EffectOf ==
    ASSUME NEW plan, NEW start \in Files, PlanSound(plan, start), NEW k \in DOMAIN plan,
           NEW fs \in Files, Done(fs, plan, start, k) \/ Done(fs, plan, start, k - 1)
    PROVE  /\ [fs EXCEPT ![plan[k].path] = After(plan[k])] \in Files
           /\ Done([fs EXCEPT ![plan[k].path] = After(plan[k])], plan, start, k)
           /\ [fs EXCEPT ![plan[k].path] = Before(plan[k])] \in Files
           /\ Done([fs EXCEPT ![plan[k].path] = Before(plan[k])], plan, start, k - 1)
  <1> DEFINE path == plan[k].path
             new == After(plan[k])
             old == Before(plan[k])
  <1>1. path \in TextPaths /\ k \in Nat /\ k >= 1 /\ k <= Len(plan) /\ DOMAIN plan \subseteq Nat
    BY PlanFields DEF PlanSound
  <1>2. new \in File \cup {None} /\ old = start[path] /\ old \in File \cup {None}
    BY <1>1 DEF PlanSound, Files
  <1>3. \A i \in DOMAIN plan : plan[i].path = path <=> i = k
    BY DEF PlanSound
  <1> HIDE DEF path, new, old
  <1>4. ASSUME NEW p \in TextPaths, p # path
        PROVE  /\ \A i \in DOMAIN plan : plan[i].path = p /\ i <= k => fs[p] = After(plan[i])
               /\ (\A i \in DOMAIN plan : plan[i].path = p => i > k - 1) => fs[p] = start[p]
    <2>1. \A i \in DOMAIN plan : plan[i].path = p => i # k
      BY <1>3, <1>4
    <2>2. \A i \in DOMAIN plan : plan[i].path = p => (i <= k <=> i <= k - 1) /\ (i > k <=> i > k - 1)
      BY <1>1, <2>1
    <2>3. QED
      BY <1>1, <2>2 DEF Done
  <1>5. ASSUME NEW file
        PROVE  \A p \in TextPaths : [fs EXCEPT ![path] = file][p] = IF p = path THEN file ELSE fs[p]
    BY DEF Files
  <1>6. /\ [fs EXCEPT ![path] = new] \in Files
        /\ [fs EXCEPT ![path] = old] \in Files
    BY <1>2 DEF Files
  <1>7. Done([fs EXCEPT ![path] = new], plan, start, k)
    <2> DEFINE gs == [fs EXCEPT ![path] = new]
    <2>1. \A p \in TextPaths : gs[p] = IF p = path THEN new ELSE fs[p]
      BY <1>5
    <2> HIDE DEF gs
    <2>2. ASSUME NEW p \in TextPaths
          PROVE  /\ \A i \in DOMAIN plan : plan[i].path = p /\ i <= k => gs[p] = After(plan[i])
                 /\ (\A i \in DOMAIN plan : plan[i].path = p => i > k) => gs[p] = start[p]
      <3>1. CASE p = path
        BY <1>1, <1>3, <2>1, <3>1 DEF new
      <3>2. CASE p # path
        BY <1>1, <1>4, <2>1, <3>2
      <3>3. QED
        BY <3>1, <3>2
    <2>3. QED
      BY <2>2 DEF Done, gs
  <1>8. Done([fs EXCEPT ![path] = old], plan, start, k - 1)
    <2> DEFINE gs == [fs EXCEPT ![path] = old]
    <2>1. \A p \in TextPaths : gs[p] = IF p = path THEN old ELSE fs[p]
      BY <1>5
    <2> HIDE DEF gs
    <2>2. ASSUME NEW p \in TextPaths
          PROVE  /\ \A i \in DOMAIN plan : plan[i].path = p /\ i <= k - 1 => gs[p] = After(plan[i])
                 /\ (\A i \in DOMAIN plan : plan[i].path = p => i > k - 1) => gs[p] = start[p]
      <3>1. CASE p = path
        BY <1>1, <1>2, <1>3, <2>1, <3>1
      <3>2. CASE p # path
        BY <1>1, <1>4, <2>1, <3>2
      <3>3. QED
        BY <3>1, <3>2
    <2>3. QED
      BY <2>2 DEF Done, gs
  <1>9. QED
    BY <1>6, <1>7, <1>8 DEF path, new, old

(* What a proposal becomes once every operation is applicable. *)
LEMMA PlanOf ==
    ASSUME files \in Files, NEW proposal \in Proposals,
           \A i \in DOMAIN proposal : Applicable(proposal[i])
    PROVE  PlanSound([i \in DOMAIN proposal |->
                         [proposal[i] EXCEPT !.expected = files[proposal[i].path]]], files)
  <1> DEFINE Changes == UNION {FileChanges(p) : p \in TextPaths}
             Found(c) == [c EXCEPT !.expected = files[c.path]]
             plan == [i \in DOMAIN proposal |-> Found(proposal[i])]
  <1>1. PICK k \in 1 .. Cardinality(TextPaths) : proposal \in [1 .. k -> Changes]
    BY DEF Proposals
  <1>2. /\ DOMAIN proposal = 1 .. k /\ k \in Nat /\ \A i \in 1 .. k : proposal[i] \in Changes
        /\ \A i, j \in 1 .. k : i < j => proposal[i].path < proposal[j].path
    BY <1>1 DEF Proposals
  <1>3. ASSUME NEW c \in Changes, Applicable(c)
        PROVE  /\ Found(c) \in Planned /\ Found(c).path = c.path /\ c.path \in TextPaths
               /\ Before(Found(c)) = files[c.path]
               /\ After(Found(c)) \in File \cup {None}
    <2>0. PICK p \in TextPaths : c \in FileChanges(p)
      OBVIOUS
    <2>1. files[p] \in File \cup {None}
      BY DEF Files
    <2>2. /\ c = [path |-> c.path, operation |-> c.operation, expected |-> c.expected,
                  content |-> c.content]
          /\ c.path = p /\ c.operation \in {"create", "replace", "delete"}
          /\ c.content \in Texts \cup {None}
          /\ c.operation # "delete" => c.content \in Texts
      BY <2>0 DEF FileChanges
    <2> DEFINE d == Found(c)
    <2>3. /\ d.path = p /\ d.operation = c.operation /\ d.content = c.content
          /\ d.expected = files[p] /\ d \in Planned
      BY <2>1, <2>2 DEF Planned
    <2> HIDE DEF d
    <2>4. Before(d) = files[p]
      BY <1>3, <2>2, <2>3 DEF Before, Applicable
    <2>5. After(d) \in File \cup {None}
      <3>1. CASE c.operation = "create"
        BY <2>2, <2>3, <3>1, TextAssumption DEF After, File
      <3>2. CASE c.operation = "replace"
        <4>1. files[p] \in File
          BY <1>3, <2>1, <2>2, <3>2 DEF Applicable
        <4>2. QED
          BY <2>2, <2>3, <3>2, <4>1 DEF After, File
      <3>3. CASE c.operation = "delete"
        BY <2>3, <3>3 DEF After
      <3>4. QED
        BY <2>2, <3>1, <3>2, <3>3
    <2>6. QED
      BY <2>2, <2>3, <2>4, <2>5 DEF d
  <1>4. \A i \in 1 .. k : /\ plan[i] = Found(proposal[i]) /\ plan[i] \in Planned
                          /\ plan[i].path = proposal[i].path /\ plan[i].path \in TextPaths
                          /\ Before(plan[i]) = files[plan[i].path]
                          /\ After(plan[i]) \in File \cup {None}
    BY <1>2, <1>3
  <1>5. plan \in [1 .. k -> Planned] /\ DOMAIN plan = 1 .. k
    BY <1>2, <1>4
  <1> HIDE DEF Found, plan
  <1>6. plan \in Seq(Planned)
    BY <1>2, <1>5
  <1>7. ASSUME NEW i \in 1 .. k, NEW j \in 1 .. k, plan[i].path = plan[j].path
        PROVE  i = j
    <2>1. proposal[i].path \in Nat /\ proposal[j].path \in Nat
      BY <1>4, TextAssumption
    <2>2. ~(i < j) /\ ~(j < i)
      BY <1>2, <1>4, <1>7, <2>1
    <2>3. QED
      BY <1>2, <2>2
  <1>8. PlanSound(plan, files)
    BY <1>4, <1>5, <1>6, <1>7 DEF PlanSound
  <1>9. QED
    BY <1>8 DEF plan, Found

LEMMA TextStarts == TextInit => TextInv
  <1> SUFFICES ASSUME TextInit PROVE TextInv
    OBVIOUS
  <1>1. /\ executor = [pc |-> "idle", plan |-> <<>>, next |-> 1, start |-> files, base |-> head,
                       result |-> "none"]
        /\ files \in Files /\ litter = FALSE
    BY DEF TextInit, NoExecutor
  <1>2. QED
    BY <1>1 DEF TextInv, ExecutorShape, Underway

(* The executor is done, with a result that promises nothing of the files. *)
LEMMA Uncertain ==
    ASSUME TextInv, files' \in Files, litter' \in BOOLEAN, NEW plan, NEW next,
           NEW result \in {"uncertain", "commit-failed"},
           executor' = [executor EXCEPT !.pc = "done", !.result = result, !.plan = plan, !.next = next]
    PROVE  TextInv'
  <1>1. /\ ExecutorShape(executor') /\ executor'.pc = "done" /\ executor'.result = result
        /\ executor'.start = executor.start
    BY DEF TextInv, ExecutorShape
  <1>2. QED
    BY <1>1 DEF TextInv, Underway

(* Git reports no path that is not a file, so that nothing was left behind. *)
LEMMA CleanReport ==
    ASSUME NEW commit, NEW S, S \subseteq TextPaths, ChangedSince(commit) = S, litter \in BOOLEAN
    PROVE  litter = FALSE
  <1>1. litter => 0 \in ChangedSince(commit)
    BY DEF ChangedSince
  <1>2. QED
    BY <1>1, TextAssumption

LEMMA TextSteps == TextInv /\ [TextNext]_<<files, head, litter, executor>> => TextInv'
  <1> SUFFICES ASSUME TextInv, [TextNext]_<<files, head, litter, executor>> PROVE TextInv'
    OBVIOUS
  <1> DEFINE e == executor
             plan == executor.plan
             start == executor.start
             n == Len(executor.plan)
             k == executor.next
  <1>a. /\ files \in Files /\ litter \in BOOLEAN /\ ExecutorShape(e) /\ start \in Files
        /\ Underway(files, litter, e)
    BY DEF TextInv
  <1>b. e.pc \in {"apply", "rollback"} =>
          /\ PlanSound(plan, start) /\ n \in Nat /\ DOMAIN plan = 1 .. n /\ k \in Nat
          /\ plan \in Seq(Planned)
    <2>1. e.pc \in {"apply", "rollback"} => PlanSound(plan, start)
      BY <1>a DEF Underway
    <2>2. PlanSound(plan, start) => plan \in Seq(Planned)
      BY DEF PlanSound
    <2>3. plan \in Seq(Planned) => n \in Nat /\ DOMAIN plan = 1 .. n
      OBVIOUS
    <2>4. e.pc \in {"apply", "rollback"} => k \in Nat
      BY <1>a, <2>1, <2>2, <2>3 DEF Underway
    <2>5. QED
      BY <2>1, <2>2, <2>3, <2>4
  <1>1. CASE UNCHANGED <<files, head, litter, executor>>
    BY <1>1 DEF TextInv
  <1>2. CASE Preflight
    <2>1. /\ e.pc = "idle" /\ UNCHANGED <<files, litter>> /\ start = files
      BY <1>2, <1>a DEF Preflight, Underway
    <2>2. PICK proposal \in Proposals :
             executor' =
                IF /\ Fresh
                   /\ Len(proposal) <= PathLimit
                   /\ \A i \in DOMAIN proposal : Applicable(proposal[i])
                THEN [executor EXCEPT !.pc = "apply", !.next = 1,
                        !.plan = [i \in DOMAIN proposal |->
                            [proposal[i] EXCEPT !.expected = files[proposal[i].path]]]]
                ELSE [End("refused") EXCEPT !.plan = proposal]
      BY <1>2 DEF Preflight
    <2> DEFINE new == [i \in DOMAIN proposal |->
                          [proposal[i] EXCEPT !.expected = files[proposal[i].path]]]
    <2>3. CASE \A i \in DOMAIN proposal : Applicable(proposal[i])
      <3>1. PlanSound(new, files)
        BY <1>a, <2>3, PlanOf
      <3> HIDE DEF new
      <3>2. CASE executor' = [executor EXCEPT !.pc = "apply", !.next = 1, !.plan = new]
        <4>1. /\ ExecutorShape(executor') /\ executor'.pc = "apply" /\ executor'.next = 1
              /\ executor'.plan = new /\ executor'.start = files
          BY <1>a, <2>1, <3>2 DEF ExecutorShape
        <4>2. new \in Seq(Planned)
          BY <3>1 DEF PlanSound
        <4>3. Len(new) \in Nat /\ DOMAIN new = 1 .. Len(new)
          BY <4>2
        <4>4. Done(files, new, files, 0)
          BY <4>3 DEF Done
        <4>5. 1 \in 1 .. Len(new) + 1 /\ 1 - 1 = 0
          BY <4>3
        <4>6. QED
          BY <1>a, <2>1, <3>1, <4>1, <4>4, <4>5 DEF TextInv, Underway
      <3>3. CASE executor' = [End("refused") EXCEPT !.plan = proposal]
        <4>1. /\ ExecutorShape(executor') /\ executor'.pc = "done" /\ executor'.result = "refused"
              /\ executor'.start = files
          BY <1>a, <2>1, <3>3 DEF ExecutorShape, End
        <4>2. QED
          BY <1>a, <2>1, <4>1 DEF TextInv, Underway
      <3>4. QED
        BY <2>2, <3>2, <3>3 DEF new
    <2>4. CASE ~\A i \in DOMAIN proposal : Applicable(proposal[i])
      <3>1. executor' = [End("refused") EXCEPT !.plan = proposal]
        BY <2>2, <2>4
      <3>2. /\ ExecutorShape(executor') /\ executor'.pc = "done" /\ executor'.result = "refused"
            /\ executor'.start = files
        BY <1>a, <2>1, <3>1 DEF ExecutorShape, End
      <3>3. QED
        BY <1>a, <2>1, <3>2 DEF TextInv, Underway
    <2>5. QED
      BY <2>3, <2>4
  (* The rollback begins at operation i, which was begun. *)
  <1>c. ASSUME NEW i \in 0 .. n, NEW result \in {"rolled-back", "mismatch"}, e.pc = "apply",
               executor' = [executor EXCEPT !.pc = "rollback", !.result = result, !.next = i],
               files' \in Files, litter' \in BOOLEAN,
               Done(files', plan, start, i) \/ Done(files', plan, start, i - 1)
        PROVE  TextInv'
    <2>1. /\ ExecutorShape(executor') /\ executor'.pc = "rollback" /\ executor'.next = i
          /\ executor'.plan = plan /\ executor'.start = start /\ executor'.result = result
      BY <1>a, <1>c DEF ExecutorShape
    <2>2. QED
      BY <1>a, <1>b, <1>c, <2>1 DEF TextInv, Underway
  <1>3. CASE Apply
    <2>1. /\ e.pc = "apply" /\ k \in DOMAIN plan /\ Done(files, plan, start, k - 1) /\ k - 1 \in Nat
      BY <1>3, <1>a, <1>b DEF Apply, Underway
    <2>2. PICK outcome \in {"ok", "late", "early"}, left \in BOOLEAN :
             /\ files' = IF outcome = "early" THEN files
                         ELSE [files EXCEPT ![plan[k].path] = After(plan[k])]
             /\ litter' = (litter \/ left)
             /\ executor' = IF outcome = "ok" THEN [executor EXCEPT !.next = @ + 1]
                            ELSE ToRollback("rolled-back")
      BY <1>3 DEF Apply, Effect, Operation
    <2> DEFINE fs == [files EXCEPT ![plan[k].path] = After(plan[k])]
    <2>3. fs \in Files /\ Done(fs, plan, start, k)
      BY <1>a, <1>b, <2>1, EffectOf
    <2> HIDE DEF fs
    <2>4. litter' \in BOOLEAN
      BY <2>2
    <2>5. CASE outcome = "ok"
      <3>1. files' = fs /\ executor' = [executor EXCEPT !.next = k + 1]
        BY <2>2, <2>5 DEF fs
      <3>2. /\ ExecutorShape(executor') /\ executor'.pc = "apply" /\ executor'.next = k + 1
            /\ executor'.plan = plan /\ executor'.start = start
        BY <1>a, <2>1, <3>1 DEF ExecutorShape
      <3>3. k + 1 \in 1 .. n + 1 /\ (k + 1) - 1 = k
        BY <1>b, <2>1
      <3>4. QED
        BY <1>a, <1>b, <2>1, <2>3, <2>4, <3>1, <3>2, <3>3 DEF TextInv, Underway
    <2>6. CASE outcome # "ok"
      <3>1. executor' = [executor EXCEPT !.pc = "rollback", !.result = "rolled-back", !.next = k]
        BY <1>a, <2>2, <2>6 DEF ToRollback, ExecutorShape
      <3>2. files' \in Files /\ (Done(files', plan, start, k) \/ Done(files', plan, start, k - 1))
        BY <1>a, <2>1, <2>2, <2>3 DEF fs
      <3>3. k \in 0 .. n
        BY <1>b, <2>1
      <3>4. QED
        BY <1>c, <2>1, <2>4, <3>1, <3>2, <3>3
    <2>7. QED
      BY <2>5, <2>6
  <1>4. CASE InspectEffects
    <2>1. /\ e.pc = "apply" /\ k > n /\ UNCHANGED <<files, litter>>
          /\ Done(files, plan, start, k - 1) /\ k \in 1 .. n + 1
      BY <1>4, <1>a DEF InspectEffects, Underway
    <2>2. Done(files, plan, start, n)
      <3>1. k - 1 = n
        BY <1>b, <2>1
      <3>2. QED
        BY <2>1, <3>1
    <2>3. \/ /\ ChangedSince(e.base) = PlanPaths
             /\ executor' = End("applied")
          \/ executor' = [ToRollback("mismatch") EXCEPT !.next = n]
      BY <1>4 DEF InspectEffects
    <2>4. CASE ChangedSince(e.base) = PlanPaths /\ executor' = End("applied")
      <3>1. PlanPaths \subseteq TextPaths
        BY <1>b, <2>1, PlanFields DEF PlanPaths
      <3>2. litter = FALSE
        BY <1>a, <2>4, <3>1, CleanReport
      <3>3. /\ ExecutorShape(executor') /\ executor'.pc = "done" /\ executor'.result = "applied"
            /\ executor'.plan = plan /\ executor'.start = start
        BY <1>a, <2>4 DEF ExecutorShape, End
      <3>4. QED
        BY <1>a, <1>b, <2>1, <2>2, <3>2, <3>3 DEF TextInv, Underway
    <2>5. CASE executor' = [ToRollback("mismatch") EXCEPT !.next = n]
      <3>1. executor' = [executor EXCEPT !.pc = "rollback", !.result = "mismatch", !.next = n]
        BY <2>5 DEF ToRollback
      <3>2. n \in 0 .. n
        BY <1>b, <2>1
      <3>3. QED
        BY <1>a, <1>c, <2>1, <2>2, <3>1, <3>2
    <2>6. QED
      BY <2>3, <2>4, <2>5
  <1>5. CASE Rollback
    <2>1. /\ e.pc = "rollback" /\ k \in DOMAIN plan /\ k - 1 \in 0 .. n
          /\ Done(files, plan, start, k) \/ Done(files, plan, start, k - 1)
          /\ e.result \in {"rolled-back", "mismatch"}
      BY <1>5, <1>a, <1>b DEF Rollback, Underway, TextInv
    <2> DEFINE fs == [files EXCEPT ![plan[k].path] = Before(plan[k])]
               back == [executor EXCEPT !.next = k - 1]
    <2>2. fs \in Files /\ Done(fs, plan, start, k - 1)
      BY <1>a, <1>b, <2>1, EffectOf
    <2>3. /\ ExecutorShape(back) /\ back.pc = "rollback" /\ back.next = k - 1
          /\ back.plan = plan /\ back.start = start /\ back.result = e.result
      BY <1>a, <2>1 DEF ExecutorShape
    <2> HIDE DEF fs, back
    <2>4. ASSUME executor' = back, files' = fs, litter' \in BOOLEAN
          PROVE  TextInv'
      BY <1>a, <1>b, <2>1, <2>2, <2>3, <2>4 DEF TextInv, Underway
    <2>5. CASE plan[k].operation = "create" /\ files[plan[k].path] = None
      <3>1. executor' = back /\ UNCHANGED <<files, litter>>
        BY <1>5, <2>5 DEF Rollback, Operation, back
      <3>2. Before(plan[k]) = None
        BY <2>5 DEF Before
      <3>3. fs = files
        BY <1>a, <2>5, <3>2 DEF fs, Files
      <3>4. QED
        BY <1>a, <2>4, <3>1, <3>3
    <2>6. CASE ~(plan[k].operation = "create" /\ files[plan[k].path] = None)
      <3>1. PICK outcome \in {"ok", "late", "early"}, left \in BOOLEAN :
               /\ files' = IF outcome = "early" THEN files ELSE fs
               /\ litter' = (litter \/ left)
               /\ executor' = IF outcome = "ok" THEN back ELSE End("uncertain")
        BY <1>5, <2>6 DEF Rollback, Effect, Operation, back, fs
      <3>2. litter' \in BOOLEAN /\ files' \in Files
        BY <1>a, <2>2, <3>1
      <3>3. CASE outcome = "ok"
        BY <2>4, <3>1, <3>2, <3>3
      <3>4. CASE outcome # "ok"
        <4>1. executor' = [executor EXCEPT !.pc = "done", !.result = "uncertain", !.plan = plan,
                                           !.next = k]
          BY <1>a, <3>1, <3>4 DEF End, ExecutorShape
        <4>2. QED
          BY <3>2, <4>1, Uncertain
      <3>5. QED
        BY <3>3, <3>4
    <2>7. QED
      BY <2>5, <2>6
  <1>6. CASE InspectRollback
    <2>1. /\ e.pc = "rollback" /\ k = 0 /\ UNCHANGED <<files, litter>>
          /\ Done(files, plan, start, 0) \/ Done(files, plan, start, 0 - 1)
          /\ e.result \in {"rolled-back", "mismatch"}
      BY <1>6, <1>a DEF InspectRollback, Underway, TextInv
    <2>2. CASE Fresh /\ executor' = End(executor.result)
      <3>1. litter = FALSE
        <4>1. ChangedSince(e.base) = {}
          BY <2>2 DEF Fresh
        <4>2. QED
          BY <1>a, <4>1, CleanReport
      <3>2. files = start
        <4>1. \A p \in TextPaths : \A i \in DOMAIN plan : i > 0 /\ i > 0 - 1
          BY <1>b, <2>1
        <4>2. \A p \in TextPaths : files[p] = start[p]
          BY <2>1, <4>1 DEF Done
        <4>3. QED
          BY <1>a, <4>2 DEF Files
      <3>3. /\ ExecutorShape(executor') /\ executor'.pc = "done" /\ executor'.result = e.result
            /\ executor'.start = start
        BY <1>a, <2>2 DEF ExecutorShape, End
      <3>4. QED
        BY <1>a, <2>1, <3>1, <3>2, <3>3 DEF TextInv, Underway
    <2>3. CASE executor' = End("uncertain")
      <3>1. executor' = [executor EXCEPT !.pc = "done", !.result = "uncertain", !.plan = plan,
                                         !.next = k]
        BY <1>a, <2>3 DEF End, ExecutorShape
      <3>2. QED
        BY <1>a, <2>1, <3>1, Uncertain
    <2>4. QED
      BY <1>6, <2>2, <2>3 DEF InspectRollback
  <1>7. CASE CommitEffects
    <2>1. e.pc = "done" /\ e.result = "applied" /\ UNCHANGED <<files, litter>>
      BY <1>7 DEF CommitEffects
    <2>2. CASE executor' = End("committed")
      <3>1. /\ ExecutorShape(executor') /\ executor'.pc = "done" /\ executor'.result = "committed"
            /\ executor'.plan = plan /\ executor'.start = start
        BY <1>a, <2>2 DEF ExecutorShape, End
      <3>2. QED
        BY <1>a, <2>1, <3>1 DEF TextInv, Underway
    <2>3. CASE executor' = End("commit-failed")
      <3>1. executor' = [executor EXCEPT !.pc = "done", !.result = "commit-failed", !.plan = plan,
                                         !.next = k]
        BY <1>a, <2>3 DEF End, ExecutorShape
      <3>2. QED
        BY <1>a, <2>1, <3>1, Uncertain
    <2>4. QED
      BY <1>7, <2>2, <2>3 DEF CommitEffects
  <1>8. CASE Interrupt
    <2>1. executor' = [executor EXCEPT !.pc = "done", !.result = "uncertain", !.plan = <<>>,
                                       !.next = 1]
      BY <1>8 DEF Interrupt, End
    <2>2. QED
      BY <1>8, <1>a, <2>1, Uncertain DEF Interrupt
  <1>9. CASE ExecuteAgain
    <2>1. /\ ExecutorShape(executor') /\ executor'.pc = "idle" /\ executor'.start = files
          /\ UNCHANGED <<files, litter>>
      BY <1>9, <1>a DEF ExecuteAgain, ExecutorShape
    <2>2. QED
      BY <1>a, <2>1 DEF TextInv, Underway
  <1>10. QED
    BY <1>1, <1>2, <1>3, <1>4, <1>5, <1>6, <1>7, <1>8, <1>9 DEF TextNext

(* Whatever file operation fails, whether before or after its effect, and whenever the
   process ends: what the executor reports of a proposal is what the checkout holds. *)
THEOREM TextSafety == TextSpec => []ChangesAtomic
  <1>1. TextInv => ChangesAtomic
    <2> SUFFICES ASSUME TextInv, executor.pc = "done" PROVE ChangesAtomic
      BY DEF ChangesAtomic
    <2> DEFINE plan == executor.plan
               start == executor.start
    <2>1. Underway(files, litter, executor) /\ files \in Files
      BY DEF TextInv
    <2>2. ASSUME executor.result \in {"applied", "committed"}, NEW p \in TextPaths
          PROVE  files[p] = IF p \in PlanPaths
                            THEN After(plan[CHOOSE i \in DOMAIN plan : plan[i].path = p])
                            ELSE start[p]
      <3>1. PlanSound(plan, start) /\ Done(files, plan, start, Len(plan))
        BY <2>1, <2>2 DEF Underway
      <3>2. plan \in Seq(Planned)
        BY <3>1 DEF PlanSound
      <3>3. Len(plan) \in Nat /\ DOMAIN plan = 1 .. Len(plan)
        BY <3>2
      <3>4. CASE p \in PlanPaths
        <4> DEFINE i == CHOOSE i \in DOMAIN plan : plan[i].path = p
        <4>1. i \in DOMAIN plan /\ plan[i].path = p
          BY <3>4 DEF PlanPaths
        <4> HIDE DEF i
        <4>2. i <= Len(plan)
          BY <3>3, <4>1
        <4>3. files[p] = After(plan[i])
          BY <2>2, <3>1, <4>1, <4>2 DEF Done
        <4>4. QED
          BY <3>4, <4>3 DEF i
      <3>5. CASE p \notin PlanPaths
        BY <2>2, <3>1, <3>5 DEF PlanPaths, Done
      <3>6. QED
        BY <3>4, <3>5
    <2>3. QED
      BY <2>1, <2>2, Zenon DEF Underway, ChangesAtomic
  <1>2. QED
    BY <1>1, TextStarts, TextSteps, PTL DEF TextSpec

----------------------------------------------------------------------------
(* Counting: the place of a number in a finite set of numbers *)

Place(S, i) == Cardinality({j \in S : j <= i})

(* Places go from 1 to the number of elements, *)
LEMMA PlaceBounds ==
    ASSUME NEW S \in SUBSET Nat, IsFiniteSet(S), NEW i \in S
    PROVE  Place(S, i) \in 1 .. Cardinality(S)
  <1> DEFINE T == {j \in S : j <= i}
  <1>1. T \in SUBSET S /\ i \in T /\ i \in Nat
    OBVIOUS
  <1>2. IsFiniteSet(T) /\ Cardinality(T) <= Cardinality(S)
    BY <1>1, FS_Subset
  <1>3. Cardinality(T) \in Nat /\ Cardinality(S) \in Nat /\ Cardinality(T) # 0
    BY <1>1, <1>2, FS_CardinalityType, FS_EmptySet
  <1>4. QED
    BY <1>2, <1>3 DEF Place

(* in the order of the elements, *)
LEMMA PlaceGrows ==
    ASSUME NEW S \in SUBSET Nat, IsFiniteSet(S), NEW i \in S, NEW j \in S, i < j
    PROVE  Place(S, i) < Place(S, j)
  <1> DEFINE T == {k \in S : k <= i}
             U == {k \in S : k <= j}
  <1>0. i \in Nat /\ j \in Nat /\ \A k \in S : k \in Nat
    OBVIOUS
  <1>a. ~(j <= i) /\ j <= j /\ \A k \in S : k <= i => k <= j
    BY <1>0
  <1>1. T \in SUBSET U /\ U \in SUBSET S /\ j \in U /\ j \notin T
    BY <1>a
  <1>2. IsFiniteSet(U)
    BY <1>1, FS_Subset
  <1>3. Cardinality(T) <= Cardinality(U) /\ Cardinality(U) # Cardinality(T) /\ IsFiniteSet(T)
    BY <1>1, <1>2, FS_Subset
  <1>4. Cardinality(T) \in Nat /\ Cardinality(U) \in Nat
    BY <1>2, <1>3, FS_CardinalityType
  <1>5. QED
    BY <1>3, <1>4 DEF Place

(* so no two elements have the same, *)
LEMMA PlaceInjective ==
    ASSUME NEW S \in SUBSET Nat, IsFiniteSet(S), NEW i \in S, NEW j \in S,
           Place(S, i) = Place(S, j)
    PROVE  i = j
  <1>1. i \in Nat /\ j \in Nat /\ Place(S, i) \in Nat /\ Place(S, j) \in Nat
    BY PlaceBounds, FS_CardinalityType
  <1>2. ~(i < j) /\ ~(j < i)
    BY <1>1, PlaceGrows
  <1>3. QED
    BY <1>1, <1>2

(* and every one of them is taken. *)
LEMMA PlaceTaken ==
    ASSUME NEW S \in SUBSET Nat, IsFiniteSet(S), NEW k \in 1 .. Cardinality(S)
    PROVE  \E i \in S : Place(S, i) = k
  <1> DEFINE n == Cardinality(S)
             f == [i \in S |-> Place(S, i)]
  <1>1. n \in Nat
    BY FS_CardinalityType
  <1>2. f \in Injection(S, 1 .. n)
    <2>1. f \in [S -> 1 .. n]
      BY PlaceBounds
    <2>2. \A a, b \in S : f[a] = f[b] => a = b
      BY PlaceInjective
    <2>3. QED
      BY <2>1, <2>2 DEF Injection, IsInjective
  <1>3. IsFiniteSet(1 .. n) /\ Cardinality(1 .. n) = n
    <2> HIDE DEF n
    <2>1. IsFiniteSet(1 .. n) /\ Cardinality(1 .. n) = IF 1 > n THEN 0 ELSE n - 1 + 1
      BY <1>1, FS_Interval
    <2>2. QED
      BY <1>1, <2>1
  <1>4. f \in Surjection(S, 1 .. n)
    <2> HIDE DEF f
    <2>1. QED
      BY <1>2, <1>3, FS_Injection
  <1>5. PICK i \in S : f[i] = k
    BY <1>4 DEF Surjection
  <1>6. QED
    BY <1>5

(* The first part of a set of which the rest lies behind it. *)
LEMMA PlaceAhead ==
    ASSUME NEW S \in SUBSET Nat, IsFiniteSet(S), NEW A \in SUBSET S,
           \A a \in A, b \in S \ A : a < b
    PROVE  /\ \A i \in A : Place(S, i) = Place(A, i)
           /\ \A i \in S \ A : Place(S, i) = Cardinality(A) + Place(S \ A, i)
  <1>0. \A k \in S : k \in Nat
    OBVIOUS
  <1>1. ASSUME NEW i \in A PROVE Place(S, i) = Place(A, i)
    <2>1. \A j \in S : j <= i => j \in A
      BY <1>0
    <2>2. {j \in S : j <= i} = {j \in A : j <= i}
      BY <2>1
    <2>3. QED
      BY <2>2 DEF Place
  <1>2. ASSUME NEW i \in S \ A PROVE Place(S, i) = Cardinality(A) + Place(S \ A, i)
    <2> DEFINE B == {j \in S \ A : j <= i}
    <2>0. \A a \in A : a <= i
      BY <1>0
    <2>1. {j \in S : j <= i} = A \cup B /\ A \cap B = {}
      BY <2>0
    <2>2. IsFiniteSet(A) /\ IsFiniteSet(B)
      BY FS_Subset
    <2>3. Cardinality(A) \in Nat /\ Cardinality(B) \in Nat
      BY <2>2, FS_CardinalityType
    <2> HIDE DEF B
    <2>4. Cardinality(A \cup B) = Cardinality(A) + Cardinality(B) - 0
      BY <2>1, <2>2, FS_Union, FS_EmptySet
    <2>5. Cardinality(A \cup B) = Cardinality(A) + Cardinality(B)
      BY <2>3, <2>4
    <2>6. QED
      BY <2>1, <2>5 DEF Place, B
  <1>3. QED
    BY <1>1, <1>2

(* A map that keeps the order keeps the places. *)
LEMMA PlaceKept ==
    ASSUME NEW S \in SUBSET Nat, IsFiniteSet(S), NEW f \in [S -> Nat],
           \A i, j \in S : i < j => f[i] < f[j]
    PROVE  LET T == {f[i] : i \in S} IN
           /\ IsFiniteSet(T) /\ Cardinality(T) = Cardinality(S)
           /\ \A i \in S : Place(T, f[i]) = Place(S, i)
  <1> DEFINE T == {f[i] : i \in S}
  <1>1. \A i, j \in S : f[i] <= f[j] <=> i <= j
    <2>1. \A i, j \in S : i \in Nat /\ j \in Nat /\ f[i] \in Nat /\ f[j] \in Nat
      OBVIOUS
    <2>2. QED
      BY <2>1
  <1>2. \A i, j \in S : f[i] = f[j] => i = j
    <2>1. \A i, j \in S : i \in Nat /\ j \in Nat /\ f[i] \in Nat /\ f[j] \in Nat
      OBVIOUS
    <2>2. QED
      BY <2>1
  <1>3. ASSUME NEW U \in SUBSET S
        PROVE  LET V == {f[i] : i \in U} IN IsFiniteSet(V) /\ Cardinality(V) = Cardinality(U)
    <2> DEFINE V == {f[i] : i \in U}
               g == [i \in U |-> f[i]]
    <2>1. IsFiniteSet(U)
      BY FS_Subset
    <2>2. g \in Bijection(U, V)
      BY <1>2 DEF Bijection, Injection, Surjection, IsInjective
    <2>3. ExistsBijection(U, V)
      BY <2>2 DEF ExistsBijection
    <2> HIDE DEF V
    <2>4. IsFiniteSet(V) /\ Cardinality(V) = Cardinality(U)
      BY <2>1, <2>3, FS_Bijection
    <2>5. QED
      BY <2>4 DEF V
  <1>4. ASSUME NEW i \in S PROVE Place(T, f[i]) = Place(S, i)
    <2> DEFINE U == {j \in S : j <= i}
    <2>1. {t \in T : t <= f[i]} = {f[j] : j \in U}
      <3>1. ASSUME NEW t \in T, t <= f[i] PROVE \E j \in U : t = f[j]
        <4>1. PICK j \in S : t = f[j]
          OBVIOUS
        <4>2. j <= i
          BY <1>1, <3>1, <4>1
        <4>3. QED
          BY <4>1, <4>2
      <3>2. ASSUME NEW j \in U PROVE f[j] \in T /\ f[j] <= f[i]
        <4>1. j \in S /\ j <= i
          OBVIOUS
        <4>2. QED
          BY <1>1, <4>1
      <3> HIDE DEF T, U
      <3>3. QED
        BY <3>1, <3>2
    <2>2. U \in SUBSET S
      OBVIOUS
    <2> HIDE DEF U
    <2>3. Cardinality({f[j] : j \in U}) = Cardinality(U)
      BY <1>3, <2>2
    <2>4. QED
      BY <2>1, <2>3 DEF Place, U
  <1>5. IsFiniteSet(T) /\ Cardinality(T) = Cardinality(S)
    BY <1>3
  <1>6. QED
    BY <1>4, <1>5

----------------------------------------------------------------------------
(* The ledger *)

Stored == [stream : Streams, key : Keys \cup {NoKey}, content : Contents, seq : Nat]

EventInv == ledger \in Seq(Stored) /\ heads \in [Streams -> Nat] /\ GapFree

(* The events of a stream, as a set of numbers with places. *)
LEMMA StreamPlaces ==
    ASSUME EventInv, NEW s \in Streams
    PROVE  /\ EventsOf(s) \in SUBSET (1 .. Len(ledger)) /\ EventsOf(s) \in SUBSET Nat
           /\ IsFiniteSet(EventsOf(s))
           /\ heads[s] = Cardinality(EventsOf(s))
           /\ \A p \in EventsOf(s) : ledger[p].seq = Place(EventsOf(s), p)
  <1>1. Len(ledger) \in Nat /\ DOMAIN ledger = 1 .. Len(ledger)
    BY DEF EventInv
  <1>2. EventsOf(s) \in SUBSET (1 .. Len(ledger)) /\ EventsOf(s) \in SUBSET Nat
    BY <1>1 DEF EventsOf
  <1>3. IsFiniteSet(1 .. Len(ledger))
    BY <1>1, FS_Interval
  <1>4. IsFiniteSet(EventsOf(s))
    BY <1>2, <1>3, FS_Subset
  <1>5. QED
    BY <1>2, <1>4 DEF EventInv, GapFree, Place

(* The parts of a batch. *)
LEMMA BatchParts ==
    ASSUME NEW batch \in Batches
    PROVE  /\ DOMAIN batch \in SUBSET Nat /\ IsFiniteSet(DOMAIN batch)
           /\ \A i \in DOMAIN batch : batch[i] \in Envelope
           /\ New(batch) \in SUBSET (DOMAIN batch) /\ IsFiniteSet(New(batch))
           /\ \A s : Of(batch, s) \in SUBSET (DOMAIN batch) /\ IsFiniteSet(Of(batch, s))
           /\ \A i \in DOMAIN batch : Rank(batch, i) = Place(New(batch), i)
           /\ \A i \in DOMAIN batch : Offset(batch, i) = Place(Of(batch, batch[i].stream), i)
  <1>1. PICK k \in 1 .. MaxBatch : batch \in [1 .. k -> Envelope]
    BY DEF Batches
  <1>2. k \in Nat /\ DOMAIN batch = 1 .. k
    BY <1>1, StoreBounds
  <1>3. IsFiniteSet(DOMAIN batch)
    BY <1>2, FS_Interval
  <1>4. New(batch) \in SUBSET (DOMAIN batch) /\ \A s : Of(batch, s) \in SUBSET (DOMAIN batch)
    BY DEF New, Of
  <1>5. IsFiniteSet(New(batch)) /\ \A s : IsFiniteSet(Of(batch, s))
    BY <1>3, <1>4, FS_Subset
  <1>6. QED
    BY <1>1, <1>2, <1>3, <1>4, <1>5 DEF Rank, Offset, Place

(* A stored event is found where its stream and key are. *)
LEMMA PositionFound ==
    ASSUME EventInv, NEW e, Exists(e)
    PROVE  /\ Position(e) \in 1 .. Len(ledger)
           /\ e.key # NoKey
           /\ ledger[Position(e)].stream = e.stream
           /\ ledger[Position(e)].key = e.key
           /\ Position(e) \in WithKey(e)
  <1>1. Position(e) \in WithKey(e)
    BY DEF Exists, Position
  <1>2. DOMAIN ledger = 1 .. Len(ledger)
    BY DEF EventInv
  <1>3. QED
    BY <1>1, <1>2 DEF WithKey

(* What a concatenation holds. *)
LEMMA Concatenation ==
    ASSUME NEW X, NEW a \in Seq(X), NEW b \in Seq(X)
    PROVE  /\ a \o b \in Seq(X)
           /\ Len(a \o b) = Len(a) + Len(b)
           /\ \A p \in 1 .. Len(a) : (a \o b)[p] = a[p]
           /\ \A k \in 1 .. Len(b) : (a \o b)[Len(a) + k] = b[k]
  <1>1. Len(a) \in Nat /\ Len(b) \in Nat
    OBVIOUS
  <1>2. a \o b \in Seq(X) /\ Len(a \o b) = Len(a) + Len(b)
    OBVIOUS
  <1>3. ASSUME NEW p \in 1 .. Len(a) PROVE (a \o b)[p] = a[p]
    OBVIOUS
  <1>4. ASSUME NEW k \in 1 .. Len(b) PROVE (a \o b)[Len(a) + k] = b[k]
    <2>1. k \in Nat /\ Len(a) + k - Len(a) = k /\ Len(a) + k \in 1 .. Len(a) + Len(b)
          /\ ~(Len(a) + k <= Len(a))
      BY <1>1
    <2>2. QED
      BY <1>1, <2>1
  <1>5. QED
    BY <1>2, <1>3, <1>4

(* What append_many_in_transaction has established when it inserts. *)
Appends(batch, expected, skew) ==
    /\ batch \in Batches
    /\ New(batch) # {}
    /\ SameContent(batch)
    /\ KeysDistinct(batch)
    /\ expected \in Seen(batch)
    /\ skew \in {0, 1}
    /\ \A s \in StreamsOf(batch) : StreamValid(batch, expected, skew, s)

(* The event that is inserted for the i-th of a batch. *)
Inserted(batch, expected, i) ==
    [stream |-> batch[i].stream, key |-> batch[i].key, content |-> batch[i].content,
     seq |-> expected[batch[i].stream] + Offset(batch, i)]

LEMMA InsertedFields ==
    ASSUME NEW batch, NEW expected, NEW i
    PROVE  /\ Inserted(batch, expected, i).stream = batch[i].stream
           /\ Inserted(batch, expected, i).key = batch[i].key
           /\ Inserted(batch, expected, i).content = batch[i].content
           /\ Inserted(batch, expected, i).seq = expected[batch[i].stream] + Offset(batch, i)
  BY DEF Inserted

(* The new events are in the order of the batch behind what was stored. *)
LEMMA Extension ==
    ASSUME EventInv, NEW batch, NEW expected, NEW skew, Appends(batch, expected, skew)
    PROVE  LET G == Extended(batch, expected, skew) IN
           /\ G \in Seq(Stored)
           /\ Len(G) = Len(ledger) + Cardinality(New(batch))
           /\ \A p \in 1 .. Len(ledger) : G[p] = ledger[p]
           /\ \A i \in New(batch) :
                 /\ Rank(batch, i) \in 1 .. Cardinality(New(batch))
                 /\ Len(ledger) + Rank(batch, i) \in 1 .. Len(G)
                 /\ G[Len(ledger) + Rank(batch, i)] = Inserted(batch, expected, i)
           /\ \A p \in 1 .. Len(G) :
                 p <= Len(ledger) \/ \E i \in New(batch) : p = Len(ledger) + Rank(batch, i)
  <1> DEFINE N == New(batch)
             c == Cardinality(N)
             n == Len(ledger)
             t == [k \in 1 .. c |-> NewEvent(batch, expected, skew, k)]
             G == Extended(batch, expected, skew)
  <1>1. batch \in Batches /\ N \in SUBSET (DOMAIN batch) /\ IsFiniteSet(N) /\ N \in SUBSET Nat
    BY BatchParts DEF Appends
  <1>2. c \in Nat /\ n \in Nat /\ ledger \in Seq(Stored)
    BY <1>1, FS_CardinalityType DEF EventInv
  <1>3. skew = 0
    <2>1. PICK i \in N : TRUE
      BY DEF Appends
    <2>2. i \in DOMAIN batch /\ ~Exists(batch[i])
      BY <2>1 DEF New
    <2>3. batch[i].stream \in StreamsOf(batch) /\ i \in Of(batch, batch[i].stream)
      BY <2>2 DEF StreamsOf, Of
    <2>4. QED
      BY <2>2, <2>3 DEF Appends, StreamValid
  <1>4. \A i \in N : Rank(batch, i) = Place(N, i) /\ Rank(batch, i) \in 1 .. c
    BY <1>1, PlaceBounds, BatchParts
  <1>5. ASSUME NEW i \in DOMAIN batch PROVE Inserted(batch, expected, i) \in Stored
    <2>1. batch[i] \in Envelope
      BY <1>1, BatchParts
    <2>2. expected \in [Streams -> 0 .. MaxLedger]
      BY DEF Appends, Seen
    <2>3. expected[batch[i].stream] \in Nat
      BY <2>1, <2>2, StoreBounds DEF Envelope
    <2>4. Offset(batch, i) \in Nat
      <3>1. i \in Of(batch, batch[i].stream)
        BY DEF Of
      <3>2. Of(batch, batch[i].stream) \in SUBSET Nat /\ IsFiniteSet(Of(batch, batch[i].stream))
        BY <1>1, BatchParts
      <3>3. Place(Of(batch, batch[i].stream), i) \in Nat
        BY <3>1, <3>2, PlaceBounds, FS_CardinalityType
      <3>4. QED
        BY <1>1, <3>3, BatchParts
    <2>5. expected[batch[i].stream] + Offset(batch, i) \in Nat
      BY <2>3, <2>4
    <2>6. QED
      BY <2>1, <2>5 DEF Inserted, Stored, Envelope
  <1>6. ASSUME NEW i \in N
        PROVE  NewEvent(batch, expected, skew, Rank(batch, i)) = Inserted(batch, expected, i)
    <2> DEFINE j == CHOOSE m \in N : Rank(batch, m) = Rank(batch, i)
    <2>1. j \in N /\ Rank(batch, j) = Rank(batch, i)
      OBVIOUS
    <2>2. j = i
      <3> HIDE DEF j
      <3>1. QED
        BY <1>1, <1>4, <2>1, PlaceInjective
    <2>3. Inserted(batch, expected, i).seq \in Nat /\ i \in DOMAIN batch
      BY <1>1, <1>5 DEF Stored
    <2>4. expected[batch[i].stream] + Offset(batch, i) + skew = expected[batch[i].stream] + Offset(batch, i)
      BY <1>3, <2>3 DEF Inserted
    <2>5. NewEvent(batch, expected, skew, Rank(batch, i))
            = [stream |-> batch[j].stream, key |-> batch[j].key, content |-> batch[j].content,
               seq |-> expected[batch[j].stream] + Offset(batch, j) + skew]
      BY DEF NewEvent
    <2> HIDE DEF j
    <2>6. QED
      BY <2>2, <2>4, <2>5 DEF Inserted
  <1>7. \A k \in 1 .. c : \E i \in N : Rank(batch, i) = k
    BY <1>1, <1>4, PlaceTaken
  <1>8. t \in Seq(Stored) /\ Len(t) = c /\ \A i \in N : t[Rank(batch, i)] = Inserted(batch, expected, i)
    <2>1. \A k \in 1 .. c : NewEvent(batch, expected, skew, k) \in Stored
      BY <1>1, <1>5, <1>6, <1>7
    <2>2. t \in [1 .. c -> Stored] /\ \A i \in N : t[Rank(batch, i)] = Inserted(batch, expected, i)
      BY <1>4, <1>6, <2>1
    <2> HIDE DEF t, c
    <2>3. QED
      BY <1>2, <2>2
  <1>9. G = ledger \o t
    BY DEF Extended
  <1> HIDE DEF t, c, G, N
  <1>10. G \in Seq(Stored) /\ Len(G) = n + c /\ (\A p \in 1 .. n : G[p] = ledger[p])
         /\ \A k \in 1 .. c : G[n + k] = t[k]
    <2>1. t \in Seq(Stored) /\ Len(t) = c
      BY <1>8
    <2>2. /\ ledger \o t \in Seq(Stored) /\ Len(ledger \o t) = Len(ledger) + Len(t)
          /\ \A p \in 1 .. Len(ledger) : (ledger \o t)[p] = ledger[p]
          /\ \A k \in 1 .. Len(t) : (ledger \o t)[Len(ledger) + k] = t[k]
      <3>1. ledger \in Seq(Stored) /\ t \in Seq(Stored)
        BY <1>2, <2>1
      <3>2. QED
        BY <3>1, Concatenation
    <2>3. QED
      BY <1>9, <2>1, <2>2, Zenon
  <1>11. \A i \in N : n + Rank(batch, i) \in 1 .. Len(G) /\ G[n + Rank(batch, i)] = Inserted(batch, expected, i)
    BY <1>2, <1>4, <1>8, <1>10
  <1>12. ASSUME NEW p \in 1 .. Len(G), ~(p <= n)
         PROVE  \E i \in N : p = n + Rank(batch, i)
    <2>1. p - n \in 1 .. c
      BY <1>2, <1>10, <1>12
    <2>2. PICK i \in N : Rank(batch, i) = p - n
      BY <1>7, <2>1
    <2>3. QED
      BY <1>2, <2>2
  <1>13. QED
    BY <1>4, <1>10, <1>11, <1>12 DEF G, N, c

(* The part of a stream in a batch: what is new, and what is stored already. *)
NewIn(batch, s) == Of(batch, s) \cap New(batch)
OldIn(batch, s) == Of(batch, s) \ NewIn(batch, s)

(* What is stored comes first, and ends where the stream ends. *)
LEMMA StreamPart ==
    ASSUME EventInv, NEW batch, NEW expected, NEW skew, Appends(batch, expected, skew),
           NEW s \in StreamsOf(batch)
    PROVE  /\ s \in Streams /\ expected[s] \in Nat
           /\ Of(batch, s) \in SUBSET Nat /\ IsFiniteSet(Of(batch, s))
           /\ IsFiniteSet(OldIn(batch, s)) /\ IsFiniteSet(NewIn(batch, s))
           /\ heads[s] = expected[s] + Cardinality(OldIn(batch, s))
           /\ \A i \in OldIn(batch, s) :
                 /\ Exists(batch[i])
                 /\ Offset(batch, i) = Place(OldIn(batch, s), i)
                 /\ ledger[Position(batch[i])].seq = expected[s] + Offset(batch, i)
           /\ \A i \in NewIn(batch, s) :
                 Offset(batch, i) = Cardinality(OldIn(batch, s)) + Place(NewIn(batch, s), i)
  <1> DEFINE O == Of(batch, s)
             M == NewIn(batch, s)
             A == OldIn(batch, s)
  <1> USE DEF NewIn, OldIn
  <1>1. batch \in Batches /\ expected \in [Streams -> 0 .. MaxLedger] /\ StreamValid(batch, expected, skew, s)
    BY DEF Appends, Seen
  <1>2. s \in Streams /\ expected[s] \in Nat
    <2>1. s \in Streams
      BY <1>1, BatchParts DEF StreamsOf, Envelope
    <2>2. QED
      BY <1>1, <2>1, StoreBounds
  <1>3. O \in SUBSET (DOMAIN batch) /\ O \in SUBSET Nat /\ IsFiniteSet(O)
    BY <1>1, BatchParts
  <1>4. A \in SUBSET O /\ M \in SUBSET O /\ M = O \ A /\ IsFiniteSet(A) /\ IsFiniteSet(M)
    <2>1. A \in SUBSET O /\ M \in SUBSET O /\ M = O \ A
      OBVIOUS
    <2>2. QED
      BY <1>3, <2>1, FS_Subset
  <1>5. \A i \in O : /\ i \in DOMAIN batch /\ batch[i].stream = s
                     /\ i \in A <=> Exists(batch[i])
    BY DEF Of, New
  <1>6. A = {i \in O : Exists(batch[i])}
    BY <1>5
  <1>7. \A a \in A, b \in O \ A : a < b
    <2>1. ASSUME NEW a \in A, NEW b \in O \ A PROVE a < b
      <3>1. a \in O /\ b \in O /\ Exists(batch[a]) /\ ~Exists(batch[b]) /\ a \in Nat /\ b \in Nat
        BY <1>3, <1>5
      <3>2. ~(b < a)
        BY <1>1, <3>1 DEF StreamValid
      <3>3. a # b
        BY <3>1
      <3>4. QED
        BY <3>1, <3>2, <3>3
    <2>2. QED
      BY <2>1
  <1>8. \A i \in O : Offset(batch, i) = Place(O, i)
    BY <1>1, <1>5, BatchParts
  <1> HIDE DEF A, M, O, NewIn, OldIn
  <1>9. /\ \A i \in A : Place(O, i) = Place(A, i)
        /\ \A i \in O \ A : Place(O, i) = Cardinality(A) + Place(O \ A, i)
    BY <1>3, <1>4, <1>7, PlaceAhead
  <1>10. heads[s] = expected[s] + Cardinality(A)
    BY <1>1, <1>6 DEF StreamValid, CommittedPrefix, O
  <1>11. \A i \in A : ledger[Position(batch[i])].seq = expected[s] + Offset(batch, i)
    BY <1>1, <1>4, <1>5 DEF StreamValid, O
  <1>12. /\ \A i \in A : Exists(batch[i]) /\ Offset(batch, i) = Place(A, i)
         /\ \A i \in M : Offset(batch, i) = Cardinality(A) + Place(M, i)
    BY <1>4, <1>5, <1>8, <1>9
  <1>13. QED
    BY <1>2, <1>3, <1>4, <1>10, <1>11, <1>12 DEF A, M, O

(* Appending keeps every stream without a gap. *)
LEMMA AppendGapFree ==
    ASSUME EventInv, NEW batch, NEW expected, NEW skew, Appends(batch, expected, skew),
           ledger' = Extended(batch, expected, skew),
           heads' = [s \in Streams |-> NewHead(batch, s)]
    PROVE  EventInv'
  <1> DEFINE n == Len(ledger)
             r(i) == Rank(batch, i)
  <1>1. /\ ledger' \in Seq(Stored) /\ DOMAIN ledger' = 1 .. Len(ledger') /\ n \in Nat
        /\ DOMAIN ledger = 1 .. n
        /\ Len(ledger') = n + Cardinality(New(batch))
        /\ \A p \in 1 .. n : ledger'[p] = ledger[p]
        /\ \A i \in New(batch) : /\ r(i) \in 1 .. Cardinality(New(batch))
                                 /\ n + r(i) \in 1 .. Len(ledger')
                                 /\ ledger'[n + r(i)] = Inserted(batch, expected, i)
        /\ \A p \in 1 .. Len(ledger') : p <= n \/ \E i \in New(batch) : p = n + r(i)
    BY Extension DEF EventInv
  <1>2. batch \in Batches /\ New(batch) \in SUBSET (DOMAIN batch) /\ DOMAIN batch \in SUBSET Nat
        /\ IsFiniteSet(New(batch)) /\ Cardinality(New(batch)) \in Nat
        /\ \A i \in New(batch) : batch[i] \in Envelope
    BY BatchParts, FS_CardinalityType DEF Appends
  <1>3. \A i, j \in New(batch) : i < j => r(i) < r(j)
    <2>1. \A i \in New(batch) : r(i) = Place(New(batch), i)
      BY <1>2, BatchParts
    <2>2. QED
      BY <1>2, <2>1, PlaceGrows
  <1>4. ASSUME NEW s \in Streams
        PROVE  /\ heads'[s] \in Nat /\ heads'[s] = Cardinality(EventsOf(s)')
               /\ \A p \in EventsOf(s)' : ledger'[p].seq = Place(EventsOf(s)', p)
    <2> DEFINE M == NewIn(batch, s)
               E == EventsOf(s)
               f == [i \in M |-> n + r(i)]
               F == {f[i] : i \in M}
    <2>1. E \in SUBSET (1 .. n) /\ E \in SUBSET Nat /\ IsFiniteSet(E) /\ heads[s] = Cardinality(E)
          /\ \A p \in E : ledger[p].seq = Place(E, p)
      BY StreamPlaces
    <2>2. M \in SUBSET New(batch) /\ M \in SUBSET Nat /\ IsFiniteSet(M) /\ Cardinality(M) \in Nat
          /\ Cardinality(E) \in Nat
      BY <1>2, <2>1, FS_Subset, FS_CardinalityType DEF NewIn
    <2>3. f \in [M -> Nat] /\ \A i, j \in M : i < j => f[i] < f[j]
      <3>1. \A i \in M : r(i) \in Nat
        BY <1>1, <1>2, <2>2
      <3>2. \A i, j \in M : i < j => r(i) < r(j)
        BY <1>3, <2>2
      <3>3. QED
        BY <1>1, <3>1, <3>2
    <2>4. IsFiniteSet(F) /\ Cardinality(F) = Cardinality(M) /\ \A i \in M : Place(F, f[i]) = Place(M, i)
      <3> HIDE DEF f, M
      <3>1. QED
        BY <2>2, <2>3, PlaceKept
    <2>5. \A p \in F : p \in Nat /\ n < p /\ p \in 1 .. Len(ledger')
      BY <1>1, <1>2, <2>2
    <2>6. EventsOf(s)' = E \cup F
      <3>1. ASSUME NEW p \in EventsOf(s)' PROVE p \in E \cup F
        <4>1. p \in 1 .. Len(ledger') /\ ledger'[p].stream = s
          BY <1>1 DEF EventsOf
        <4>2. CASE p <= n
          BY <1>1, <4>1, <4>2 DEF EventsOf
        <4>3. CASE \E i \in New(batch) : p = n + r(i)
          <5>1. PICK i \in New(batch) : p = n + r(i)
            BY <4>3
          <5>2. batch[i].stream = s /\ i \in DOMAIN batch
            <6>1. ledger'[p] = Inserted(batch, expected, i) /\ i \in DOMAIN batch
              BY <1>1, <1>2, <5>1
            <6>2. QED
              BY <4>1, <6>1, InsertedFields
          <5>3. i \in M
            BY <5>2 DEF Of, NewIn
          <5>4. QED
            BY <5>1, <5>3
        <4>4. QED
          BY <1>1, <4>1, <4>2, <4>3
      <3>2. ASSUME NEW p \in E PROVE p \in EventsOf(s)'
        <4>1. p \in 1 .. n /\ ledger[p].stream = s
          BY <1>1 DEF EventsOf
        <4>2. p \in 1 .. Len(ledger') /\ ledger'[p] = ledger[p]
          BY <1>1, <1>2, <4>1
        <4>3. QED
          BY <1>1, <4>1, <4>2 DEF EventsOf
      <3>3. ASSUME NEW i \in M PROVE n + r(i) \in EventsOf(s)'
        <4>1. ledger'[n + r(i)] = Inserted(batch, expected, i) /\ n + r(i) \in 1 .. Len(ledger')
          BY <1>1, <2>2
        <4>2. batch[i].stream = s
          BY DEF Of, NewIn
        <4>3. ledger'[n + r(i)].stream = s
          BY <4>1, <4>2, InsertedFields
        <4>4. QED
          BY <1>1, <4>1, <4>3 DEF EventsOf
      <3>4. QED
        BY <3>1, <3>2, <3>3
    <2>7. IsFiniteSet(E \cup F) /\ Cardinality(E \cup F) = Cardinality(E) + Cardinality(M)
      <3>1. E \cap F = {}
        BY <1>1, <2>1, <2>5
      <3>2. Cardinality(E \cup F) = Cardinality(E) + Cardinality(M) - 0 /\ IsFiniteSet(E \cup F)
        <4> HIDE DEF E, F, M
        <4>1. QED
          BY <2>1, <2>4, <3>1, FS_Union, FS_EmptySet
      <3>3. QED
        BY <2>2, <3>2
    <2>8. heads'[s] = heads[s] + Cardinality(M)
      BY DEF NewHead, NewIn
    <2>9. heads'[s] \in Nat /\ heads'[s] = Cardinality(EventsOf(s)')
      BY <2>1, <2>2, <2>6, <2>7, <2>8
    <2>10. \A a \in E, b \in (E \cup F) \ E : a < b
      <3>1. \A a \in E : a \in Nat /\ a <= n
        BY <1>1, <2>1
      <3> HIDE DEF E, F
      <3>2. QED
        BY <1>1, <2>5, <3>1
    <2>11. (E \cup F) \ E = F
      BY <1>1, <2>1, <2>5
    <2>12. /\ \A p \in E : Place(E \cup F, p) = Place(E, p)
           /\ \A p \in F : Place(E \cup F, p) = Cardinality(E) + Place(F, p)
      <3>1. E \cup F \in SUBSET Nat /\ E \in SUBSET (E \cup F)
        BY <2>1, <2>5
      <3> DEFINE S == E \cup F
      <3>2. S \in SUBSET Nat /\ IsFiniteSet(S) /\ E \in SUBSET S /\ \A a \in E, b \in S \ E : a < b
        BY <2>7, <2>10, <3>1
      <3>3. S \ E = F
        BY <2>11
      <3> HIDE DEF E, F, S
      <3>4. /\ \A i \in E : Place(S, i) = Place(E, i)
            /\ \A i \in S \ E : Place(S, i) = Cardinality(E) + Place(S \ E, i)
        BY <3>2, PlaceAhead
      <3>5. QED
        BY <3>3, <3>4 DEF S
    <2>13. ASSUME NEW p \in E PROVE ledger'[p].seq = Place(EventsOf(s)', p)
      <3>1. ledger'[p] = ledger[p]
        BY <1>1, <2>1
      <3>2. QED
        BY <2>1, <2>6, <2>12, <3>1
    <2>14. ASSUME NEW i \in M PROVE ledger'[f[i]].seq = Place(EventsOf(s)', f[i])
      <3>1. s \in StreamsOf(batch) /\ batch[i].stream = s /\ i \in New(batch)
        BY <1>2 DEF Of, StreamsOf, NewIn
      <3>2. expected[s] \in Nat /\ heads[s] = expected[s] + Cardinality(OldIn(batch, s))
            /\ Offset(batch, i) = Cardinality(OldIn(batch, s)) + Place(M, i)
            /\ IsFiniteSet(OldIn(batch, s))
        BY <3>1, StreamPart
      <3>3. ledger'[f[i]].seq = expected[s] + Offset(batch, i)
        <4>1. ledger'[f[i]] = Inserted(batch, expected, i)
          BY <1>1, <3>1
        <4>2. QED
          BY <3>1, <4>1, InsertedFields
      <3>4. Cardinality(OldIn(batch, s)) \in Nat /\ Place(M, i) \in Nat
        BY <2>2, <3>2, FS_CardinalityType, PlaceBounds
      <3>5. f[i] \in F /\ Place(EventsOf(s)', f[i]) = Cardinality(E) + Place(M, i)
        BY <2>4, <2>6, <2>12
      <3>6. heads[s] = Cardinality(E)
        BY <2>1
      <3> DEFINE pl == Place(M, i)
                 ca == Cardinality(OldIn(batch, s))
      <3>7. expected[s] + (ca + pl) = (expected[s] + ca) + pl
        <4>1. pl \in Nat /\ ca \in Nat
          BY <3>4
        <4> HIDE DEF pl, ca
        <4>2. QED
          BY <3>2, <4>1
      <3>8. ledger'[f[i]].seq = heads[s] + pl
        BY <3>2, <3>3, <3>7, Zenon
      <3>9. QED
        BY <3>5, <3>6, <3>8, Zenon
    <2>15. QED
      BY <2>6, <2>9, <2>13, <2>14
  <1>5. heads' \in [Streams -> Nat]
    BY <1>4
  <1>6. ASSUME NEW p \in DOMAIN ledger', NEW q \in DOMAIN ledger', p < q,
               ledger'[p].key # NoKey, ledger'[p].stream = ledger'[q].stream
        PROVE  ledger'[p].key # ledger'[q].key
    <2>0. p \in Nat /\ q \in Nat /\ p \in 1 .. Len(ledger') /\ q \in 1 .. Len(ledger')
      BY <1>1
    <2>1. CASE q <= n
      <3>1. p \in 1 .. n /\ q \in 1 .. n /\ p # q
        BY <1>1, <1>6, <2>0, <2>1
      <3>2. QED
        BY <1>1, <1>6, <3>1 DEF EventInv, GapFree
    <2>2. CASE p <= n /\ ~(q <= n)
      <3>1. PICK j \in New(batch) : q = n + r(j)
        BY <1>1, <2>0, <2>2
      <3>2. ledger'[q] = Inserted(batch, expected, j) /\ p \in 1 .. n
        BY <1>1, <2>0, <2>2, <3>1
      <3>3. ~Exists(batch[j])
        BY DEF New
      <3>4. p \notin WithKey(batch[j])
        BY <3>3 DEF Exists
      <3>5. QED
        BY <1>1, <1>6, <3>2, <3>4 DEF WithKey, Inserted
    <2>3. CASE ~(p <= n)
      <3>1. ~(q <= n)
        BY <1>1, <1>6, <2>0, <2>3
      <3>2. PICK i \in New(batch) : p = n + r(i)
        BY <1>1, <2>0, <2>3
      <3>3. PICK j \in New(batch) : q = n + r(j)
        BY <1>1, <2>0, <3>1
      <3>4. i # j /\ i \in DOMAIN batch /\ j \in DOMAIN batch /\ ~Exists(batch[i])
        BY <1>6, <2>0, <3>2, <3>3 DEF New
      <3>5. ledger'[p] = Inserted(batch, expected, i) /\ ledger'[q] = Inserted(batch, expected, j)
        BY <1>1, <3>2, <3>3
      <3>6. QED
        BY <1>6, <3>4, <3>5 DEF Inserted, Appends, KeysDistinct
    <2>4. QED
      BY <2>1, <2>2, <2>3
  <1>7. \A p, q \in DOMAIN ledger' :
           p # q /\ ledger'[p].key # NoKey /\ ledger'[p].stream = ledger'[q].stream
           => ledger'[p].key # ledger'[q].key
    <2>1. \A p, q \in DOMAIN ledger' : p # q => p < q \/ q < p
      BY <1>1
    <2>2. QED
      BY <1>6, <2>1
  <1>8. QED
    BY <1>1, <1>4, <1>5, <1>7 DEF EventInv, GapFree, Place

----------------------------------------------------------------------------
(* The answers *)

(* What is returned for a batch that was appended: each event where it is, with the
   sequence its caller expected. *)
LEMMA AppendAnswer ==
    ASSUME EventInv, NEW batch, NEW expected, NEW skew, Appends(batch, expected, skew),
           ledger' = Extended(batch, expected, skew),
           answer' = [batch |-> batch, seen |-> expected, from |-> Len(ledger),
                      positions |-> [i \in DOMAIN batch |->
                          IF Exists(batch[i]) THEN Position(batch[i])
                                              ELSE Len(ledger) + Rank(batch, i)]]
    PROVE  AnswerInLedger'
  <1> DEFINE n == Len(ledger)
             P(i) == IF Exists(batch[i]) THEN Position(batch[i]) ELSE n + Rank(batch, i)
  <1>1. answer'.batch = batch /\ \A i \in DOMAIN batch : answer'.positions[i] = P(i)
    OBVIOUS
  <1>2. batch \in Batches
    BY DEF Appends
  <1>3. /\ n \in Nat /\ DOMAIN ledger = 1 .. n
        /\ \A p \in 1 .. n : ledger'[p] = ledger[p]
        /\ \A i \in New(batch) : ledger'[n + Rank(batch, i)] = Inserted(batch, expected, i)
    BY Extension DEF EventInv
  <1>4. ASSUME NEW i \in DOMAIN batch
        PROVE  /\ ledger'[P(i)].stream = batch[i].stream
               /\ ledger'[P(i)].key = batch[i].key
               /\ ledger'[P(i)].content = batch[i].content
               /\ ledger'[P(i)].seq = expected[batch[i].stream] + Offset(batch, i)
               /\ expected[batch[i].stream] \in Nat /\ Offset(batch, i) \in Nat
    <2> DEFINE s == batch[i].stream
               O == Of(batch, s)
    <2>1. s \in StreamsOf(batch) /\ i \in O
      BY DEF StreamsOf, Of
    <2>2. expected[s] \in Nat /\ O \in SUBSET Nat /\ IsFiniteSet(O)
      BY <2>1, StreamPart
    <2>3. Offset(batch, i) \in Nat
      <3>1. Place(O, i) \in Nat
        BY <2>1, <2>2, PlaceBounds, FS_CardinalityType
      <3>2. QED
        BY <1>2, <3>1, BatchParts
    <2>4. CASE Exists(batch[i])
      <3>1. P(i) = Position(batch[i])
        BY <2>4
      <3>2. /\ Position(batch[i]) \in 1 .. n
            /\ ledger[Position(batch[i])].stream = s
            /\ ledger[Position(batch[i])].key = batch[i].key
            /\ Position(batch[i]) \in WithKey(batch[i])
        BY <2>4, PositionFound
      <3>3. ledger[Position(batch[i])].content = batch[i].content
        BY <3>2 DEF Appends, SameContent
      <3>4. i \in OldIn(batch, s)
        BY <2>1, <2>4 DEF New, NewIn, OldIn
      <3>5. ledger[Position(batch[i])].seq = expected[s] + Offset(batch, i)
        BY <2>1, <3>4, StreamPart
      <3>6. ledger'[P(i)] = ledger[Position(batch[i])]
        BY <1>3, <3>1, <3>2
      <3>7. QED
        BY <2>2, <2>3, <3>2, <3>3, <3>5, <3>6
    <2>5. CASE ~Exists(batch[i])
      <3>1. P(i) = n + Rank(batch, i) /\ i \in New(batch)
        BY <2>5 DEF New
      <3>2. ledger'[P(i)] = Inserted(batch, expected, i)
        BY <1>3, <3>1
      <3>3. QED
        BY <2>2, <2>3, <3>2, InsertedFields
    <2>6. QED
      BY <2>4, <2>5
  <1> HIDE DEF P
  <1>5. ASSUME NEW i \in DOMAIN batch, NEW j \in DOMAIN batch, batch[i].stream = batch[j].stream
        PROVE  ledger'[P(j)].seq - ledger'[P(i)].seq = Offset(batch, j) - Offset(batch, i)
    <2> DEFINE e == expected[batch[i].stream]
               a == Offset(batch, i)
               b == Offset(batch, j)
    <2>1. e \in Nat /\ a \in Nat /\ b \in Nat /\ ledger'[P(i)].seq = e + a /\ ledger'[P(j)].seq = e + b
      BY <1>4, <1>5
    <2> HIDE DEF e, a, b
    <2>2. (e + b) - (e + a) = b - a
      BY <2>1
    <2>3. QED
      BY <2>1, <2>2 DEF a, b
  <1>6. \A i \in DOMAIN batch : ledger'[answer'.positions[i]] = ledger'[P(i)]
    BY <1>1
  <1>7. \A i \in DOMAIN answer'.batch :
           /\ ledger'[answer'.positions[i]].stream = answer'.batch[i].stream
           /\ ledger'[answer'.positions[i]].key = answer'.batch[i].key
           /\ ledger'[answer'.positions[i]].content = answer'.batch[i].content
    BY <1>1, <1>4, <1>6
  <1>8. \A i, j \in DOMAIN answer'.batch :
           answer'.batch[i].stream = answer'.batch[j].stream /\ i < j =>
               ledger'[answer'.positions[j]].seq - ledger'[answer'.positions[i]].seq
                 = Offset(answer'.batch, j) - Offset(answer'.batch, i)
    <2>1. \A i, j \in DOMAIN batch : batch[i].stream = batch[j].stream =>
              ledger'[answer'.positions[j]].seq - ledger'[answer'.positions[i]].seq
                = Offset(batch, j) - Offset(batch, i)
      BY <1>5, <1>6
    <2>2. QED
      BY <1>1, <2>1
  <1>9. QED
    BY <1>7, <1>8 DEF AnswerInLedger, Offset, Of

(* A call that appended had seen what was there, but for what it sends again: the
   events it had not seen are as many as its own that are stored, and have their
   sequences. *)
LEMMA AppendSeen ==
    ASSUME EventInv, NEW batch, NEW expected, NEW skew, Appends(batch, expected, skew),
           ledger' = Extended(batch, expected, skew),
           answer' = [batch |-> batch, seen |-> expected, from |-> Len(ledger),
                      positions |-> [i \in DOMAIN batch |->
                          IF Exists(batch[i]) THEN Position(batch[i])
                                              ELSE Len(ledger) + Rank(batch, i)]]
    PROVE  NoUnseenEvent'
  <1> DEFINE n == Len(ledger)
             P(i) == IF Exists(batch[i]) THEN Position(batch[i]) ELSE n + Rank(batch, i)
  <1>1. answer'.batch = batch /\ answer'.from = n /\ answer'.seen = expected
        /\ \A i \in DOMAIN batch : answer'.positions[i] = P(i)
    OBVIOUS
  <1>2. /\ n \in Nat /\ DOMAIN ledger = 1 .. n /\ ledger \in Seq(Stored)
        /\ \A p \in 1 .. n : ledger'[p] = ledger[p]
    BY Extension DEF EventInv
  <1>3. ASSUME NEW p \in 1 .. n, NEW m \in Of(batch, ledger[p].stream),
               ledger[p].seq > expected[ledger[p].stream]
        PROVE  \E i \in DOMAIN batch : P(i) = p
    <2> DEFINE s == ledger[p].stream
               E == EventsOf(s)
               O == Of(batch, s)
               A == OldIn(batch, s)
    <2>1. s \in Streams /\ s \in StreamsOf(batch)
      <3>1. ledger[p] \in Stored
        BY <1>2
      <3>2. QED
        BY <3>1 DEF Stored, Of, StreamsOf
    <2>2. /\ E \in SUBSET Nat /\ IsFiniteSet(E) /\ heads[s] = Cardinality(E)
          /\ \A q \in E : ledger[q].seq = Place(E, q)
      BY <2>1, StreamPlaces
    <2>3. p \in E
      BY <1>2 DEF EventsOf
    <2>4. /\ expected[s] \in Nat /\ O \in SUBSET Nat /\ IsFiniteSet(A)
          /\ heads[s] = expected[s] + Cardinality(A)
          /\ \A i \in A : /\ Exists(batch[i])
                          /\ Offset(batch, i) = Place(A, i)
                          /\ ledger[Position(batch[i])].seq = expected[s] + Offset(batch, i)
      BY <2>1, StreamPart
    <2>5. Place(E, p) \in 1 .. Cardinality(E) /\ Cardinality(E) \in Nat /\ Cardinality(A) \in Nat
      BY <2>2, <2>3, <2>4, PlaceBounds, FS_CardinalityType
    <2>6. PICK k \in 1 .. Cardinality(A) : Place(E, p) = expected[s] + k
      <3> DEFINE x == Place(E, p)
                 c == Cardinality(A)
                 e == expected[s]
      <3>1. x \in 1 .. (e + c) /\ c \in Nat /\ e \in Nat /\ x > e
        BY <1>3, <2>2, <2>3, <2>4, <2>5
      <3> HIDE DEF x, c, e
      <3>2. x - e \in 1 .. c /\ x = e + (x - e)
        BY <3>1
      <3>3. QED
        BY <3>2 DEF x, c, e
    <2>7. PICK i \in A : Place(A, i) = k
      <3>1. A \in SUBSET Nat
        BY <2>4 DEF OldIn
      <3> HIDE DEF A
      <3>2. QED
        BY <2>4, <3>1, PlaceTaken
    <2>8. ledger[Position(batch[i])].seq = Place(E, p)
      BY <2>4, <2>6, <2>7
    <2>9. Position(batch[i]) \in E
      <3>1. batch[i].stream = s
        BY DEF Of, OldIn
      <3>2. QED
        BY <1>2, <2>4, <3>1, PositionFound DEF EventsOf
    <2>10. Position(batch[i]) = p
      <3>1. Place(E, Position(batch[i])) = Place(E, p)
        BY <2>2, <2>8, <2>9
      <3> HIDE DEF E
      <3>2. QED
        BY <2>2, <2>3, <2>9, <3>1, PlaceInjective
    <2>11. i \in DOMAIN batch /\ P(i) = Position(batch[i])
      BY <2>4 DEF Of, OldIn
    <2>12. QED
      BY <2>10, <2>11
  <1> HIDE DEF P
  <1>4. QED
    BY <1>1, <1>2, <1>3 DEF NoUnseenEvent

(* A complete retry: consecutive events are stored consecutively, so all of a
   stream's are as far apart as in the batch. *)
LEMMA RetryAnswer ==
    ASSUME EventInv, NEW batch \in Batches, Retry(batch)
    PROVE  AnswerInLedger' /\ NoUnseenEvent'
  <1> DEFINE n == Len(ledger)
             P(i) == Position(batch[i])
             q(i) == ledger[P(i)].seq
  <1>1. answer'.batch = batch /\ answer'.from = n
        /\ (\A i \in DOMAIN batch : answer'.positions[i] = P(i)) /\ ledger' = ledger
    BY DEF Retry
  <1>2. ASSUME NEW i \in DOMAIN batch
        PROVE  /\ ledger[P(i)].stream = batch[i].stream
               /\ ledger[P(i)].key = batch[i].key
               /\ ledger[P(i)].content = batch[i].content
               /\ P(i) \in 1 .. n
               /\ q(i) \in Nat
    <2>1. Exists(batch[i]) /\ SameContent(batch)
      BY DEF Retry
    <2>2. /\ Position(batch[i]) \in 1 .. n
          /\ ledger[Position(batch[i])].stream = batch[i].stream
          /\ ledger[Position(batch[i])].key = batch[i].key
          /\ Position(batch[i]) \in WithKey(batch[i])
      BY <2>1, PositionFound
    <2>3. ledger[P(i)] \in Stored
      BY <2>2 DEF EventInv
    <2>4. QED
      BY <2>1, <2>2, <2>3 DEF SameContent, Stored
  <1>3. NoUnseenEvent'
    <2>1. n \in Nat
      BY DEF EventInv
    <2>2. \A s : \A i \in Of(batch, s) : i \in DOMAIN batch /\ ~(P(i) > n)
      BY <1>2, <2>1 DEF Of
    <2> HIDE DEF P
    <2>3. QED
      BY <1>1, <2>2 DEF NoUnseenEvent
  <1>4. ASSUME NEW s
        PROVE  \A i \in Of(batch, s) : \A j \in Of(batch, s) :
                  i < j => q(j) - q(i) = Offset(batch, j) - Offset(batch, i)
    <2> DEFINE O == Of(batch, s)
               c == Cardinality(O)
               Apart(i, j) == q(j) - q(i) = Offset(batch, j) - Offset(batch, i)
    <2>1. O \in SUBSET (DOMAIN batch) /\ O \in SUBSET Nat /\ IsFiniteSet(O) /\ c \in Nat
          /\ \A i \in O : batch[i].stream = s
      BY BatchParts, FS_CardinalityType DEF Of
    <2>2. \A i \in O : Offset(batch, i) = Place(O, i) /\ Offset(batch, i) \in 1 .. c
      BY <2>1, BatchParts, PlaceBounds
    <2> DEFINE Bad == {k \in 1 .. c : \E i \in O, j \in O : i < j /\ ~Apart(i, j) /\ Offset(batch, j) = k}
    <2>3. ASSUME Bad # {} PROVE FALSE
      <3>1. Bad \in SUBSET Nat
        BY <2>1
      <3>2. PICK k \in Bad : \A l \in Bad : k <= l
        <4> HIDE DEF Bad
        <4>1. QED
          BY <2>3, <3>1, LeastNat
      <3>3. PICK i \in O, j \in O : i < j /\ ~Apart(i, j) /\ Offset(batch, j) = k
        BY <3>2
      <3>4. k \in 1 .. c /\ Offset(batch, i) \in Nat /\ k \in Nat /\ Offset(batch, i) < k
            /\ Offset(batch, i) \in 1 .. c
        <4>1. Place(O, i) < Place(O, j)
          BY <2>1, <3>3, PlaceGrows
        <4>2. QED
          BY <2>1, <2>2, <3>3, <4>1
      <3>5. PICK h \in O : Offset(batch, h) = k - 1
        <4>1. k - 1 \in 1 .. c
          BY <2>1, <3>4
        <4>2. PICK h \in O : Place(O, h) = k - 1
          <5> HIDE DEF O
          <5>1. QED
            BY <2>1, <4>1, PlaceTaken
        <4>3. QED
          BY <2>2, <4>2
      <3>6. q(j) = q(h) + 1
        <4>1. ExistingInOrder(batch)
          BY DEF Retry
        <4>2. h \in DOMAIN batch /\ j \in DOMAIN batch /\ batch[h].stream = batch[j].stream
          BY <2>1
        <4>3. Offset(batch, j) = Offset(batch, h) + 1
          BY <3>3, <3>4, <3>5
        <4>4. QED
          BY <4>1, <4>2, <4>3 DEF ExistingInOrder
      <3>7. q(h) \in Nat /\ q(i) \in Nat
        BY <1>2, <2>1
      <3>8. q(h) - q(i) = (k - 1) - Offset(batch, i)
        <4>1. CASE h = i
          <5> HIDE DEF q
          <5>1. QED
            BY <3>4, <3>5, <3>7, <4>1
        <4>2. CASE i < h
          <5>1. ~(k <= k - 1) /\ k - 1 \in 1 .. c
            BY <2>1, <3>4
          <5>2. k - 1 \notin Bad
            BY <3>2, <5>1
          <5>3. Apart(i, h)
            BY <3>5, <4>2, <5>1, <5>2
          <5>4. QED
            BY <3>5, <5>3
        <4>3. CASE h < i
          <5>1. Place(O, h) < Place(O, i)
            BY <2>1, <4>3, PlaceGrows
          <5>2. k - 1 < Offset(batch, i)
            BY <2>2, <3>5, <5>1
          <5>3. QED
            BY <3>4, <5>2
        <4>4. QED
          BY <2>1, <4>1, <4>2, <4>3
      <3>9. Apart(i, j)
        <4> DEFINE a == q(i)
                   b == q(h)
                   o == Offset(batch, i)
        <4>1. a \in Nat /\ b \in Nat /\ o \in Nat /\ k \in Nat /\ b - a = (k - 1) - o
          BY <3>4, <3>7, <3>8
        <4> HIDE DEF a, b, o
        <4>2. (b + 1) - a = k - o
          BY <4>1
        <4>3. q(j) = b + 1
          BY <3>6 DEF b
        <4>4. QED
          BY <3>3, <4>2, <4>3 DEF a, o
      <3>10. QED
        BY <3>3, <3>9
    <2>4. QED
      BY <2>2, <2>3
  <1>5. AnswerInLedger'
    <2>1. ASSUME NEW i \in DOMAIN batch, NEW j \in DOMAIN batch,
                 batch[i].stream = batch[j].stream, i < j
          PROVE  q(j) - q(i) = Offset(batch, j) - Offset(batch, i)
      <3>1. i \in Of(batch, batch[i].stream) /\ j \in Of(batch, batch[i].stream)
        BY <2>1 DEF Of
      <3>2. QED
        BY <1>4, <2>1, <3>1
    <2> HIDE DEF P
    <2>2. QED
      BY <1>1, <1>2, <2>1 DEF AnswerInLedger
  <1>6. QED
    BY <1>3, <1>5

(* Whatever the interleaving of callers, of retries and of keys used again: every
   stream of the ledger is numbered 1, 2, 3, ... with its head at the last one and a
   key at most once (GapFree); the answer to a batch names events that are in the
   ledger as they were sent (AnswerInLedger); and a batch was appended to what its
   caller had seen (NoUnseenEvent). *)
THEOREM LedgerSafety == Spec => [](GapFree /\ AnswerInLedger /\ NoUnseenEvent)
  <1> DEFINE I == EventInv /\ AnswerInLedger /\ NoUnseenEvent
  <1>1. Init => I
    <2> SUFFICES ASSUME Init PROVE I
      OBVIOUS
    <2>1. ledger = <<>> /\ DOMAIN ledger = {} /\ heads = [s \in Streams |-> 0]
      BY DEF Init
    <2>2. \A s \in Streams : EventsOf(s) = {}
      BY <2>1 DEF EventsOf
    <2>3. GapFree
      BY <2>1, <2>2, FS_EmptySet DEF GapFree
    <2>4. ledger \in Seq(Stored) /\ heads \in [Streams -> Nat]
      BY <2>1
    <2>5. answer.batch = <<>> /\ answer.from = 0
      BY DEF Init, NoAnswer
    <2>6. AnswerInLedger /\ NoUnseenEvent
      BY <2>5 DEF AnswerInLedger, NoUnseenEvent
    <2>7. QED
      BY <2>3, <2>4, <2>6 DEF EventInv
  <1>2. I /\ [Next]_vars => I'
    <2> SUFFICES ASSUME I, [Next]_vars PROVE I'
      OBVIOUS
    <2>1. CASE UNCHANGED vars
      <3>1. ledger' = ledger /\ heads' = heads /\ answer' = answer
        BY <2>1 DEF vars
      <3>2. EventInv'
        BY <3>1 DEF EventInv, GapFree, EventsOf
      <3>3. AnswerInLedger'
        BY <3>1 DEF AnswerInLedger
      <3>4. NoUnseenEvent'
        BY <3>1 DEF NoUnseenEvent
      <3>5. QED
        BY <3>2, <3>3, <3>4
    <2>2. ASSUME NEW batch \in Batches, Retry(batch) PROVE I'
      <3>1. ledger' = ledger /\ heads' = heads
        BY <2>2 DEF Retry
      <3>2. EventInv'
        BY <3>1 DEF EventInv, GapFree, EventsOf
      <3>3. QED
        BY <2>2, <3>2, RetryAnswer
    <2>3. ASSUME NEW batch \in Batches, AppendNew(batch) PROVE I'
      <3>1. PICK expected \in Seen(batch), skew \in {0, 1} :
               /\ \A s \in StreamsOf(batch) : StreamValid(batch, expected, skew, s)
               /\ ledger' = Extended(batch, expected, skew)
               /\ heads' = [s \in Streams |-> NewHead(batch, s)]
               /\ answer' = [batch |-> batch, seen |-> expected, from |-> Len(ledger),
                             positions |-> [i \in DOMAIN batch |->
                                 IF Exists(batch[i]) THEN Position(batch[i])
                                                     ELSE Len(ledger) + Rank(batch, i)]]
        BY <2>3 DEF AppendNew
      <3>2. Appends(batch, expected, skew)
        BY <2>3, <3>1 DEF AppendNew, Appends
      <3>3. EventInv'
        BY <3>1, <3>2, AppendGapFree
      <3>4. AnswerInLedger' /\ NoUnseenEvent'
        BY <3>1, <3>2, AppendAnswer, AppendSeen
      <3>5. QED
        BY <3>3, <3>4
    <2>4. QED
      BY <2>1, <2>2, <2>3 DEF Next
  <1>3. I => GapFree /\ AnswerInLedger /\ NoUnseenEvent
    BY DEF EventInv
  <1>4. QED
    BY <1>1, <1>2, <1>3, PTL DEF Spec

(* Every stream of the ledger is numbered 1, 2, 3, ... without a gap, its head is its
   last number, and a key is stored once (append_many). *)
THEOREM GapFreeSafety == Spec => []GapFree
  BY LedgerSafety, PTL

(* The answer to a batch names events that are in the ledger as they were sent, next to
   each other in each stream (append_many, complete retries included). *)
THEOREM AnswerSafety == Spec => []AnswerInLedger
  BY LedgerSafety, PTL

(* No update is lost: a batch is appended to a stream its caller had seen up to the
   events of its own that are stored (_validate_batch_stream). *)
THEOREM SeenSafety == Spec => []NoUnseenEvent
  BY LedgerSafety, PTL
=============================================================================
