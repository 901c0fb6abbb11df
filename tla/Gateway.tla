------------------------------- MODULE Gateway -------------------------------
(***************************************************************************)
(* ModelGateway (gateway/router.py): prepare selects and freezes a route   *)
(* for a model request, invoke_prepared calls the adapter of exactly that  *)
(* route and admits its result.  Between the two the profiles may change:  *)
(* a prepared call is a value, and the gateway that is asked to make the   *)
(* call may be configured otherwise than the one that prepared it.         *)
(*                                                                         *)
(* A profile carries the declarations of its adapter, and the adapter and  *)
(* the model it names are one field.  Profiles for another capability, or  *)
(* whose adapter is not registered or lacks it, are never candidates and   *)
(* are left out of a policy.                                               *)
(***************************************************************************)
EXTENDS Integers, FiniteSets, Absent

CONSTANTS
    Policies,  \* the configurations: sets of profiles with different ids
    Amounts    \* what is estimated, budgeted, allowed and used: tokens, time and cost

Usages == {"input", "output", "cost"}

(* GatewayProfile, with the declarations of its adapter. *)
Profiles ==
    [id : Int, model : Int, priority : Int, enabled : BOOLEAN, local : BOOLEAN,
     deterministic : BOOLEAN, classification : Amounts, limit : [Usages -> Amounts],
     adapter : [local : BOOLEAN, deterministic : BOOLEAN]]

ASSUME GatewayAssumption ==
    Amounts \subseteq Nat /\ None \notin Amounts /\ None \notin {"response", "refused"}
ASSUME PolicyAssumption ==
    \A profiles \in Policies :
        /\ profiles \subseteq Profiles /\ IsFiniteSet(profiles)
        /\ \A p, q \in profiles : p.id = q.id => p = q

VARIABLES
    policy,  \* the profiles now configured
    quest    \* a request on its way: prepared route, result of the adapter, outcome

gvars == <<policy, quest>>

(* GatewayBudget, ModelRequest *)
ModelRequests ==
    [localOnly : BOOLEAN, deterministic : BOOLEAN, classification : Amounts,
     estimate : Amounts, budget : [Usages -> Amounts], latency : Amounts]

(* AdapterResult: usage that the adapter does not know is None. *)
AdapterResults ==
    [used : [Usages -> Amounts \cup {None}], latency : Amounts, deterministic : BOOLEAN,
     fits : BOOLEAN]

GatewayInit ==
    /\ policy \in Policies
    /\ quest = [pc |-> "new", request |-> None, call |-> None, profile |-> None,
                result |-> None, outcome |-> None]

----------------------------------------------------------------------------
(* The filters of _select *)
Candidate(profile, request) ==
    /\ profile.enabled
    /\ profile.local = profile.adapter.local
    /\ profile.deterministic = profile.adapter.deterministic
    /\ request.localOnly => profile.adapter.local
    /\ request.deterministic => profile.adapter.deterministic
    /\ request.classification <= profile.classification
    /\ request.estimate <= profile.limit["input"]

Candidates(request) ==
    {profile \in policy :
        request.estimate <= request.budget["input"] /\ Candidate(profile, request)}

(* The candidates are sorted by priority and id. *)
Preferred(p, q) == p.priority < q.priority \/ (p.priority = q.priority /\ p.id <= q.id)

SelectProfile(request) ==
    CHOOSE p \in Candidates(request) : \A q \in Candidates(request) : Preferred(p, q)

AtMost(x, y) == IF x <= y THEN x ELSE y

(* _effective_budget *)
EffectiveBudget(request, profile) ==
    [u \in Usages |-> AtMost(request.budget[u], profile.limit[u])]

(* prepare, as a value: the decision and the budget, None when it raises. *)
PreparedCall(request) ==
    IF Candidates(request) = {} THEN None
    ELSE LET profile == SelectProfile(request)
         IN  [id |-> profile.id, model |-> profile.model, local |-> profile.adapter.local,
              deterministic |-> profile.adapter.deterministic,
              budget |-> EffectiveBudget(request, profile)]

PrepareCall ==
    /\ quest.pc = "new"
    /\ \E request \in ModelRequests :
         LET call == PreparedCall(request)
         IN  quest' = IF call = None THEN [quest EXCEPT !.pc = "over", !.outcome = "no-route"]
                      ELSE [quest EXCEPT !.pc = "prepared", !.request = request, !.call = call]
    /\ UNCHANGED policy

(* Another configuration. *)
Reconfigure ==
    /\ quest.pc = "prepared"
    /\ policy' \in Policies
    /\ UNCHANGED quest

(* Seeded fault: the prepared route is taken at its word. *)
StillPreparedById(call, request) == \E profile \in policy : profile.id = call.id

(* invoke_prepared prepares again and compares. *)
StillPrepared(call, request) == PreparedCall(request) = call

InvokePrepared ==
    /\ quest.pc = "prepared"
    /\ quest' = IF StillPrepared(quest.call, quest.request)
                THEN [quest EXCEPT !.pc = "called",
                         !.profile = CHOOSE profile \in policy : profile.id = quest.call.id]
                ELSE [quest EXCEPT !.pc = "over", !.outcome = "prepared-call-invalid"]
    /\ UNCHANGED policy

(* The checks of invoke_prepared on what the adapter returns. *)
Within(used, limit) == used = None \/ used <= limit

Admitted(request, profile, result) ==
    /\ \A u \in Usages : /\ Within(result.used[u], request.budget[u])
                         /\ Within(result.used[u], profile.limit[u])
    /\ result.latency <= request.latency
    /\ profile.deterministic \/ request.deterministic => result.deterministic
    /\ result.fits

AdapterReturns ==
    /\ quest.pc = "called"
    /\ \E result \in AdapterResults :
         quest' = [quest EXCEPT !.pc = "over", !.result = result,
                      !.outcome = IF Admitted(quest.request, quest.profile, result)
                                  THEN "response" ELSE "refused"]
    /\ UNCHANGED policy

GatewayNext == PrepareCall \/ Reconfigure \/ InvokePrepared \/ AdapterReturns

GatewaySpec == GatewayInit /\ [][GatewayNext]_gvars

----------------------------------------------------------------------------
(* Properties *)

(* Data goes only where the policy in force at the call lets it go: to an adapter that is
   local, deterministic and cleared as far as the request needs it, with a budget that
   neither the request nor the profile exceeds and the estimate fits, and that adapter's
   profile is one that no other candidate precedes.  What comes back is admitted exactly
   when it keeps what the adapter was told. *)
GatewaySound ==
    /\ quest.pc = "called" =>
         LET request == quest.request
             profile == quest.profile
         IN  /\ profile \in policy /\ profile.enabled
             /\ profile.model = quest.call.model
             /\ request.localOnly => profile.local /\ profile.adapter.local
             /\ request.deterministic => profile.deterministic /\ profile.adapter.deterministic
             /\ request.classification <= profile.classification
             /\ request.estimate <= quest.call.budget["input"]
             /\ \A u \in Usages : quest.call.budget[u] <= request.budget[u]
                                  /\ quest.call.budget[u] <= profile.limit[u]
             /\ ~\E other \in policy :
                   Candidate(other, request) /\ other.priority < profile.priority
    /\ quest.outcome \in {"response", "refused"} =>
         (quest.outcome = "response" <=>
            /\ \A u \in Usages : Within(quest.result.used[u], quest.call.budget[u])
            /\ quest.result.latency <= quest.request.latency
            /\ quest.call.deterministic => quest.result.deterministic
            /\ quest.result.fits)
=============================================================================
