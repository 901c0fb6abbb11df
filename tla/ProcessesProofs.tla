-------------------------- MODULE ProcessesProofs --------------------------
(***************************************************************************)
(* Proofs about the processes of the host: the daemon with the workers it  *)
(* spawns, a bounded command, and the model gateway that a worker calls.   *)
(***************************************************************************)
EXTENDS Daemon, BoundedProcess, Gateway, TLAPS, FiniteSetTheorems, WellFoundedInduction

----------------------------------------------------------------------------
(* Daemons and their workers *)

Busy == {"starting", "reconciling", "serving"}
Children == [Index -> Busy \cup {"none", "gone"}]

DaemonStates ==
    [pc : {"off", "spawning", "watching", "stopping", "waiting", "killing", "ended"},
     next : Nat, stop : BOOLEAN, stale : SUBSET Index,
     result : {None, "startup-failed", "stopped", "component-exit", "cleanup-failed", "killed"}]

(* What a daemon in state x knows of its children c: the ones it has waited for in vain
   are stale, and at the end no other is left. *)
Watched(x, c) ==
    /\ x.pc = "waiting" => /\ x.next \in Index
                           /\ \A i \in Index : i < x.next /\ c[i] \in Busy => i \in x.stale
    /\ x.pc = "killing" => \A i \in Index : c[i] \in Busy => i \in x.stale
    /\ x.pc = "ended" /\ x.result \notin {"cleanup-failed", "killed"} =>
          \A i \in Index : c[i] \notin Busy

(* A worker at work holds the lock of its role. *)
LocksHeld(cs, ls) ==
    \A d \in Daemons, i \in Index :
        Components[i] # "api" /\ cs[d][i] \in {"reconciling", "serving"}
        => ls[Components[i]] = <<d, i>>

DaemonInv ==
    /\ daemon \in [Daemons -> DaemonStates]
    /\ child \in [Daemons -> Children]
    /\ locks \in [Roles -> (Daemons \X Index) \cup {None}]
    /\ \A d \in Daemons : Watched(daemon[d], child[d])
    /\ LocksHeld(child, locks)

LEMMA IndexRange ==
    /\ Len(Components) \in Nat /\ Len(Components) >= 1
    /\ Index \subseteq Nat /\ 1 \in Index
    /\ \A i \in Index : i # Len(Components) => i + 1 \in Index
    /\ \A i \in Index : i <= Len(Components) /\ i >= 1
    /\ \A i \in Index : Components[i] # "api" => Components[i] \in Roles
  BY DaemonAssumption DEF Index, Roles

LEMMA DaemonStarts == DaemonInit => DaemonInv
  <1> SUFFICES ASSUME DaemonInit PROVE DaemonInv
    OBVIOUS
  <1> DEFINE x == [pc |-> "off", next |-> 1, stop |-> FALSE, stale |-> {}, result |-> None]
             c == [i \in Index |-> "none"]
  <1>1. x \in DaemonStates /\ c \in Children /\ Watched(x, c)
    BY DEF DaemonStates, Children, Watched
  <1>2. \A i \in Index : c[i] = "none"
    OBVIOUS
  <1>3. /\ daemon = [d \in Daemons |-> x] /\ child = [d \in Daemons |-> c]
        /\ locks = [r \in Roles |-> None]
    BY DEF DaemonInit
  <1> HIDE DEF x, c
  <1>4. QED
    BY <1>1, <1>2, <1>3 DEF DaemonInv, LocksHeld

(* One daemon and its children move. *)
LEMMA DaemonMoves ==
    ASSUME DaemonInv, NEW d \in Daemons, NEW x \in DaemonStates, NEW c \in Children,
           daemon' = [daemon EXCEPT ![d] = x], child' = [child EXCEPT ![d] = c],
           Watched(x, c), locks' \in [Roles -> (Daemons \X Index) \cup {None}],
           LocksHeld(child', locks')
    PROVE  DaemonInv'
  BY DEF DaemonInv

(* No child starts to work. *)
LEMMA NoneStarts ==
    ASSUME DaemonInv, NEW d \in Daemons, NEW x \in DaemonStates, Watched(x, child[d]),
           daemon' = [daemon EXCEPT ![d] = x], UNCHANGED <<child, locks>>
    PROVE  DaemonInv'
  <1>1. child[d] \in Children /\ child' = [child EXCEPT ![d] = child[d]]
    BY DEF DaemonInv
  <1>2. QED
    BY <1>1, DaemonMoves DEF DaemonInv

(* A child ends and gives back its lock. *)
LEMMA OneEnds ==
    ASSUME DaemonInv, NEW d \in Daemons, NEW i, NEW x \in DaemonStates,
           daemon' = [daemon EXCEPT ![d] = x],
           child' = [child EXCEPT ![d][i] = "gone"], locks' = ReleasedBy(d, i),
           Watched(x, [child[d] EXCEPT ![i] = "gone"])
    PROVE  DaemonInv'
  <1> DEFINE c == [child[d] EXCEPT ![i] = "gone"]
  <1>1. c \in Children /\ child' = [child EXCEPT ![d] = c]
    BY DEF DaemonInv, Children
  <1>2. locks' \in [Roles -> (Daemons \X Index) \cup {None}]
    BY DEF DaemonInv, ReleasedBy
  <1>3. ASSUME NEW e \in Daemons, NEW j \in Index,
               Components[j] # "api", child'[e][j] \in {"reconciling", "serving"}
        PROVE  locks'[Components[j]] = <<e, j>>
    <2>1. child[e] \in Children /\ child[d] \in Children
      BY DEF DaemonInv
    <2>2. child[e][j] = child'[e][j] /\ (e # d \/ j # i)
      BY <1>1, <1>3, <2>1 DEF DaemonInv, Children
    <2>3. locks[Components[j]] = <<e, j>>
      BY <1>3, <2>2 DEF DaemonInv, LocksHeld
    <2>4. <<e, j>> # <<d, i>>
      BY <2>2
    <2>5. QED
      BY <1>3, <2>3, <2>4, IndexRange DEF ReleasedBy
  <1> HIDE DEF c
  <1>4. LocksHeld(child', locks')
    BY <1>3 DEF LocksHeld
  <1>5. QED
    BY <1>1, <1>2, <1>4, DaemonMoves DEF c

LEMMA DaemonSteps == DaemonInv /\ [DaemonNext]_dvars => DaemonInv'
  <1> SUFFICES ASSUME DaemonInv, [DaemonNext]_dvars PROVE DaemonInv'
    OBVIOUS
  <1>1. CASE UNCHANGED dvars
    BY <1>1 DEF dvars, DaemonInv
  <1>2. ASSUME NEW d \in Daemons,
               StartDaemon(d) \/ RequestStop(d) \/ DaemonStep(d) \/ DaemonKilled(d)
        PROVE  DaemonInv'
    <2> DEFINE x == daemon[d]
    <2>a. x \in DaemonStates /\ child[d] \in Children /\ Watched(x, child[d])
      BY DEF DaemonInv
    <2>1. CASE StartDaemon(d)
      <3> DEFINE y == [x EXCEPT !.pc = "spawning"]
      <3>1. y \in DaemonStates /\ y.pc = "spawning" /\ daemon' = [daemon EXCEPT ![d] = y]
        BY <2>1, <2>a DEF StartDaemon, DaemonStates, DaemonInv
      <3> HIDE DEF y
      <3>2. QED
        BY <2>1, <3>1, NoneStarts DEF StartDaemon, Watched
    <2>2. CASE RequestStop(d)
      <3> DEFINE y == [x EXCEPT !.stop = TRUE]
      <3>1. /\ y \in DaemonStates /\ y.pc \in {"spawning", "watching"}
            /\ daemon' = [daemon EXCEPT ![d] = y]
        BY <2>2, <2>a DEF RequestStop, DaemonStates, DaemonInv
      <3> HIDE DEF y
      <3>2. QED
        BY <2>2, <3>1, NoneStarts DEF RequestStop, Watched
    <2>3. CASE Spawn(d)
      <3>0. locks' = locks /\ x.pc = "spawning"
        BY <2>3 DEF Spawn
      <3>1. CASE /\ child' = [child EXCEPT ![d][x.next] = "starting"]
                 /\ daemon' = [daemon EXCEPT ![d].next = x.next + 1,
                         ![d].pc = IF x.next = Len(Components) THEN "watching" ELSE @]
        <4> DEFINE pc == IF x.next = Len(Components) THEN "watching" ELSE x.pc
                   y == [x EXCEPT !.next = x.next + 1, !.pc = pc]
                   c == [child[d] EXCEPT ![x.next] = "starting"]
        <4>0. pc \in {"spawning", "watching"}
          BY <3>0
        <4>1. /\ y \in DaemonStates /\ y.pc \in {"spawning", "watching"}
              /\ daemon' = [daemon EXCEPT ![d] = y]
          <5>1. daemon' = [daemon EXCEPT ![d] = y]
            <6>1. CASE x.next = Len(Components)
              BY <3>1, <6>1 DEF DaemonInv
            <6>2. CASE x.next # Len(Components)
              <7>1. daemon' = [daemon EXCEPT ![d].next = x.next + 1, ![d].pc = @]
                BY <3>1, <6>2
              <7>2. QED
                BY <6>2, <7>1, <2>a DEF DaemonInv, DaemonStates
            <6>3. QED
              BY <6>1, <6>2
          <5>2. x.next \in Nat
            BY <2>a DEF DaemonStates
          <5> DEFINE n == x.next + 1
          <5>3. n \in Nat /\ y = [x EXCEPT !.next = n, !.pc = pc]
            BY <5>2
          <5> HIDE DEF pc, n, y
          <5>4. QED
            BY <2>a, <4>0, <5>1, <5>3 DEF DaemonStates
        <4>2. /\ c \in Children /\ child' = [child EXCEPT ![d] = c]
              /\ \A i \in Index : c[i] = child[d][i] \/ c[i] = "starting"
          BY <2>a, <3>1 DEF DaemonInv, Children, Busy
        <4> HIDE DEF y, c
        <4>3. LocksHeld(child', locks')
          <5>1. ASSUME NEW e \in Daemons, NEW i \in Index,
                       child'[e][i] \in {"reconciling", "serving"}
                PROVE  child[e][i] = child'[e][i]
            BY <4>2, <5>1 DEF DaemonInv
          <5>2. QED
            BY <3>0, <5>1 DEF LocksHeld, DaemonInv
        <4>4. Watched(y, c)
          BY <4>1 DEF Watched
        <4>5. QED
          BY <3>0, <4>1, <4>2, <4>3, <4>4, DaemonMoves DEF DaemonInv
      <3>2. CASE /\ daemon' = [daemon EXCEPT ![d].pc = "stopping", ![d].result = "startup-failed"]
                 /\ UNCHANGED child
        <4> DEFINE y == [x EXCEPT !.pc = "stopping", !.result = "startup-failed"]
        <4>1. y \in DaemonStates /\ y.pc = "stopping" /\ daemon' = [daemon EXCEPT ![d] = y]
          BY <2>a, <3>2 DEF DaemonStates, DaemonInv
        <4> HIDE DEF y
        <4>2. QED
          BY <3>0, <3>2, <4>1, NoneStarts DEF Watched
      <3>3. QED
        BY <2>3, <3>1, <3>2 DEF Spawn
    <2>4. CASE Watch(d)
      <3>1. PICK result \in {"stopped", "component-exit"} :
               daemon' = [daemon EXCEPT ![d].pc = "stopping", ![d].result = result]
        BY <2>4 DEF Watch
      <3> DEFINE y == [x EXCEPT !.pc = "stopping", !.result = result]
      <3>2. y \in DaemonStates /\ y.pc = "stopping" /\ daemon' = [daemon EXCEPT ![d] = y]
        BY <2>a, <3>1 DEF DaemonStates, DaemonInv
      <3> HIDE DEF y
      <3>3. QED
        BY <2>4, <3>2, NoneStarts DEF Watch, Watched
    <2>5. CASE TerminateChildren(d)
      <3> DEFINE y == [x EXCEPT !.pc = "waiting", !.stale = {}, !.next = 1]
      <3>1. /\ y \in DaemonStates /\ y.pc = "waiting" /\ y.next = 1
            /\ daemon' = [daemon EXCEPT ![d] = y]
        BY <2>5, <2>a DEF TerminateChildren, DaemonStates, DaemonInv
      <3> HIDE DEF y
      <3>2. Watched(y, child[d])
        BY <3>1, IndexRange DEF Watched
      <3>3. QED
        BY <2>5, <3>1, <3>2, NoneStarts DEF TerminateChildren
    <2>6. CASE WaitChild(d)
      <3> DEFINE i == x.next
                 stale == IF Running(d, i) THEN x.stale \cup {i} ELSE x.stale
                 pc == IF i = Len(Components) THEN "killing" ELSE x.pc
                 y == [x EXCEPT !.stale = stale, !.next = i + 1, !.pc = pc]
      <3>1. x.pc = "waiting" /\ i \in Index /\ i \in Nat
        BY <2>6, <2>a, IndexRange DEF WaitChild, Watched
      <3>2. stale \in SUBSET Index /\ x.stale \subseteq stale
            /\ (child[d][i] \in Busy => i \in stale)
        BY <2>a, <3>1 DEF Running, Busy, DaemonStates
      <3>3. daemon' = [daemon EXCEPT ![d] = y]
        <4>0. daemon' = [daemon EXCEPT ![d].stale = stale, ![d].next = i + 1,
                             ![d].pc = IF i = Len(Components) THEN "killing" ELSE @]
          BY <2>6, Zenon DEF WaitChild
        <4> HIDE DEF stale
        <4>1. CASE i = Len(Components)
          BY <4>0, <4>1 DEF DaemonInv
        <4>2. CASE i # Len(Components)
          <5>1. daemon' = [daemon EXCEPT ![d].stale = stale, ![d].next = i + 1, ![d].pc = @]
            BY <4>0, <4>2
          <5>2. QED
            BY <4>2, <5>1, <2>a DEF DaemonInv, DaemonStates
        <4>3. QED
          BY <4>1, <4>2
      <3> HIDE DEF stale
      <3>4. /\ y \in DaemonStates /\ y.stale = stale /\ y.next = i + 1
            /\ y.pc = IF i = Len(Components) THEN "killing" ELSE "waiting"
        <4> DEFINE n == i + 1
        <4>1. n \in Nat /\ pc \in {"killing", "waiting"} /\ y = [x EXCEPT !.stale = stale, !.next = n, !.pc = pc]
          BY <3>1
        <4>2. pc = IF i = Len(Components) THEN "killing" ELSE "waiting"
          BY <3>1
        <4> HIDE DEF pc, n, y
        <4>3. y \in DaemonStates /\ y.stale = stale /\ y.next = n /\ y.pc = pc
          BY <2>a, <3>2, <4>1 DEF DaemonStates
        <4>4. QED
          BY <4>2, <4>3 DEF n
      <3> HIDE DEF y, pc
      <3>5. \A j \in Index : j <= i /\ child[d][j] \in Busy => j \in stale
        BY <2>a, <3>1, <3>2, IndexRange DEF Watched
      <3>6. Watched(y, child[d])
        <4>1. CASE i = Len(Components)
          BY <3>4, <3>5, <4>1, IndexRange DEF Watched
        <4>2. CASE i # Len(Components)
          BY <3>1, <3>4, <3>5, <4>2, IndexRange DEF Watched
        <4>3. QED
          BY <4>1, <4>2
      <3>7. QED
        BY <2>6, <3>3, <3>4, <3>6, NoneStarts DEF WaitChild
    <2>7. CASE KillStale(d)
      <3>0. x.pc = "killing"
        BY <2>7 DEF KillStale
      <3>1. CASE x.stale = {}
        <4> DEFINE y == [x EXCEPT !.pc = "ended"]
        <4>1. /\ y \in DaemonStates /\ y.pc = "ended" /\ daemon' = [daemon EXCEPT ![d] = y]
          BY <2>7, <2>a, <3>1 DEF KillStale, DaemonStates, DaemonInv
        <4> HIDE DEF y
        <4>2. Watched(y, child[d])
          BY <2>a, <3>0, <3>1, <4>1 DEF Watched
        <4>3. QED
          BY <2>7, <3>1, <4>1, <4>2, NoneStarts DEF KillStale
      <3>2. CASE x.stale # {}
        <4> DEFINE i == CHOOSE j \in x.stale : \A k \in x.stale : j <= k
        <4>1. \/ /\ child' = [child EXCEPT ![d][i] = "gone"]
                 /\ locks' = ReleasedBy(d, i)
                 /\ daemon' = [daemon EXCEPT ![d].stale = @ \ {i}]
              \/ /\ daemon' = [daemon EXCEPT ![d].pc = "ended", ![d].result = "cleanup-failed"]
                 /\ UNCHANGED <<child, locks>>
          BY <2>7, <3>2 DEF KillStale
        <4> HIDE DEF i
        <4>2. CASE /\ child' = [child EXCEPT ![d][i] = "gone"]
                   /\ locks' = ReleasedBy(d, i)
                   /\ daemon' = [daemon EXCEPT ![d].stale = @ \ {i}]
          <5> DEFINE y == [x EXCEPT !.stale = @ \ {i}]
          <5>1. /\ y \in DaemonStates /\ y.pc = "killing" /\ y.stale = x.stale \ {i}
                /\ daemon' = [daemon EXCEPT ![d] = y]
            BY <2>a, <3>0, <4>2 DEF DaemonStates, DaemonInv
          <5> HIDE DEF y
          <5>2. Watched(y, [child[d] EXCEPT ![i] = "gone"])
            BY <2>a, <3>0, <5>1 DEF Watched, Busy, Children
          <5>3. QED
            BY <4>2, <5>1, <5>2, OneEnds
        <4>3. CASE /\ daemon' = [daemon EXCEPT ![d].pc = "ended", ![d].result = "cleanup-failed"]
                   /\ UNCHANGED <<child, locks>>
          <5> DEFINE y == [x EXCEPT !.pc = "ended", !.result = "cleanup-failed"]
          <5>1. /\ y \in DaemonStates /\ y.pc = "ended" /\ y.result = "cleanup-failed"
                /\ daemon' = [daemon EXCEPT ![d] = y]
            BY <2>a, <4>3 DEF DaemonStates, DaemonInv
          <5> HIDE DEF y
          <5>2. QED
            BY <4>3, <5>1, NoneStarts DEF Watched
        <4>4. QED
          BY <4>1, <4>2, <4>3
      <3>3. QED
        BY <3>1, <3>2
    <2>8. CASE DaemonKilled(d)
      <3> DEFINE y == [x EXCEPT !.pc = "ended", !.result = "killed"]
      <3>1. /\ y \in DaemonStates /\ y.pc = "ended" /\ y.result = "killed"
            /\ daemon' = [daemon EXCEPT ![d] = y]
        BY <2>8, <2>a DEF DaemonKilled, DaemonStates, DaemonInv
      <3> HIDE DEF y
      <3>2. QED
        BY <2>8, <3>1, NoneStarts DEF DaemonKilled, Watched
    <2>9. QED
      BY <1>2, <2>1, <2>2, <2>3, <2>4, <2>5, <2>6, <2>7, <2>8 DEF DaemonStep
  <1>3. ASSUME NEW d \in Daemons, NEW i \in Index, Boot(d, i) \/ Reconciled(d, i) \/ ChildEnds(d, i)
        PROVE  DaemonInv'
    <2> DEFINE x == daemon[d]
    <2>a. x \in DaemonStates /\ child[d] \in Children /\ Watched(x, child[d])
      BY DEF DaemonInv
    <2>b. daemon' = daemon /\ daemon' = [daemon EXCEPT ![d] = x]
      BY <1>3 DEF Boot, Reconciled, ChildEnds, DaemonInv
    (* A child that works ends, or goes on to something else that is work. *)
    <2>c. ASSUME NEW state \in Busy \cup {"gone"}, child[d][i] \in Busy
          PROVE  /\ [child[d] EXCEPT ![i] = state] \in Children
                 /\ Watched(x, [child[d] EXCEPT ![i] = state])
      BY <2>a, <2>c DEF Watched, Children, Busy
    <2>1. CASE ChildEnds(d, i)
      BY <2>1, <2>a, <2>b, <2>c, OneEnds DEF ChildEnds, Running, Busy
    <2>2. ASSUME NEW state \in Busy \cup {"gone"}, child[d][i] \in Busy,
                 child' = [child EXCEPT ![d][i] = state], LocksHeld(child', locks'),
                 locks' \in [Roles -> (Daemons \X Index) \cup {None}]
          PROVE  DaemonInv'
      <3> DEFINE c == [child[d] EXCEPT ![i] = state]
      <3>1. child' = [child EXCEPT ![d] = c] /\ c \in Children /\ Watched(x, c)
        BY <2>2, <2>c DEF DaemonInv
      <3> HIDE DEF c
      <3>2. QED
        BY <2>2, <2>a, <2>b, <3>1, DaemonMoves
    <2>3. CASE Boot(d, i)
      <3>0. child[d][i] = "starting" /\ child[d][i] \in Busy
        BY <2>3 DEF Boot, Busy
      <3>1. CASE Components[i] = "api" \/ locks[Components[i]] # None
        <4>1. PICK state \in {"serving", "gone"} :
                 /\ child' = [child EXCEPT ![d][i] = state] /\ locks' = locks
                 /\ state = "serving" => Components[i] = "api"
          BY <2>3, <3>1 DEF Boot
        <4>2. LocksHeld(child', locks')
          <5>1. ASSUME NEW e \in Daemons, NEW j \in Index, Components[j] # "api",
                       child'[e][j] \in {"reconciling", "serving"}
                PROVE  child[e][j] = child'[e][j]
            BY <4>1, <5>1 DEF DaemonInv, Children
          <5>2. QED
            BY <4>1, <5>1 DEF LocksHeld, DaemonInv
        <4>3. QED
          BY <2>2, <3>0, <4>1, <4>2 DEF DaemonInv, Busy
      <3>2. CASE Components[i] # "api" /\ locks[Components[i]] = None
        <4>1. /\ child' = [child EXCEPT ![d][i] = "reconciling"]
              /\ locks' = [locks EXCEPT ![Components[i]] = <<d, i>>]
          BY <2>3, <3>2 DEF Boot
        <4>2. LocksHeld(child', locks')
          <5>1. ASSUME NEW e \in Daemons, NEW j \in Index, Components[j] # "api",
                       child'[e][j] \in {"reconciling", "serving"}, ~(e = d /\ j = i)
                PROVE  locks'[Components[j]] = <<e, j>>
            <6>1. child[e][j] = child'[e][j]
              BY <4>1, <5>1 DEF DaemonInv, Children
            <6>2. locks[Components[j]] = <<e, j>>
              BY <5>1, <6>1 DEF LocksHeld, DaemonInv
            <6>3. <<e, j>> # None
              BY DaemonAssumption, IndexRange
            <6>4. Components[j] # Components[i]
              BY <3>2, <6>2, <6>3
            <6>5. QED
              BY <4>1, <5>1, <6>2, <6>4, IndexRange DEF DaemonInv
          <5>2. locks'[Components[i]] = <<d, i>>
            BY <3>2, <4>1, IndexRange DEF DaemonInv
          <5>3. QED
            BY <5>1, <5>2 DEF LocksHeld
        <4>3. locks' \in [Roles -> (Daemons \X Index) \cup {None}]
          BY <4>1 DEF DaemonInv
        <4>4. QED
          BY <2>2, <3>0, <4>1, <4>2, <4>3 DEF Busy
      <3>3. QED
        BY <3>1, <3>2
    <2>4. CASE Reconciled(d, i)
      <3>1. /\ child[d][i] = "reconciling" /\ child' = [child EXCEPT ![d][i] = "serving"]
            /\ locks' = locks
        BY <2>4 DEF Reconciled
      <3>2. LocksHeld(child', locks')
        <4>1. ASSUME NEW e \in Daemons, NEW j \in Index,
                     child'[e][j] \in {"reconciling", "serving"}
              PROVE  child[e][j] \in {"reconciling", "serving"}
          BY <3>1, <4>1 DEF DaemonInv, Children
        <4>2. QED
          BY <3>1, <4>1 DEF LocksHeld, DaemonInv
      <3>3. QED
        BY <2>2, <3>1, <3>2 DEF DaemonInv, Busy
    <2>5. QED
      BY <1>3, <2>1, <2>3, <2>4
  <1>4. QED
    BY <1>1, <1>2, <1>3 DEF DaemonNext

(* However many daemons are started on one data directory, whatever fails and whichever is
   killed: at most one worker of a role is at work when one reconciles, and a daemon that
   returns leaves no component, unless it says so. *)
THEOREM DaemonSafety == DaemonSpec => []OneWorkerPerRole
  <1>1. DaemonInv => OneWorkerPerRole
    <2> SUFFICES ASSUME DaemonInv PROVE OneWorkerPerRole
      OBVIOUS
    <2>1. ASSUME NEW d \in Daemons, NEW e \in Daemons, NEW i \in Index, Components[i] # "api",
                 child[d][i] = "reconciling", child[e][i] \in {"reconciling", "serving"}
          PROVE  d = e
      <3>1. locks[Components[i]] = <<d, i>> /\ locks[Components[i]] = <<e, i>>
        BY <2>1 DEF DaemonInv, LocksHeld
      <3>2. <<d, i>> = <<e, i>>
        BY <3>1
      <3>3. QED
        BY <3>2
    <2>2. QED
      BY <2>1 DEF DaemonInv, OneWorkerPerRole, Watched, Running, Busy
  <1>2. QED
    BY <1>1, DaemonStarts, DaemonSteps, PTL DEF DaemonSpec

----------------------------------------------------------------------------
(* A bounded command *)

MemberStates ==
    [status : {"unborn", "running", "dying", "zombie", "escaped", "gone"},
     holds : SUBSET Pipes, stubborn : BOOLEAN]
DrainStates ==
    [written : Nat, total : Nat, captured : Nat, state : {"none", "alive", "complete"}]
CallStates ==
    [pc : {"off", "poll", "terminate", "waiting", "force", "waiting-forced", "join",
           "force-drained", "waiting-drained", "close", "ended"},
     cause : {None, "canceled", "timed-out", "callback-failed"},
     outcome : {None, "spawn-failed", "canceled", "timed-out", "output-incomplete",
                "output-too-large", "result"}]

(* InGroup, Held, and what is left of the processes ms. *)
Group(ms) == {m \in Members : ms[m].status \in {"running", "dying", "zombie"}}
Holding(ms, p) ==
    \E m \in Members : ms[m].status \in {"running", "dying", "escaped"} /\ p \in ms[m].holds
NoneRunning(ms) == \A m \in Members : ms[m].status # "running"

(* Only the leader waits to be reaped, and only the child leaves the session. *)
Lives(ms) ==
    /\ ms \in [Members -> MemberStates]
    /\ ms["leader"].status # "escaped" /\ ms["child"].status # "zombie"

(* A thread that has ended has read all there is and ever will be. *)
Drained(ms, p, d) ==
    /\ d \in DrainStates
    /\ d.captured = IF d.total <= StreamLimit THEN d.total ELSE StreamLimit
    /\ d.state = "complete" => d.total = d.written /\ ~Holding(ms, p)

(* What run knows of the processes, by where it is. *)
Supervised(ms, c) ==
    /\ c.pc \in {"off", "poll"} => c.cause = None
    /\ c.pc \notin {"off", "ended"} => ms["leader"].status # "unborn"
    /\ c.pc \in {"waiting-forced", "waiting-drained"} => NoneRunning(ms)
    /\ c.pc = "join" => ms["leader"].status = "gone"
    /\ c.pc = "join" /\ c.cause # None => Group(ms) = {}
    /\ c.pc = "close" => Group(ms) = {}

BoundedInv ==
    /\ Lives(member)
    /\ drains \in [Pipes -> DrainStates]
    /\ \A p \in Pipes : Drained(member, p, drains[p])
    /\ call \in CallStates
    /\ Supervised(member, call)
    /\ NothingLeftRunning

(* The processes only become less: nothing that was over comes back. *)
Lessens(ms, ns) ==
    /\ Lives(ns)
    /\ \A p \in Pipes : Holding(ns, p) => Holding(ms, p)
    /\ NoneRunning(ms) => NoneRunning(ns)
    /\ ms["leader"].status = "gone" => ns["leader"].status = "gone"
    /\ ms["leader"].status # "unborn" => ns["leader"].status # "unborn"
    /\ Group(ms) = {} => Group(ns) = {}

LEMMA TwoMembers ==
    Members = {"leader", "child"} /\ "leader" \in Members /\ "child" \in Members
  BY DEF Members

LEMMA CommandLessens ==
    ASSUME Lives(member), Command
    PROVE  \/ Lessens(member, member') /\ UNCHANGED <<drains, call>>
           \/ \E m \in Members, p \in Pipes : Write(m, p)
  <1>1. ASSUME NEW m \in Members, NEW p \in Pipes, CloseEnd(m, p)
        PROVE  Lessens(member, member')
    BY <1>1 DEF CloseEnd, CanAct, Lessens, Lives, MemberStates, Holding, NoneRunning, Group, Members
  <1>2. CASE Fork
    <2>1. PICK stubborn \in BOOLEAN :
             member' = [member EXCEPT !["child"] = [status |-> "running", stubborn |-> stubborn,
                                                    holds |-> member["leader"].holds]]
      BY <1>2 DEF Fork
    <2>2. /\ member["leader"].status = "running" /\ member'["leader"] = member["leader"]
          /\ member'["child"].holds = member["leader"].holds
          /\ member'["child"].status = "running"
      BY <1>2, <2>1, TwoMembers DEF Fork, Lives
    <2>3. Lives(member')
      <3>1. member["leader"].holds \in SUBSET Pipes
        BY TwoMembers DEF Lives, MemberStates
      <3>2. [status |-> "running", stubborn |-> stubborn, holds |-> member["leader"].holds]
               \in MemberStates
        BY <3>1 DEF MemberStates
      <3>3. member' \in [Members -> MemberStates]
        BY <2>1, <3>2 DEF Lives
      <3>4. QED
        BY <2>2, <3>3 DEF Lives
    <2>4. \A p \in Pipes : Holding(member', p) => Holding(member, p)
      BY <2>2, TwoMembers DEF Holding
    <2>5. "leader" \in Group(member) /\ ~NoneRunning(member)
      BY <2>2, TwoMembers DEF NoneRunning, Group
    <2>6. QED
      BY <1>2, <2>2, <2>3, <2>4, <2>5 DEF Lessens, Fork
  <1>3. CASE Escape
    <2>1. /\ member'["leader"] = member["leader"] /\ member["child"].status = "running"
          /\ member'["child"].holds = member["child"].holds
          /\ member'["child"].status = "escaped"
      BY <1>3, TwoMembers DEF Escape, Lives, MemberStates
    <2>2. Lives(member')
      <3>1. [member["child"] EXCEPT !.status = "escaped"] \in MemberStates
        BY TwoMembers DEF Lives, MemberStates
      <3>2. member' = [member EXCEPT !["child"] = [member["child"] EXCEPT !.status = "escaped"]]
        BY <1>3 DEF Escape
      <3>3. QED
        BY <2>1, <3>1, <3>2, TwoMembers DEF Lives
    <2>3. \A p \in Pipes : Holding(member', p) => Holding(member, p)
      BY <2>1, TwoMembers DEF Holding
    <2>4. "child" \in Group(member) /\ ~NoneRunning(member)
      BY <2>1, TwoMembers DEF NoneRunning, Group
    <2>5. QED
      BY <1>3, <2>1, <2>2, <2>3, <2>4 DEF Lessens, Escape
  <1>4. ASSUME NEW m \in Members, Exit(m)
        PROVE  Lessens(member, member')
    <2>1. /\ member[m].status \in {"running", "dying", "escaped"}
          /\ member'[m].status = IF m = "leader" THEN "zombie" ELSE "gone"
          /\ member'[m].holds = {}
          /\ \A n \in Members : n # m => member'[n] = member[n]
      BY <1>4, TwoMembers DEF Exit, Lives, MemberStates
    <2>2. Lives(member')
      BY <1>4, <2>1, TwoMembers DEF Lives, MemberStates, Exit
    <2>3. \A p \in Pipes : Holding(member', p) => Holding(member, p)
      BY <2>1, TwoMembers DEF Holding
    <2>4. QED
      BY <2>1, <2>2, <2>3, TwoMembers DEF Lessens, NoneRunning, Group, Lives
  <1>5. QED
    BY <1>1, <1>2, <1>3, <1>4 DEF Command, CloseEnd, Fork, Escape, Exit

(* killpg and the reaping of the leader *)
LEMMA SignalLessens ==
    ASSUME Lives(member), NEW force \in BOOLEAN
    PROVE  /\ Lessens(member, Signalled(force))
           /\ force => NoneRunning(Signalled(force))
  <1> DEFINE ns == Signalled(force)
  <1>1. \A m \in Members : ns[m] = member[m] \/ (member[m].status = "running"
                                               /\ ns[m] = [member[m] EXCEPT !.status = "dying"])
    BY DEF Signalled
  <1>2. \A m \in Members : force => ns[m].status # "running"
    BY DEF Signalled, Lives, MemberStates
  <1>3. ns \in [Members -> MemberStates]
    BY DEF Signalled, Lives, MemberStates
  <1> HIDE DEF ns
  <1>4. \A m \in Members : /\ ns[m].holds = member[m].holds
                           /\ \/ ns[m].status = member[m].status
                              \/ member[m].status = "running" /\ ns[m].status = "dying"
    BY <1>1 DEF Lives, MemberStates
  <1>5. Lives(ns)
    BY <1>3, <1>4, TwoMembers DEF Lives
  <1>6. \A p \in Pipes : Holding(ns, p) => Holding(member, p)
    BY <1>4 DEF Holding
  <1>7. QED
    BY <1>2, <1>4, <1>5, <1>6, TwoMembers DEF ns, Lessens, NoneRunning, Group

LEMMA ReapLessens ==
    ASSUME Lives(member)
    PROVE  /\ Lessens(member, Reaped(member))
           /\ member["leader"].status = "zombie" => Reaped(member)["leader"].status = "gone"
           /\ GroupGone => Group(Reaped(member)) = {}
  <1> DEFINE ns == Reaped(member)
  <1>1. /\ ns["child"] = member["child"] /\ ns["leader"].holds = member["leader"].holds
        /\ ns["leader"].status = IF member["leader"].status = "zombie" THEN "gone"
                                 ELSE member["leader"].status
        /\ ns \in [Members -> MemberStates]
    BY TwoMembers DEF Reaped, Lives, MemberStates
  <1> HIDE DEF ns
  <1>2. Lives(ns)
    BY <1>1 DEF Lives
  <1>3. \A p \in Pipes : Holding(ns, p) => Holding(member, p)
    BY <1>1, TwoMembers DEF Holding
  <1>4. GroupGone => Group(ns) = {}
    BY <1>1, TwoMembers DEF GroupGone, InGroup, Group, Lives
  <1>5. QED
    BY <1>1, <1>2, <1>3, <1>4, TwoMembers DEF ns, Lessens, NoneRunning, Group

LEMMA BoundedStarts == ProcessInit => BoundedInv
  <1> SUFFICES ASSUME ProcessInit PROVE BoundedInv
    OBVIOUS
  <1>1. Lives(member)
    BY TwoMembers DEF ProcessInit, Lives, MemberStates
  <1>2. drains \in [Pipes -> DrainStates] /\ \A p \in Pipes : Drained(member, p, drains[p])
    BY BoundedAssumption DEF ProcessInit, DrainStates, Drained
  <1>3. call \in CallStates /\ call.pc = "off" /\ call.outcome = None /\ call.cause = None
    BY DEF ProcessInit, CallStates
  <1>4. QED
    BY <1>1, <1>2, <1>3 DEF BoundedInv, Supervised, NothingLeftRunning

(* What a step of run leaves to show once the processes are known to have lessened. *)
LEMMA CallMoves ==
    ASSUME BoundedInv, Lessens(member, member'), UNCHANGED drains,
           call' \in CallStates, Supervised(member', call'), NothingLeftRunning'
    PROVE  BoundedInv'
  BY DEF BoundedInv, Lessens, Drained

LEMMA EmptyGroup ==
    ASSUME NEW ms, Group(ms) = {}
    PROVE  NoneRunning(ms)
  <1>1. \A m \in Members : ms[m].status = "running" => m \in Group(ms)
    BY DEF Group
  <1>2. QED
    BY <1>1 DEF NoneRunning

LEMMA SameLessens == ASSUME Lives(member) PROVE Lessens(member, member)
  BY DEF Lessens

LEMMA BoundedSteps == BoundedInv /\ [ProcessNext]_bpvars => BoundedInv'
  <1> SUFFICES ASSUME BoundedInv, [ProcessNext]_bpvars PROVE BoundedInv'
    OBVIOUS
  <1>a. /\ Lives(member) /\ call \in CallStates /\ Supervised(member, call)
        /\ drains \in [Pipes -> DrainStates]
        /\ \A p \in Pipes : Drained(member, p, drains[p])
    BY DEF BoundedInv
  <1>1. CASE UNCHANGED bpvars
    BY <1>1 DEF bpvars, BoundedInv, NothingLeftRunning, InGroup, Held, Alive
  <1>2. CASE Start
    <2>0. call.pc = "off" /\ call.cause = None
      BY <1>2, <1>a DEF Start, Supervised
    <2>1. CASE /\ call' = [call EXCEPT !.pc = "ended", !.outcome = "spawn-failed"]
               /\ UNCHANGED <<member, drains>>
      <3>1. call' \in CallStates /\ call'.pc = "ended" /\ call'.outcome = "spawn-failed"
        BY <1>a, <2>1 DEF CallStates
      <3>2. Supervised(member', call') /\ NothingLeftRunning'
        BY <3>1 DEF Supervised, NothingLeftRunning
      <3>3. QED
        BY <1>a, <2>1, <3>1, <3>2, SameLessens, CallMoves
    <2>2. CASE /\ call' = [call EXCEPT !.pc = "poll"]
               /\ \E stubborn \in BOOLEAN :
                    member' = [member EXCEPT !["leader"] =
                        [status |-> "running", holds |-> Pipes, stubborn |-> stubborn]]
               /\ drains' = [p \in Pipes |-> [drains[p] EXCEPT !.state = "alive"]]
      <3>1. call' \in CallStates /\ call'.pc = "poll" /\ call'.cause = None
        BY <1>a, <2>0, <2>2 DEF CallStates
      <3>2. Lives(member') /\ member'["leader"].status = "running"
        <4>1. PICK stubborn \in BOOLEAN :
                 member' = [member EXCEPT !["leader"] =
                     [status |-> "running", holds |-> Pipes, stubborn |-> stubborn]]
          BY <2>2
        <4>2. [status |-> "running", holds |-> Pipes, stubborn |-> stubborn] \in MemberStates
          BY DEF MemberStates
        <4>3. QED
          BY <1>a, <4>1, <4>2, TwoMembers DEF Lives
      <3>3. /\ drains' \in [Pipes -> DrainStates]
            /\ \A p \in Pipes : Drained(member', p, drains'[p])
        BY <1>a, <2>2 DEF Drained, DrainStates
      <3>4. Supervised(member', call') /\ NothingLeftRunning'
        BY <3>1, <3>2 DEF Supervised, NothingLeftRunning
      <3>5. QED
        BY <3>1, <3>2, <3>3, <3>4 DEF BoundedInv
    <2>3. QED
      BY <1>2, <2>1, <2>2 DEF Start
  <1>3. CASE call.pc # "ended" /\ Command
    <2>1. CASE Lessens(member, member') /\ UNCHANGED <<drains, call>>
      <3>1. Supervised(member', call')
        BY <1>a, <2>1 DEF Supervised, Lessens
      <3>2. NothingLeftRunning'
        BY <1>3, <2>1 DEF NothingLeftRunning
      <3>3. QED
        BY <1>a, <2>1, <3>1, <3>2, CallMoves
    <2>2. ASSUME NEW m \in Members, NEW p \in Pipes, Write(m, p)
          PROVE  BoundedInv'
      <3> DEFINE d == [drains[p] EXCEPT !.written = @ + 1]
      <3>1. UNCHANGED <<member, call>> /\ drains' = [drains EXCEPT ![p] = d]
        BY <2>2 DEF Write
      <3>2. Holding(member, p)
        BY <2>2 DEF Write, CanAct, Holding
      <3>3. Drained(member, p, d)
        BY <1>a, <3>2 DEF Drained, DrainStates
      <3>4. d \in DrainStates
        BY <3>3 DEF Drained
      <3> HIDE DEF d
      <3>5. NothingLeftRunning'
        BY <1>3, <3>1 DEF NothingLeftRunning
      <3>6. QED
        BY <1>a, <3>1, <3>3, <3>4, <3>5 DEF BoundedInv
    <2>3. QED
      BY <1>3, <1>a, <2>1, <2>2, CommandLessens
  <1>4. ASSUME call.pc # "ended", NEW p \in Pipes, Drain(p) \/ DrainEnds(p)
        PROVE  BoundedInv'
    <2>0. UNCHANGED <<member, call>>
      BY <1>4 DEF Drain, DrainEnds
    <2>1. ASSUME NEW d, Drained(member, p, d), drains' = [drains EXCEPT ![p] = d]
          PROVE  BoundedInv'
      <3>1. d \in DrainStates
        BY <2>1 DEF Drained
      <3>2. NothingLeftRunning'
        BY <1>4, <2>0 DEF NothingLeftRunning
      <3>3. QED
        BY <1>a, <2>0, <2>1, <3>1, <3>2 DEF BoundedInv
    <2>2. CASE Drain(p)
      <3> DEFINE x == drains[p]
                 caught == IF x.captured < StreamLimit THEN x.captured + 1 ELSE x.captured
                 d == [x EXCEPT !.total = x.total + 1, !.captured = caught]
      <3>1. /\ x \in DrainStates /\ x.state = "alive"
            /\ x.captured = IF x.total <= StreamLimit THEN x.total ELSE StreamLimit
        BY <1>a, <2>2 DEF Drain, Drained
      <3>2. caught \in Nat
            /\ caught = IF x.total + 1 <= StreamLimit THEN x.total + 1 ELSE StreamLimit
        BY <3>1, BoundedAssumption DEF DrainStates
      <3>3. drains' = [drains EXCEPT ![p] = d]
        BY <1>a, <2>2, <3>1 DEF Drain, DrainStates
      <3> HIDE DEF caught
      <3>4. /\ d \in DrainStates /\ d.state = "alive" /\ d.total = x.total + 1
            /\ d.captured = caught
        <4> DEFINE n == x.total + 1
        <4>1. n \in Nat /\ d = [x EXCEPT !.total = n, !.captured = caught]
          BY <3>1 DEF DrainStates
        <4> HIDE DEF n, d
        <4>2. d \in DrainStates /\ d.state = "alive" /\ d.total = n /\ d.captured = caught
          BY <3>1, <3>2, <4>1 DEF DrainStates
        <4>3. QED
          BY <4>2 DEF n
      <3> HIDE DEF d
      <3>5. Drained(member, p, d)
        BY <3>2, <3>4 DEF Drained
      <3>6. QED
        BY <2>1, <3>3, <3>5
    <2>3. CASE DrainEnds(p)
      <3> DEFINE d == [drains[p] EXCEPT !.state = "complete"]
      <3>1. ~Holding(member, p)
        BY <2>3 DEF DrainEnds, Held, Alive, Holding
      <3>2. Drained(member, p, d)
        BY <1>a, <2>3, <3>1 DEF Drained, DrainStates, DrainEnds
      <3>3. drains' = [drains EXCEPT ![p] = d]
        BY <2>3 DEF DrainEnds
      <3> HIDE DEF d
      <3>4. QED
        BY <2>1, <3>2, <3>3
    <2>4. QED
      BY <1>4, <2>2, <2>3
  (* A step of run that does not end it. *)
  <1>b. ASSUME NEW pc \in {"terminate", "waiting", "force", "waiting-forced", "join",
                            "force-drained", "waiting-drained", "close"},
               NEW cause \in {None, "canceled", "timed-out", "callback-failed"},
               call' = [call EXCEPT !.pc = pc, !.cause = cause],
               Lessens(member, member'), UNCHANGED drains,
               call.pc \notin {"off", "ended"},
               pc \in {"waiting-forced", "waiting-drained"} => NoneRunning(member'),
               pc = "join" => member'["leader"].status = "gone",
               pc = "join" /\ cause # None => Group(member') = {},
               pc = "close" => Group(member') = {}
        PROVE  BoundedInv'
    <2>1. call' \in CallStates /\ call'.pc = pc /\ call'.cause = cause
      BY <1>a, <1>b DEF CallStates
    <2>2. member'["leader"].status # "unborn"
      BY <1>a, <1>b DEF Supervised, Lessens
    <2>3. Supervised(member', call') /\ NothingLeftRunning'
      BY <1>b, <2>1, <2>2 DEF Supervised, NothingLeftRunning
    <2>4. QED
      BY <1>b, <2>1, <2>3, CallMoves
  (* One that ends it. *)
  <1>c. ASSUME NEW outcome \in {"canceled", "timed-out", "output-incomplete", "output-too-large",
                                 "result"},
               call' = [call EXCEPT !.pc = "ended", !.outcome = outcome],
               UNCHANGED <<member, drains>>,
               outcome \in {"canceled", "timed-out"} => Group(member) = {},
               outcome = "output-incomplete" => NoneRunning(member),
               outcome = "result" => /\ "leader" \notin Group(member)
                                     /\ \A p \in Pipes : /\ ~Holding(member, p)
                                                         /\ drains[p].captured = drains[p].written
        PROVE  BoundedInv'
    <2>1. call' \in CallStates /\ call'.pc = "ended" /\ call'.outcome = outcome
      BY <1>a, <1>c DEF CallStates
    <2>2. /\ InGroup' = Group(member)
          /\ \A p \in Pipes : Held(p)' = Holding(member, p)
      BY <1>c DEF InGroup, Group, Held, Alive, Holding
    <2>3. NothingLeftRunning'
      BY <1>a, <1>c, <2>1, <2>2 DEF NothingLeftRunning, NoneRunning, Group
    <2>4. Supervised(member', call')
      BY <2>1 DEF Supervised
    <2>5. QED
      BY <1>a, <1>c, <2>1, <2>3, <2>4, SameLessens, CallMoves
  <1>5. CASE Poll
    <2>1. CASE member["leader"].status = "zombie"
      <3>1. call' = [call EXCEPT !.pc = "join", !.cause = call.cause] /\ member' = Reaped(member)
            /\ UNCHANGED drains /\ call.pc = "poll"
        BY <1>5, <1>a, <2>1 DEF Poll, CallStates
      <3>2. call.cause = None
        BY <1>a, <3>1 DEF Supervised
      <3>3. QED
        BY <1>a, <1>b, <2>1, <3>1, <3>2, ReapLessens DEF CallStates
    <2>2. CASE member["leader"].status # "zombie"
      <3>1. PICK cause \in {"canceled", "timed-out", "callback-failed"} :
               call' = [call EXCEPT !.pc = "terminate", !.cause = cause]
        BY <1>5, <2>2 DEF Poll
      <3>2. UNCHANGED <<member, drains>> /\ call.pc = "poll"
        BY <1>5, <2>2 DEF Poll
      <3>3. QED
        BY <1>a, <1>b, <3>1, <3>2, SameLessens
    <2>3. QED
      BY <2>1, <2>2
  <1>6. CASE Terminate
    <2>1. /\ call' = [call EXCEPT !.pc = "waiting", !.cause = call.cause]
          /\ member' = Signalled(FALSE) /\ UNCHANGED drains /\ call.pc = "terminate"
      BY <1>6, <1>a DEF Terminate, CallStates
    <2>2. QED
      BY <1>a, <1>b, <2>1, SignalLessens DEF CallStates
  <1>7. CASE ForceKill
    <2>1. PICK pc \in {"waiting-forced", "waiting-drained"} :
             call' = [call EXCEPT !.pc = pc, !.cause = call.cause]
      <3>1. CASE call.pc = "force"
        BY <1>7, <1>a, <3>1 DEF ForceKill, CallStates
      <3>2. CASE call.pc = "force-drained"
        BY <1>7, <1>a, <3>2 DEF ForceKill, CallStates
      <3>3. QED
        BY <1>7, <3>1, <3>2 DEF ForceKill
    <2>2. member' = Signalled(TRUE) /\ UNCHANGED drains /\ call.pc \in {"force", "force-drained"}
      BY <1>7 DEF ForceKill
    <2>3. QED
      BY <1>a, <1>b, <2>1, <2>2, SignalLessens DEF CallStates
  <1>8. CASE GroupLeft
    <2>1. PICK pc \in {"close", "join"} :
             call' = [call EXCEPT !.pc = pc, !.cause = call.cause]
      BY <1>8, <1>a DEF GroupLeft, CallStates
    <2>2. /\ member' = Reaped(member) /\ UNCHANGED drains /\ GroupGone
          /\ call.pc \in {"waiting", "waiting-forced", "waiting-drained"}
      BY <1>8 DEF GroupLeft
    <2>3. Group(member') = {} /\ Lessens(member, member')
      BY <1>a, <2>2, ReapLessens
    <2>4. member'["leader"].status = "gone"
      <3>1. member'["leader"].status # "unborn" /\ Lives(member')
        BY <1>a, <2>2, <2>3 DEF Supervised, Lessens
      <3>2. member'["leader"].status \in {"unborn", "running", "dying", "zombie", "escaped", "gone"}
        BY <3>1, TwoMembers DEF Lives, MemberStates
      <3>3. QED
        BY <2>3, <3>1, <3>2, TwoMembers DEF Group, Lives
    <2>5. QED
      BY <1>a, <1>b, <2>1, <2>2, <2>3, <2>4 DEF CallStates
  <1>9. CASE GraceOver
    <2>1. UNCHANGED <<member, drains>>
      BY <1>9 DEF GraceOver
    <2>2. CASE call.pc = "waiting"
      <3>1. call' = [call EXCEPT !.pc = "force", !.cause = call.cause]
        BY <1>9, <1>a, <2>2 DEF GraceOver, CallStates
      <3>2. QED
        BY <1>a, <1>b, <2>1, <2>2, <3>1, SameLessens DEF CallStates
    <2>3. CASE call.pc # "waiting"
      <3>1. call' = [call EXCEPT !.pc = "ended", !.outcome = "output-incomplete"]
        BY <1>9, <2>3 DEF GraceOver
      <3>2. NoneRunning(member)
        BY <1>9, <1>a, <2>3 DEF GraceOver, Supervised
      <3>3. QED
        BY <1>c, <2>1, <3>1, <3>2
    <2>4. QED
      BY <2>2, <2>3
  <1>10. CASE Joined
    <2>1. UNCHANGED <<member, drains>> /\ call.pc = "join" /\ DrainsComplete
      BY <1>10 DEF Joined
    <2>2. member["leader"].status = "gone" /\ (call.cause # None => Group(member) = {})
      BY <1>a, <2>1 DEF Supervised
    <2>3. CASE call.cause # None
      <3>1. PICK outcome \in {"canceled", "timed-out", "output-incomplete"} :
               call' = [call EXCEPT !.pc = "ended", !.outcome = outcome]
        <4>1. call.cause \in {"canceled", "timed-out", "callback-failed"}
          BY <1>a, <2>3 DEF CallStates
        <4>2. FailureOf(call.cause) \in {"canceled", "timed-out", "output-incomplete"}
          BY <4>1 DEF FailureOf
        <4>3. QED
          BY <1>10, <2>3, <4>2 DEF Joined
      <3>2. NoneRunning(member)
        BY <2>2, <2>3, EmptyGroup
      <3>3. QED
        BY <1>c, <2>1, <2>2, <2>3, <3>1, <3>2
    <2>4. CASE call.cause = None
      <3>1. CASE \E p \in Pipes : drains[p].total > StreamLimit
        <4>1. call' = [call EXCEPT !.pc = "ended", !.outcome = "output-too-large"]
          BY <1>10, <2>4, <3>1 DEF Joined
        <4>2. QED
          BY <1>c, <2>1, <4>1
      <3>2. CASE ~\E p \in Pipes : drains[p].total > StreamLimit
        <4>1. call' = [call EXCEPT !.pc = "ended", !.outcome = "result"]
          BY <1>10, <2>4, <3>2 DEF Joined
        <4>2. ASSUME NEW p \in Pipes
              PROVE  ~Holding(member, p) /\ drains[p].captured = drains[p].written
          <5>1. drains[p] \in DrainStates /\ drains[p].total <= StreamLimit
            BY <1>a, <3>2, BoundedAssumption DEF DrainStates
          <5>2. QED
            BY <1>a, <2>1, <5>1 DEF Drained, DrainsComplete
        <4>3. "leader" \notin Group(member)
          BY <2>2 DEF Group
        <4>4. QED
          BY <1>c, <2>1, <4>1, <4>2, <4>3
      <3>3. QED
        BY <3>1, <3>2
    <2>5. QED
      BY <2>3, <2>4
  <1>11. CASE JoinGraceOver
    <2>1. /\ call' = [call EXCEPT !.pc = "force-drained", !.cause = call.cause]
          /\ UNCHANGED <<member, drains>> /\ call.pc = "join"
      BY <1>11, <1>a DEF JoinGraceOver, CallStates
    <2>2. QED
      BY <1>a, <1>b, <2>1, SameLessens DEF CallStates
  <1>12. CASE ClosePipes
    <2>1. PICK outcome \in {"canceled", "timed-out", "output-incomplete"} :
             call' = [call EXCEPT !.pc = "ended", !.outcome = outcome]
      BY <1>12 DEF ClosePipes
    <2>2. Group(member) = {} /\ UNCHANGED <<member, drains>>
      BY <1>12, <1>a DEF ClosePipes, Supervised
    <2>3. NoneRunning(member)
      BY <2>2, EmptyGroup
    <2>4. QED
      BY <1>c, <2>1, <2>2, <2>3
  <1>13. QED
    BY <1>1, <1>2, <1>3, <1>4, <1>5, <1>6, <1>7, <1>8, <1>9, <1>10, <1>11, <1>12
       DEF ProcessNext, Runner, Drains

(* Whatever the command does and whenever run gives up on it, at the end nothing of its
   session runs, and a result is the whole output. *)
THEOREM ProcessSafety == ProcessSpec => []NothingLeftRunning
  <1>1. BoundedInv => NothingLeftRunning
    BY DEF BoundedInv
  <1>2. QED
    BY <1>1, BoundedStarts, BoundedSteps, PTL DEF ProcessSpec

----------------------------------------------------------------------------
(* The model gateway *)

(* A set of naturals has a least element. *)
LEMMA LeastNat ==
    ASSUME NEW S \in SUBSET Nat, S # {}
    PROVE  \E m \in S : \A k \in S : m <= k
  <1>1. \A k, m \in Nat : k < m => <<k, m>> \in OpToRel(<, Nat)
    <2> DEFINE R == OpToRel(<, Nat)
    <2>1. R = {ss \in Nat \X Nat : ss[1] < ss[2]}
      BY Zenon DEF OpToRel
    <2> HIDE DEF R
    <2>2. \A k, m \in Nat : k < m => <<k, m>> \in R
      BY <2>1
    <2>3. QED
      BY <2>2 DEF R
  <1>2. PICK m \in S : \A k \in S : ~(<<k, m>> \in OpToRel(<, Nat))
    BY NatLessThanWellFounded, WFMin, Zenon
  <1>3. \A k \in S : ~(k < m)
    BY <1>1, <1>2, Zenon
  <1>4. QED
    BY <1>3

First(S, p) == p \in S /\ \A q \in S : Preferred(p, q)

(* Profiles can be sorted, so that there is a first among finitely many. *)
LEMMA FirstExists ==
    ASSUME NEW S \in SUBSET Profiles, IsFiniteSet(S), S # {}
    PROVE  \E p \in S : First(S, p)
  <1>1. /\ \A p, q \in Profiles : Preferred(p, q) \/ Preferred(q, p)
        /\ \A p, q, r \in Profiles : Preferred(p, q) /\ Preferred(q, r) => Preferred(p, r)
    BY DEF Preferred, Profiles
  <1> DEFINE Bad(R) == R # {} /\ IsFiniteSet(R) /\ \A p \in R : ~First(R, p)
             N == {Cardinality(R) : R \in {R \in SUBSET S : Bad(R)}}
  <1> SUFFICES ASSUME \A p \in S : ~First(S, p) PROVE FALSE
    OBVIOUS
  <1>2. N \subseteq Nat
    BY FS_CardinalityType
  <1>3. Cardinality(S) \in N
    OBVIOUS
  <1>4. PICK n \in N : \A k \in N : n <= k
    BY <1>2, <1>3, LeastNat
  <1>5. PICK R \in SUBSET S : Bad(R) /\ n = Cardinality(R)
    BY <1>4
  <1>6. PICK a \in R : TRUE
    BY <1>5
  <1> DEFINE T == R \ {a}
  <1>7. T \in SUBSET S /\ IsFiniteSet(T) /\ Cardinality(T) = n - 1 /\ n \in Nat
    BY <1>2, <1>4, <1>5, <1>6, FS_RemoveElement
  <1>8. ~Bad(T)
    <2>1. Bad(T) => Cardinality(T) \in N
      BY <1>7
    <2> HIDE DEF N, Bad, T
    <2>2. Bad(T) => n <= n - 1
      BY <1>4, <1>7, <2>1
    <2>3. QED
      BY <1>7, <2>2
  <1>9. R \subseteq Profiles /\ T \subseteq R /\ \A q \in R : q = a \/ q \in T
    BY <1>5, <1>6
  <1>10. Preferred(a, a)
    BY <1>1, <1>9
  <1>11. CASE T = {}
    BY <1>5, <1>6, <1>9, <1>10, <1>11 DEF First
  <1>12. ASSUME NEW b \in T, First(T, b) PROVE FALSE
    <2> HIDE DEF T, N
    <2>1. CASE Preferred(a, b)
      <3>1. \A q \in T : Preferred(a, q)
        BY <1>1, <1>9, <1>12, <2>1 DEF First
      <3>2. First(R, a)
        BY <1>9, <1>10, <3>1 DEF First
      <3>3. QED
        BY <1>5, <1>6, <3>2
    <2>2. CASE ~Preferred(a, b)
      <3>1. Preferred(b, a)
        BY <1>1, <1>6, <1>9, <1>12, <2>2
      <3>2. First(R, b)
        BY <1>9, <1>12, <3>1 DEF First
      <3>3. QED
        BY <1>5, <1>9, <1>12, <3>2
    <2>3. QED
      BY <2>1, <2>2
  <1>13. QED
    BY <1>7, <1>8, <1>11, <1>12

(* What holds between a request, the call prepared for it and the profile it goes to. *)
Permitted(profiles, request, prepared, profile) ==
    /\ profile \in profiles /\ profile.enabled
    /\ profile.model = prepared.model
    /\ profile.local = profile.adapter.local
    /\ profile.deterministic = profile.adapter.deterministic
    /\ request.localOnly => profile.adapter.local
    /\ request.deterministic => profile.adapter.deterministic
    /\ prepared.deterministic = profile.adapter.deterministic
    /\ request.classification <= profile.classification
    /\ request.estimate <= prepared.budget["input"]
    /\ \A u \in Usages : /\ prepared.budget[u] = AtMost(request.budget[u], profile.limit[u])
                         /\ request.budget[u] \in Nat /\ profile.limit[u] \in Nat
    /\ \A other \in profiles : Candidate(other, request) => profile.priority <= other.priority

Quest(q) ==
    q = [pc |-> q.pc, request |-> q.request, call |-> q.call, profile |-> q.profile,
         result |-> q.result, outcome |-> q.outcome]

GatewayInv ==
    /\ policy \in Policies
    /\ Quest(quest)
    /\ quest.pc \in {"new", "prepared", "called", "over"}
    /\ quest.pc # "over" => quest.outcome = None
    /\ quest.pc \in {"prepared", "called"} => quest.request \in ModelRequests /\ quest.call # None
    /\ quest.pc = "called" => Permitted(policy, quest.request, quest.call, quest.profile)
    /\ GatewaySound

(* The selected profile is allowed to serve the request and comes first. *)
LEMMA SelectedIsFirst ==
    ASSUME policy \in Policies, NEW request \in ModelRequests, Candidates(request) # {}
    PROVE  /\ SelectProfile(request) \in policy
           /\ SelectProfile(request) \in Profiles
           /\ request.estimate <= request.budget["input"]
           /\ Candidate(SelectProfile(request), request)
           /\ \A other \in policy : Candidate(other, request) =>
                 SelectProfile(request).priority <= other.priority
  <1> DEFINE S == Candidates(request)
             profile == SelectProfile(request)
  <1>1. S \subseteq policy /\ S \subseteq Profiles
    BY PolicyAssumption DEF Candidates
  <1>2. IsFiniteSet(S)
    BY <1>1, PolicyAssumption, FS_Subset
  <1>3. \E p \in S : \A q \in S : Preferred(p, q)
    BY <1>1, <1>2, FirstExists DEF First
  <1>4. profile \in S /\ \A q \in S : Preferred(profile, q)
    BY <1>3 DEF SelectProfile
  <1> HIDE DEF profile
  <1>5. profile \in Profiles /\ profile \in policy
    BY <1>1, <1>4
  <1>6. request.estimate <= request.budget["input"] /\ Candidate(profile, request)
    BY <1>4 DEF Candidates
  <1>7. ASSUME NEW other \in policy, Candidate(other, request)
        PROVE  profile.priority <= other.priority
    <2>1. other \in S
      BY <1>6, <1>7 DEF Candidates
    <2>2. Preferred(profile, other) /\ other \in Profiles
      BY <1>1, <1>4, <2>1
    <2>3. QED
      BY <1>5, <2>2 DEF Preferred, Profiles
  <1>8. QED
    BY <1>5, <1>6, <1>7 DEF profile

(* A call that the gateway would prepare now goes where the policy of now lets it go. *)
LEMMA PreparedPermits ==
    ASSUME policy \in Policies, NEW request \in ModelRequests, NEW call0, call0 # None,
           PreparedCall(request) = call0,
           NEW profile0, profile0 = CHOOSE p \in policy : p.id = call0.id
    PROVE  Permitted(policy, request, call0, profile0)
  <1> DEFINE profile == SelectProfile(request)
  <1>1. Candidates(request) # {}
    BY DEF PreparedCall
  <1>2. /\ profile \in policy /\ profile \in Profiles /\ Candidate(profile, request)
        /\ request.estimate <= request.budget["input"]
        /\ \A other \in policy : Candidate(other, request) => profile.priority <= other.priority
    BY <1>1, SelectedIsFirst
  <1>3. call0 = [id |-> profile.id, model |-> profile.model, local |-> profile.adapter.local,
                deterministic |-> profile.adapter.deterministic,
                budget |-> EffectiveBudget(request, profile)]
    BY <1>1 DEF PreparedCall
  <1> HIDE DEF profile
  <1>4. /\ call0.id = profile.id /\ call0.model = profile.model
        /\ call0.deterministic = profile.adapter.deterministic
        /\ call0.budget = EffectiveBudget(request, profile)
    BY <1>3
  <1>5. profile0 = profile
    <2>1. \A p, q \in policy : p.id = q.id => p = q
      BY PolicyAssumption
    <2>2. profile0 \in policy /\ profile0.id = call0.id
      BY <1>2, <1>4
    <2>3. QED
      BY <1>2, <1>4, <2>1, <2>2
  <1>6. \A u \in Usages : /\ call0.budget[u] = AtMost(request.budget[u], profile.limit[u])
                          /\ request.budget[u] \in Nat /\ profile.limit[u] \in Nat
    BY <1>2, <1>4, GatewayAssumption DEF EffectiveBudget, ModelRequests, Profiles
  <1>7. "input" \in Usages
    BY DEF Usages
  <1>8. request.estimate <= call0.budget["input"]
    BY <1>2, <1>6, <1>7 DEF AtMost, Candidate
  <1>9. QED
    BY <1>2, <1>4, <1>5, <1>6, <1>8 DEF Permitted, Candidate

(* The checks on a result come to the budget that the adapter was given. *)
LEMMA AdmittedExactly ==
    ASSUME NEW profiles, NEW request, NEW call0, NEW profile, NEW result \in AdapterResults,
           Permitted(profiles, request, call0, profile)
    PROVE  Admitted(request, profile, result) <=>
               /\ \A u \in Usages : Within(result.used[u], call0.budget[u])
               /\ result.latency <= request.latency
               /\ call0.deterministic => result.deterministic
               /\ result.fits
  <1>1. ASSUME NEW u \in Usages
        PROVE  Within(result.used[u], call0.budget[u]) <=>
                   /\ Within(result.used[u], request.budget[u])
                   /\ Within(result.used[u], profile.limit[u])
    <2>1. result.used[u] \in Nat \/ result.used[u] = None
      BY GatewayAssumption DEF AdapterResults
    <2>2. /\ call0.budget[u] = AtMost(request.budget[u], profile.limit[u])
          /\ request.budget[u] \in Nat /\ profile.limit[u] \in Nat
      BY DEF Permitted
    <2>3. QED
      BY <2>1, <2>2 DEF Within, AtMost
  <1>2. (profile.deterministic \/ request.deterministic) <=> call0.deterministic
    BY Zenon DEF Permitted
  <1>3. QED
    BY <1>1, <1>2, Zenon DEF Admitted

(* GatewaySound, of values. *)
Sent(profiles, request, call0, profile) ==
    /\ profile \in profiles /\ profile.enabled
    /\ profile.model = call0.model
    /\ request.localOnly => profile.local /\ profile.adapter.local
    /\ request.deterministic => profile.deterministic /\ profile.adapter.deterministic
    /\ request.classification <= profile.classification
    /\ request.estimate <= call0.budget["input"]
    /\ \A u \in Usages : call0.budget[u] <= request.budget[u]
                         /\ call0.budget[u] <= profile.limit[u]
    /\ ~\E other \in profiles :
          Candidate(other, request) /\ other.priority < profile.priority

LEMMA PermittedIsSound ==
    ASSUME NEW profiles \in Policies, NEW request, NEW call0, NEW profile,
           Permitted(profiles, request, call0, profile)
    PROVE  Sent(profiles, request, call0, profile)
  <1>1. \A u \in Usages : call0.budget[u] <= request.budget[u] /\ call0.budget[u] <= profile.limit[u]
    BY DEF Permitted, AtMost
  <1>2. ~\E other \in profiles : Candidate(other, request) /\ other.priority < profile.priority
    <2>1. \A other \in profiles : other.priority \in Int
      BY PolicyAssumption DEF Profiles
    <2>2. QED
      BY <2>1 DEF Permitted
  <1>3. QED
    BY <1>1, <1>2, Zenon DEF Permitted, Sent

LEMMA GatewaySteps == GatewayInv /\ [GatewayNext]_gvars => GatewayInv'
  <1> SUFFICES ASSUME GatewayInv, [GatewayNext]_gvars PROVE GatewayInv'
    OBVIOUS
  <1>a. policy \in Policies /\ Quest(quest)
    BY DEF GatewayInv
  (* Nothing is at the adapter and nothing came back. *)
  <1>b. ASSUME quest'.pc # "called", quest'.outcome \notin {"response", "refused"}
        PROVE  GatewaySound'
    BY <1>b, Zenon DEF GatewaySound
  <1>c. None \notin {"response", "refused"}
    BY GatewayAssumption
  <1>1. CASE UNCHANGED gvars
    BY <1>1 DEF gvars, GatewayInv, GatewaySound
  <1>2. CASE PrepareCall
    <2>1. PICK request \in ModelRequests :
             quest' = IF PreparedCall(request) = None
                      THEN [quest EXCEPT !.pc = "over", !.outcome = "no-route"]
                      ELSE [quest EXCEPT !.pc = "prepared", !.request = request,
                                         !.call = PreparedCall(request)]
      BY <1>2 DEF PrepareCall
    <2>2. policy' = policy /\ quest.pc = "new" /\ quest.outcome = None
      BY <1>2 DEF PrepareCall, GatewayInv
    <2>3. CASE PreparedCall(request) = None
      <3>1. quest'.pc = "over" /\ quest'.outcome = "no-route" /\ Quest(quest')
        BY <1>a, <2>1, <2>3 DEF Quest
      <3>2. QED
        BY <1>a, <1>b, <2>2, <3>1 DEF GatewayInv
    <2>4. CASE PreparedCall(request) # None
      <3> DEFINE call0 == PreparedCall(request)
      <3> HIDE DEF call0
      <3>1. quest' = [quest EXCEPT !.pc = "prepared", !.request = request, !.call = call0]
            /\ call0 # None
        BY <2>1, <2>4 DEF call0
      <3>2. /\ quest'.pc = "prepared" /\ quest'.outcome = None /\ Quest(quest')
            /\ quest'.request = request /\ quest'.call = call0
        BY <1>a, <2>2, <3>1 DEF Quest
      <3>3. QED
        BY <1>a, <1>b, <1>c, <2>2, <3>1, <3>2 DEF GatewayInv
    <2>5. QED
      BY <2>3, <2>4
  <1>3. CASE Reconfigure
    <2>1. policy' \in Policies /\ quest' = quest /\ quest.pc = "prepared" /\ quest.outcome = None
      BY <1>3 DEF Reconfigure, GatewayInv
    <2>2. GatewaySound'
      BY <1>b, <1>c, <2>1
    <2>3. QED
      BY <2>1, <2>2 DEF GatewayInv
  <1>4. CASE InvokePrepared
    <2>1. /\ policy' = policy /\ quest.pc = "prepared" /\ quest.outcome = None
          /\ quest.request \in ModelRequests /\ quest.call # None
      BY <1>4 DEF InvokePrepared, GatewayInv
    <2>2. CASE StillPrepared(quest.call, quest.request)
      <3> DEFINE profile == CHOOSE profile \in policy : profile.id = quest.call.id
      <3>1. quest' = [quest EXCEPT !.pc = "called", !.profile = profile]
        BY <1>4, <2>2 DEF InvokePrepared
      <3>2. Permitted(policy, quest.request, quest.call, profile)
        BY <1>a, <2>1, <2>2, PreparedPermits DEF StillPrepared
      <3> HIDE DEF profile
      <3>3. /\ quest'.pc = "called" /\ quest'.outcome = None /\ Quest(quest')
            /\ quest'.request = quest.request /\ quest'.call = quest.call
            /\ quest'.profile = profile
        BY <1>a, <2>1, <3>1 DEF Quest
      <3>4. Permitted(policy', quest'.request, quest'.call, quest'.profile)
        BY <2>1, <3>2, <3>3
      <3>5. Sent(policy', quest'.request, quest'.call, quest'.profile)
        BY <1>a, <2>1, <3>4, PermittedIsSound
      <3>6. GatewaySound'
        BY <1>c, <3>3, <3>5, Zenon DEF GatewaySound, Sent
      <3>7. QED
        BY <1>a, <2>1, <3>3, <3>4, <3>6 DEF GatewayInv
    <2>3. CASE ~StillPrepared(quest.call, quest.request)
      <3>1. quest' = [quest EXCEPT !.pc = "over", !.outcome = "prepared-call-invalid"]
        BY <1>4, <2>3 DEF InvokePrepared
      <3>2. quest'.pc = "over" /\ quest'.outcome = "prepared-call-invalid" /\ Quest(quest')
        BY <1>a, <3>1 DEF Quest
      <3>3. QED
        BY <1>a, <1>b, <2>1, <3>2 DEF GatewayInv
    <2>4. QED
      BY <2>2, <2>3
  <1>5. CASE AdapterReturns
    <2>1. PICK result \in AdapterResults :
             quest' = [quest EXCEPT !.pc = "over", !.result = result,
                          !.outcome = IF Admitted(quest.request, quest.profile, result)
                                      THEN "response" ELSE "refused"]
      BY <1>5 DEF AdapterReturns
    <2>2. policy' = policy /\ Permitted(policy, quest.request, quest.call, quest.profile)
      BY <1>5 DEF AdapterReturns, GatewayInv
    <2> DEFINE admitted == Admitted(quest.request, quest.profile, result)
               outcome == IF admitted THEN "response" ELSE "refused"
    <2>3. quest' = [quest EXCEPT !.pc = "over", !.result = result, !.outcome = outcome]
      BY <2>1
    <2>4. outcome \in {"response", "refused"} /\ (outcome = "response" <=> admitted)
      OBVIOUS
    <2> HIDE DEF outcome, admitted
    <2>5. /\ quest'.pc = "over" /\ quest'.outcome = outcome /\ Quest(quest')
          /\ quest'.request = quest.request /\ quest'.call = quest.call
          /\ quest'.result = result
      BY <1>a, <2>3 DEF Quest
    <2>6. admitted <=>
               /\ \A u \in Usages : Within(quest'.result.used[u], quest'.call.budget[u])
               /\ quest'.result.latency <= quest'.request.latency
               /\ quest'.call.deterministic => quest'.result.deterministic
               /\ quest'.result.fits
      <3>1. admitted <=>
               /\ \A u \in Usages : Within(result.used[u], quest.call.budget[u])
               /\ result.latency <= quest.request.latency
               /\ quest.call.deterministic => result.deterministic
               /\ result.fits
        BY <2>2, AdmittedExactly, Zenon DEF admitted
      <3>2. QED
        BY <2>5, <3>1, Zenon
    <2>7. GatewaySound'
      BY <2>4, <2>5, <2>6, Zenon DEF GatewaySound
    <2>8. QED
      BY <1>a, <2>2, <2>4, <2>5, <2>7, <1>c DEF GatewayInv
  <1>6. QED
    BY <1>1, <1>2, <1>3, <1>4, <1>5 DEF GatewayNext

(* Whatever the policies and however they change while a call is prepared: a request goes
   only to a profile that is allowed to have it and that comes first, and a result is
   admitted exactly when it keeps the budget that the adapter was given. *)
THEOREM GatewaySafety == GatewaySpec => []GatewaySound
  <1>1. GatewayInit => GatewayInv
    BY GatewayAssumption DEF GatewayInit, GatewayInv, GatewaySound, Quest
  <1>2. GatewayInv => GatewaySound
    BY DEF GatewayInv
  <1>3. QED
    BY <1>1, <1>2, GatewaySteps, PTL DEF GatewaySpec
=============================================================================
