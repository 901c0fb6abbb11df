---------------------------- MODULE MCProcesses ----------------------------
(* The processes of the host: a behaviour is one of Daemon, two daemons with an API and
   one worker each, or one of BoundedProcess, one command that the runner starts. *)
EXTENDS BoundedProcess, Daemon

MCComponents == <<"api", "execution-worker">>

VARIABLE component  \* the component that steps

MCInit == ProcessInit /\ DaemonInit /\ component \in {"process", "daemon"}

MCNext ==
    \/ component = "process" /\ ProcessNext /\ UNCHANGED <<dvars, component>>
    \/ component = "daemon" /\ DaemonNext /\ UNCHANGED <<bpvars, component>>

MCSpec ==
    /\ MCInit /\ [][MCNext]_<<bpvars, dvars, component>>
    /\ ProcessFairness /\ DaemonFairness
=============================================================================
