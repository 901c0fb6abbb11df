-------------------------- MODULE MCReviewPipeline --------------------------
(* ReviewPipeline with one configuration, or with a second one that gives the
   roles to other ids. *)
EXTENDS ReviewPipeline

CONSTANTS r1, r2, a, b, c, d, e

Two == <<r1, r2>>
One == <<r1>>

Config(x, y, z, v, w) ==
    [executor |-> x, reviewer |-> y, reviewSupervisor |-> z, verifier |-> v,
     verifySupervisor |-> w]

Steady == {Config(a, b, c, d, e)}
Changing == {Config(a, b, c, d, e), Config(e, a, b, c, d)}
=============================================================================
