---------------------------- MODULE MCRdsSystem ----------------------------
(***************************************************************************)
(* Instances of RdsSystem.                                                 *)
(***************************************************************************)
EXTENDS RdsSystem

CONSTANT other

NoRequests == {}
OneMask    == {{"rflags"}}
MixedMask  == {{"rflags", "ptype"}}
TwoMasks   == {{}, {"tmc"}}

\* The neighbour stays away when answers may be late: all that it can do to the
\* application is to make the daemon answer later.
OneDelay == delayed => conn[other] = "none"

=============================================================================
