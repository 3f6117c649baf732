---------------------------- MODULE MCRdsServer ----------------------------
(***************************************************************************)
(* Instances of RdsServer: one client on the Unix domain socket and one on *)
(* the TCP socket, which set their event mask.                             *)
(***************************************************************************)
EXTENDS RdsServer

CONSTANTS u1, t1

SetMask == {[src |-> 0, cmd |-> SEVNT, mask |-> {"rflags"}]}

=============================================================================
