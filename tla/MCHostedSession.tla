-------------------------- MODULE MCHostedSession --------------------------
(* Instance of HostedSession for TLC: two processes on one machine.        *)
EXTENDS HostedSession
CONSTANTS p1, p2
=============================================================================
