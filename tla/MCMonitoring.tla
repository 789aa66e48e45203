---------------------------- MODULE MCMonitoring ----------------------------
(* Small instances of Monitoring for TLC. *)
EXTENDS Monitoring

CONSTANTS u1, u2

TwoUsers == {u1, u2}
OneHour == {1}
=============================================================================
