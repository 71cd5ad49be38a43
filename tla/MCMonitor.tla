------------------------------ MODULE MCMonitor ------------------------------
(* Values for the constants of Monitor.                                     *)
EXTENDS Monitor

CONSTANTS standard, x86, arm

\* Two architectures of one repository.
TwoArchs == {<<standard, x86>>, <<standard, arm>>}
=============================================================================
