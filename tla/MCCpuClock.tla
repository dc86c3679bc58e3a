----------------------------- MODULE MCCpuClock -----------------------------
(***************************************************************************)
(* Instances of CpuClock for TLC: a tick takes two nanoseconds of a host   *)
(* whose clock ends at HostMax.                                            *)
(***************************************************************************)
EXTENDS CpuClock

\* Too short for the host; one tick and a half; two ticks; two ticks more than
\* an int holds.
SomeResolutions == {1, 3, 4, 12}
=============================================================================
