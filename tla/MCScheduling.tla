---------------------------- MODULE MCScheduling ----------------------------
(* An instance of Scheduling: a day of four ticks; zones east and west of UTC  *)
(* that change their offset by a tick, forward or back, at a midnight in UTC;  *)
(* the first and the last tick of the day, and a time that does not parse.     *)
EXTENDS Scheduling, TLC

Offsets == -2..1
ManyZones ==
  {z \in [before: Offsets, after: Offsets, change: {8}] : z.after - z.before \in {-1, 1}}
SomeSlots == {0, 3, Untimely}
=============================================================================
