------------------------ MODULE MCMissionLifecycle -------------------------
(* Small instances of MissionLifecycle: a piano mission that needs a photo    *)
(* and a tap, with one snooze, and a bins mission that one tap completes.  *)
EXTENDS MissionLifecycle, TLC

Piano == [rules |-> {"tap_done", "photo"}, mode |-> "all", snoozeAllowed |-> TRUE,
          maxSnoozes |-> 1, allowedMinutes |-> {1, 2}, hardDeadline |-> 0, coins |-> 2]
Bins == [rules |-> {"tap_done", "parent_review"}, mode |-> "any", snoozeAllowed |-> TRUE,
         maxSnoozes |-> 1, allowedMinutes |-> {1}, hardDeadline |-> 2, coins |-> 1]

PianoOnly == [o \in Occurrence |-> Piano]
BinsOnly  == [o \in Occurrence |-> Bins]
AtZero    == [o \in Occurrence |-> 0]
OneChild  == [o \in Occurrence |-> CHOOSE c \in Child : TRUE]
Symmetry  == Permutations(Request)
=============================================================================
