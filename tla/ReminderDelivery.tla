-------------------------- MODULE ReminderDelivery ---------------------------
(***************************************************************************)
(* What a family expects of a reminder: it comes up on a phone at most      *)
(* once, and only while the phone acts for the child it is for.  A phone    *)
(* acts for one child until it is cleared.                                 *)
(***************************************************************************)
EXTENDS Naturals

CONSTANTS Reminder, Phone, Child, None

VARIABLES
  reminded,   (* the child of each reminder that was sent                     *)
  actsFor,    (* the child of each phone that is paired                       *)
  shown       (* how often each reminder came up on each phone                *)

vars == <<reminded, actsFor, shown>>

Remind(r, c) ==
  /\ reminded[r] = None
  /\ reminded' = [reminded EXCEPT ![r] = c]
  /\ UNCHANGED <<actsFor, shown>>

Pair(p, c) ==
  /\ actsFor[p] = None
  /\ actsFor' = [actsFor EXCEPT ![p] = c]
  /\ UNCHANGED <<reminded, shown>>

Clear(p) ==
  /\ actsFor' = [actsFor EXCEPT ![p] = None]
  /\ UNCHANGED <<reminded, shown>>

Show(r, p) ==
  /\ reminded[r] # None /\ actsFor[p] = reminded[r]
  /\ shown[<<r, p>>] = 0
  /\ shown' = [shown EXCEPT ![<<r, p>>] = 1]
  /\ UNCHANGED <<reminded, actsFor>>

Init ==
  /\ reminded = [r \in Reminder |-> None]
  /\ actsFor = [p \in Phone |-> None]
  /\ shown = [s \in Reminder \X Phone |-> 0]
Next ==
  \/ \E r \in Reminder, c \in Child : Remind(r, c)
  \/ \E p \in Phone : Clear(p) \/ \E c \in Child : Pair(p, c)
  \/ \E r \in Reminder, p \in Phone : Show(r, p)
Spec == Init /\ [][Next]_vars
=============================================================================
