----------------------------- MODULE UpdateQueue -----------------------------
(***************************************************************************)
(* What the bot promises of the messages sent to it: each is handled at    *)
(* least once before Telegram forgets it, and none for the first time      *)
(* before those sent earlier.                                              *)
(***************************************************************************)
EXTENDS Naturals, Sequences

CONSTANTS Message

VARIABLES
  inbox,       (* the messages sent to the bot, in order                       *)
  taken,       (* the indices of those it has begun to handle                  *)
  forgotten    (* Telegram keeps no message up to this index                   *)

vars == <<inbox, taken, forgotten>>

Send(m) == inbox' = Append(inbox, m) /\ UNCHANGED <<taken, forgotten>>

Take(i) ==
  /\ 1..(i - 1) \subseteq taken
  /\ i > forgotten
  /\ taken' = taken \cup {i}
  /\ UNCHANGED <<inbox, forgotten>>

Forget(n) ==
  /\ n > forgotten /\ 1..n \subseteq taken
  /\ forgotten' = n
  /\ UNCHANGED <<inbox, taken>>

Init == inbox = <<>> /\ taken = {} /\ forgotten = 0
Next ==
  \/ \E m \in Message : Send(m)
  \/ \E i \in 1..Len(inbox) : Take(i) \/ Forget(i)
Spec == Init /\ [][Next]_vars

(* What whoever writes to the bot may rely on: what Telegram has forgotten was *)
(* begun, and so was everything sent before a message that was begun.          *)
InTurn == 1..forgotten \subseteq taken /\ \A i \in taken : 1..i \subseteq taken
=============================================================================
