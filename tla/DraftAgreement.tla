--------------------------- MODULE DraftAgreement ----------------------------
(***************************************************************************)
(* What a user may rely on when the assistant proposes an action: nothing   *)
(* happens without a confirmation, given in time by somebody who may, on a   *)
(* draft that is not decided yet; each confirmation has one effect at most;  *)
(* and a draft is called confirmed only when there was one.                 *)
(***************************************************************************)
EXTENDS Naturals

CONSTANTS Parent, Child, Draft, Request, Kind, TTL, None

VARIABLES
  now,
  offer,     (* of each draft: to whom, what, and until when; or None          *)
  status,    (* "open", "closed" or "confirmed"                                *)
  open,      (* the confirmation each request is about to act on; or None      *)
  effects    (* how often each draft has had its effect                        *)

vars == <<now, offer, status, open, effects>>

Offer(d, u, k) ==
  /\ offer[d] = None
  /\ k = "protected" => u \in Parent
  /\ \E until \in 0..(now + TTL) :
       offer' = [offer EXCEPT ![d] = [to |-> u, kind |-> k, until |-> until]]
  /\ UNCHANGED <<now, status, open, effects>>

Agree(r, u, d) ==
  /\ open[r] = None
  /\ offer[d] # None /\ status[d] = "open"
  /\ now <= offer[d].until
  /\ u \in Parent \/ u = offer[d].to
  /\ open' = [open EXCEPT ![r] = [by |-> u, draft |-> d]]
  /\ UNCHANGED <<now, offer, status, effects>>

Act(r) ==
  /\ open[r] # None
  /\ open[r].by \in Child => offer[open[r].draft].kind # "protected"
  /\ effects' = [effects EXCEPT ![open[r].draft] = @ + 1]
  /\ open' = [open EXCEPT ![r] = None]
  /\ UNCHANGED <<now, offer, status>>

Drop(r) ==
  /\ open' = [open EXCEPT ![r] = None]
  /\ UNCHANGED <<now, offer, status, effects>>

Close(d) ==
  /\ offer[d] # None
  /\ status' = [status EXCEPT ![d] = "closed"]
  /\ UNCHANGED <<now, offer, open, effects>>

Confirm(d) ==
  /\ effects[d] > 0
  /\ status' = [status EXCEPT ![d] = "confirmed"]
  /\ UNCHANGED <<now, offer, open, effects>>

Tick ==
  /\ now' = now + 1
  /\ UNCHANGED <<offer, status, open, effects>>

Init ==
  /\ now = 0
  /\ offer = [d \in Draft |-> None]
  /\ status = [d \in Draft |-> "open"]
  /\ open = [r \in Request |-> None]
  /\ effects = [d \in Draft |-> 0]
Next ==
  \/ \E d \in Draft : \/ Close(d) \/ Confirm(d)
                      \/ \E u \in Parent \cup Child, k \in Kind : Offer(d, u, k)
  \/ \E r \in Request : \/ Act(r) \/ Drop(r)
                        \/ \E u \in Parent \cup Child, d \in Draft : Agree(r, u, d)
  \/ Tick
Spec == Init /\ [][Next]_vars
=============================================================================
