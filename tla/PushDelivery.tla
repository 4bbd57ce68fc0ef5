----------------------------- MODULE PushDelivery ----------------------------
(***************************************************************************)
(* How the worker's reminders reach the phones that Pairing pairs:         *)
(* apps/worker/src/push.ts and onMessageReceived of                        *)
(* FamilyMessagingService.kt.                                              *)
(*                                                                         *)
(* The rows of the child are read once; each push is then sent on its own,  *)
(* for which it may have to ask Google for an access token first.  All of   *)
(* that takes time, in which phones are cleared and paired anew.  A push    *)
(* that fails is counted, not repeated.                                    *)
(***************************************************************************)
EXTENDS Pairing

CONSTANTS
  Reminder,   (* missions whose reminder is due (each is sent once)            *)
  TokenLife,  (* expires_in of Google's access tokens, in ticks                *)
  Margin      (* the 60 seconds before their end in which they are not used    *)

ASSUME PushAssumption == TokenLife \in Nat /\ Margin \in Nat

VARIABLES
  reminded,   (* the child of each reminder that was sent                      *)
  sends,      (* sendMissionReminder under way                                 *)
  access,     (* the cached access token                                       *)
  shown       (* how often each reminder came up on each phone                 *)

pushVars == <<reminded, sends, access, shown>>
allVars == <<vars, pushVars>>

(* getAccessToken: what is cached is used while it is good for a while.         *)
Usable == access # NoRow /\ access.expiresAt - Margin > now

RowsOfAll(c) == {d \in Claim : device[d] # NoRow /\ device[d].fcmToken # NoRow}   \* mutant
RowsOf(c) == {d \in Claim : device[d] # NoRow /\ device[d].fcmToken # NoRow /\ device[d].child = c}
Push(r, d) ==
  [reminder |-> r, row |-> d, token |-> device[d].fcmToken,
   pc |-> IF Usable THEN "send" ELSE "ask", asked |-> now]

(* sendMissionReminderToChildDevices: one query, then all pushes at once.       *)
SendReminder(r, c) ==
  /\ reminded[r] = None /\ parentOf[c] # None
  /\ reminded' = [reminded EXCEPT ![r] = c]
  /\ sends' = sends \cup {Push(r, d) : d \in RowsOf(c)}
  /\ UNCHANGED <<vars, access, shown>>

(* Google's answer: the token was issued somewhere on the way; the worker       *)
(* counts from when it asked.                                                  *)
ExpiresAtNow(x) == now + TokenLife   \* mutant: it counts from the answer
ExpiresAt(x) == x.asked + TokenLife
GotAccessToken(x) ==
  /\ x \in sends /\ x.pc = "ask"
  /\ \E issued \in x.asked..now : access' = [expiresAt |-> ExpiresAt(x), until |-> issued + TokenLife]
  /\ sends' = (sends \ {x}) \cup {[x EXCEPT !.pc = "send"]}
  /\ UNCHANGED <<vars, reminded, shown>>

(* Firebase knows a phone by its last token only; the phone opens the alarm.    *)
Delivered(x) ==
  /\ x \in sends /\ x.pc = "send"
  /\ x.token.n = token[x.token.phone]
  /\ shown' = [shown EXCEPT ![<<x.reminder, x.token.phone>>] = @ + 1]
  /\ sends' = sends \ {x}
  /\ UNCHANGED <<vars, reminded, access>>

(* Push is not configured, a request fails, the token is not known any more,    *)
(* or Firebase drops the message.                                              *)
SendFails(x) ==
  /\ x \in sends
  /\ sends' = sends \ {x}
  /\ UNCHANGED <<vars, reminded, access, shown>>

PushInit ==
  /\ Init
  /\ reminded = [r \in Reminder |-> None]
  /\ sends = {} /\ access = NoRow
  /\ shown = [s \in Reminder \X Phone |-> 0]

PushNext ==
  \/ Next /\ UNCHANGED pushVars
  \/ \E r \in Reminder, c \in Child : SendReminder(r, c)
  \/ \E x \in sends : GotAccessToken(x) \/ Delivered(x) \/ SendFails(x)

PushSpec == PushInit /\ [][PushNext]_allVars

-----------------------------------------------------------------------------
Sends == [reminder: Reminder, row: Claim, token: PushToken, pc: {"ask", "send"}, asked: Nat]

(* Types.                                                                      *)
PushTypeOK ==
  /\ TypeOK
  /\ reminded \in [Reminder -> Child \cup {None}]
  /\ sends \subseteq Sends
  /\ access \in [expiresAt: Nat, until: Nat] \cup {NoRow}
  /\ shown \in [Reminder \X Phone -> Nat]

(* A reminder comes up on a phone once, and only while that acts for its child, *)
(* although the rows were read before and phones are cleared and paired anew    *)
(* while the pushes are under way.                                             *)
ActsFor == [p \in Phone |-> IF session[p] = None THEN None ELSE device[session[p]].child]
Delivery == INSTANCE ReminderDelivery WITH actsFor <- ActsFor
ImplementsDelivery == Delivery!Spec

(* Why: a push under way is for the child of its row; if its token still works, *)
(* it is that of the row's session and the reminder has not come up there; a    *)
(* row is sent each reminder once, and is not replaced; what was not sent was   *)
(* not shown.                                                                 *)
RowsAreNew ==
  \A d \in Claim : claim[d].pc \in {"idle", "store", "unheard"} => device[d] = NoRow
PushesAreOwn ==
  \A x \in sends :
    /\ device[x.row] # NoRow /\ device[x.row].child = reminded[x.reminder]
    /\ reminded[x.reminder] # None
    /\ x.token.n <= token[x.token.phone]
    /\ x.token.n = token[x.token.phone] =>
         session[x.token.phone] = x.row /\ shown[<<x.reminder, x.token.phone>>] = 0
OnePushPerRow ==
  \A x, y \in sends : x.reminder = y.reminder /\ x.row = y.row => x = y
ShownWasSent ==
  \A r \in Reminder, p \in Phone : reminded[r] = None => shown[<<r, p>>] = 0
DeliveryInv ==
  PushTypeOK /\ PushInv /\ RowsAreNew /\ PushesAreOwn /\ OnePushPerRow /\ ShownWasSent

(* A cached access token that getAccessToken still hands out is one that Google *)
(* still accepts, and for the margin longer, although pushes ask for tokens at   *)
(* the same time and their answers come in any order.                           *)
CachedTokenWorks == Usable => access.until - Margin > now
=============================================================================
