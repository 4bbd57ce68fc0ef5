------------------------------- MODULE Pairing -------------------------------
(***************************************************************************)
(* How a family and its phones come to be: bootstrapParent of              *)
(* auth.service.ts, children.service.ts, the pairing codes and claims of    *)
(* devices.service.ts, the pairing card of MainActivity.kt and the          *)
(* registration of push tokens by it and by FamilyMessagingService.kt.      *)
(*                                                                         *)
(* A claim is a process, split where the handler awaits the database; the   *)
(* phone may lose its answer, or all its data, at any moment.  A refused    *)
(* request changes nothing and is not a step.                              *)
(***************************************************************************)
EXTENDS Integers, FiniteSets

CONSTANTS
  Parent,     (* parents who bootstrap a family, each once                  *)
  Child,      (* child profiles                                             *)
  Code,       (* rows of device_pairing_codes                               *)
  Phone,      (* phones                                                     *)
  Claim,      (* claims, each made once; a device row is known by its claim *)
  Lifetime,   (* how long a code is valid, in ticks                         *)
  MaxTime,    (* bound: the clock stops here                                *)
  MaxTokens,  (* bound: push tokens a phone gets                            *)
  MaxFaults   (* bound: lost answers, failed requests                       *)

None == "none"

ASSUME PairingAssumption ==
  /\ None \notin Parent \cup Child \cup Claim
  /\ Lifetime \in Nat /\ MaxTime \in Nat /\ MaxTokens \in Nat /\ MaxFaults \in Nat

VARIABLES
  now,
  bootstrap,  (* the bootstrapParent request of each parent                 *)
  family,     (* the parents who have a Family and a User row               *)
  parentOf,   (* ChildProfile: the family, named by its parent              *)
  code,       (* DevicePairingCode: child, expiry and claimedAt             *)
  device,     (* Device: the child it acts for and its fcmToken             *)
  claim,      (* the local state of each claim                              *)
  session,    (* the phone's child session: the deviceId in its tokens      *)
  token,      (* how many push tokens Firebase has given the phone          *)
  posts,      (* POST /devices/fcm-token under way                          *)
  faults

vars == <<now, bootstrap, family, parentOf, code, device, claim, session, token, posts, faults>>
familyVars == <<bootstrap, family, parentOf>>
phoneVars == <<session, token, posts>>

NoRow == [kind |-> "no row"]
Idle == [pc |-> "idle"]
PushToken == [phone: Phone, n: Nat]
Goto(d, pc) == claim' = [claim EXCEPT ![d] = [claim[d] EXCEPT !.pc = pc]]

(* bootstrapParent counts the parents, hashes the password for a while, and   *)
(* stores family and parent in one transaction.                              *)
FindNoParent(p) ==
  /\ bootstrap[p] = "idle" /\ family = {}
  /\ bootstrap' = [bootstrap EXCEPT ![p] = "hash"]
  /\ UNCHANGED <<now, family, parentOf, code, device, claim, phoneVars, faults>>
CreateParent(p) ==
  /\ bootstrap[p] = "hash"
  /\ bootstrap' = [bootstrap EXCEPT ![p] = "done"]
  /\ family' = family \cup {p}
  /\ UNCHANGED <<now, parentOf, code, device, claim, phoneVars, faults>>

CreateChild(p, c) ==
  /\ p \in family /\ parentOf[c] = None
  /\ parentOf' = [parentOf EXCEPT ![c] = p]
  /\ UNCHANGED <<now, bootstrap, family, code, device, claim, phoneVars, faults>>

(* createPairingCode: for a child of the parent's own family.                 *)
CreatePairingCode(p, c, k) ==
  /\ p \in family /\ parentOf[c] = p /\ code[k] = NoRow
  /\ code' = [code EXCEPT ![k] =
                [child |-> c, by |-> p, expiresAt |-> now + Lifetime, claimed |-> FALSE]]
  /\ UNCHANGED <<now, familyVars, device, claim, phoneVars, faults>>

(***************************************************************************)
(* claim                                                                   *)
(***************************************************************************)
Claimable(k) == code[k] # NoRow /\ ~code[k].claimed /\ code[k].expiresAt >= now

(* The pairing card is there while the phone has no session, and waits for    *)
(* one claim at a time.                                                      *)
Waiting(p) == \E d \in Claim : claim[d].pc \in {"store", "answer"} /\ claim[d].phone = p
FindCode(d, p, k) ==
  /\ claim[d] = Idle
  /\ session[p] = None /\ ~Waiting(p)
  /\ Claimable(k)
  /\ claim' = [claim EXCEPT ![d] = [pc |-> "store", phone |-> p, code |-> k]]
  /\ UNCHANGED <<now, familyVars, code, device, phoneVars, faults>>

(* One transaction: the device row and claimedAt.                             *)
StoredOnly(k) == UNCHANGED code   \* mutant: claimedAt is not written
Stored(k) == code' = [code EXCEPT ![k].claimed = TRUE]
NewDevice(d) ==
  device' = [device EXCEPT ![d] = [child |-> code[claim[d].code].child, fcmToken |-> NoRow]]
StoreDevice(d) ==
  /\ claim[d].pc \in {"store", "unheard"}
  /\ NewDevice(d)
  /\ Stored(claim[d].code)
  /\ Goto(d, IF claim[d].pc = "store" THEN "answer" ELSE "done")
  /\ UNCHANGED <<now, familyVars, phoneVars, faults>>

(* The phone saves its tokens, and the card asks Firebase for the push token  *)
(* and posts it.                                                             *)
Post(p, d, n, via) == [phone |-> p, device |-> d, n |-> n, via |-> via]
Paired(d) ==
  /\ claim[d].pc = "answer"
  /\ LET p == claim[d].phone
     IN  /\ session' = [session EXCEPT ![p] = d]
         /\ posts' = posts \cup {Post(p, d, token[p], "card")}
  /\ Goto(d, "done")
  /\ UNCHANGED <<now, familyVars, code, device, token, faults>>

(* The request fails, or its answer is lost, or the phone gives it up: a       *)
(* timeout, or another screen, while the request is still being answered.      *)
ClaimFails(d) ==
  /\ faults < MaxFaults
  /\ \/ claim[d].pc \in {"store", "answer", "unheard"} /\ Goto(d, "done")
     \/ claim[d].pc = "store" /\ Goto(d, "unheard")
  /\ faults' = faults + 1
  /\ UNCHANGED <<now, familyVars, code, device, phoneVars>>

(***************************************************************************)
(* Push tokens                                                             *)
(***************************************************************************)
(* Firebase replaces the token: onNewToken posts it.  Without a session that  *)
(* is refused.                                                               *)
NewToken(p) ==
  /\ token[p] < MaxTokens
  /\ token' = [token EXCEPT ![p] = @ + 1]
  /\ posts' = IF session[p] = None THEN posts
              ELSE posts \cup {Post(p, session[p], token[p] + 1, "service")}
  /\ UNCHANGED <<now, familyVars, code, device, claim, session, faults>>

(* The app's data is cleared: no session, another push token, and nobody who   *)
(* waits for an answer.                                                      *)
ClearData(p) ==
  /\ token[p] < MaxTokens
  /\ token' = [token EXCEPT ![p] = @ + 1]
  /\ session' = [session EXCEPT ![p] = None]
  /\ claim' = [d \in Claim |->
       IF claim[d].pc \notin {"store", "answer"} THEN claim[d]
       ELSE IF claim[d].phone # p THEN claim[d]
       ELSE [claim[d] EXCEPT !.pc = IF @ = "store" THEN "unheard" ELSE "done"]]
  /\ UNCHANGED <<now, familyVars, code, device, posts, faults>>

(* registerFcmToken: the row of the device that the access token names.       *)
TokenOwnersOfChild(d) ==   \* mutant: the rows of all devices of its child
  {e \in Claim : device[e] # NoRow /\ device[e].child = device[d].child}
TokenOwners(d) == {d}
RegisterFcmToken(x) ==
  /\ x \in posts
  /\ device' = [d \in Claim |->
       IF d \in TokenOwners(x.device)
       THEN [device[d] EXCEPT !.fcmToken = [phone |-> x.phone, n |-> x.n]] ELSE device[d]]
  /\ posts' = posts \ {x}
  /\ UNCHANGED <<now, familyVars, code, claim, session, token, faults>>

(* The pairing card leaves the screen once the phone is paired, and what its   *)
(* coroutine scope still does is cancelled: the fetch of the token, the post.  *)
CardLeaves(x) ==
  /\ x \in posts /\ x.via = "card"
  /\ posts' = posts \ {x}
  /\ UNCHANGED <<now, familyVars, code, device, claim, session, token, faults>>

PostFails(x) ==
  /\ faults < MaxFaults /\ x \in posts
  /\ posts' = posts \ {x}
  /\ faults' = faults + 1
  /\ UNCHANGED <<now, familyVars, code, device, claim, session, token>>

Tick ==
  /\ now < MaxTime
  /\ now' = now + 1
  /\ UNCHANGED <<familyVars, code, device, claim, phoneVars, faults>>

Init ==
  /\ now = 0
  /\ bootstrap = [p \in Parent |-> "idle"] /\ family = {}
  /\ parentOf = [c \in Child |-> None]
  /\ code = [k \in Code |-> NoRow]
  /\ device = [d \in Claim |-> NoRow]
  /\ claim = [d \in Claim |-> Idle]
  /\ session = [p \in Phone |-> None]
  /\ token = [p \in Phone |-> 0]
  /\ posts = {}
  /\ faults = 0

ClaimStep(d) == StoreDevice(d) \/ Paired(d)
Next ==
  \/ \E p \in Parent : \/ FindNoParent(p) \/ CreateParent(p)
                       \/ \E c \in Child : CreateChild(p, c) \/ \E k \in Code : CreatePairingCode(p, c, k)
  \/ \E d \in Claim : ClaimStep(d) \/ ClaimFails(d) \/ \E p \in Phone, k \in Code : FindCode(d, p, k)
  \/ \E p \in Phone : NewToken(p) \/ ClearData(p)
  \/ \E x \in posts : RegisterFcmToken(x) \/ CardLeaves(x) \/ PostFails(x)
  \/ Tick

Spec == Init /\ [][Next]_vars

(* Requests are answered in the end; people and Firebase do as they like.     *)
FairSpec ==
  /\ Spec
  /\ \A d \in Claim : WF_vars(ClaimStep(d))
  /\ WF_vars(\E x \in posts : RegisterFcmToken(x) \/ CardLeaves(x))

-----------------------------------------------------------------------------
Codes == [child: Child, by: Parent, expiresAt: Nat, claimed: BOOLEAN]
Devices == [child: Child, fcmToken: {NoRow} \cup PushToken]
Claims == [pc: {"store", "answer", "unheard", "done"}, phone: Phone, code: Code]
Posts == [phone: Phone, device: Claim, n: Nat, via: {"card", "service"}]

(* Every variable has its type, and a claim that was stored has its row.      *)
TypeOK ==
  /\ now \in Nat /\ faults \in Nat
  /\ bootstrap \in [Parent -> {"idle", "hash", "done"}] /\ family \subseteq Parent
  /\ parentOf \in [Child -> Parent \cup {None}]
  /\ code \in [Code -> Codes \cup {NoRow}]
  /\ device \in [Claim -> Devices \cup {NoRow}]
  /\ claim \in [Claim -> Claims \cup {Idle}]
  /\ session \in [Phone -> Claim \cup {None}]
  /\ token \in [Phone -> Nat]
  /\ posts \subseteq Posts
  /\ \A d \in Claim : claim[d] # Idle => code[claim[d].code] # NoRow
  /\ \A d \in Claim : claim[d].pc = "answer" => device[d] # NoRow
  /\ \A p \in Phone : session[p] # None => device[session[p]] # NoRow
  /\ \A x \in posts : device[x.device] # NoRow

(* A phone acts for the child whose parent made the code that was typed into   *)
(* it, and that code cannot be used again, whatever was lost on the way.       *)
PairedAsAgreed ==
  \A p \in Phone : session[p] # None =>
    LET k == code[claim[session[p]].code]
    IN  /\ device[session[p]].child = k.child
        /\ parentOf[k.child] = k.by
        /\ k.claimed

(* Why: every row is the child's for whom the code of its claim was made, and  *)
(* a code stays claimed, and a child in its family.                           *)
RowsAsAgreed ==
  \A d \in Claim : device[d] # NoRow =>
    claim[d] # Idle /\ device[d].child = code[claim[d].code].child /\ code[claim[d].code].claimed
CodesOfOwnChildren ==
  \A k \in Code : code[k] # NoRow => parentOf[code[k].child] = code[k].by
AgreedInv == TypeOK /\ RowsAsAgreed /\ CodesOfOwnChildren

(* A reminder for a child reaches no phone that now acts for another, or twice *)
(* the same: a push token that still works is in one row, that of the phone's  *)
(* session (push.ts sends to every row of the child).                         *)
ReminderReachesOwnPhone ==
  \A d \in Claim, p \in Phone :
    (device[d] # NoRow /\ device[d].fcmToken = [phone |-> p, n |-> token[p]]) => session[p] = d

(* Why: a phone types codes only while it has no session, and waits for one    *)
(* claim at a time; a post under way carries an old token, or is for the        *)
(* session of its phone; a row never holds a token that is still to come.       *)
TypesOneCode ==
  \A d \in Claim : claim[d].pc \in {"store", "answer"} =>
    /\ session[claim[d].phone] = None
    /\ \A e \in Claim : (claim[e].pc \in {"store", "answer"} /\ claim[e].phone = claim[d].phone) => e = d
PostsAreOwn ==
  \A x \in posts : x.n <= token[x.phone] /\ (x.n = token[x.phone] => session[x.phone] = x.device)
RowsAreOld ==
  \A d \in Claim : (device[d] # NoRow /\ device[d].fcmToken # NoRow) =>
    device[d].fcmToken.n <= token[device[d].fcmToken.phone]
PushInv == TypeOK /\ ReminderReachesOwnPhone /\ TypesOneCode /\ PostsAreOwn /\ RowsAreOld

(* "a one-time pairing code" (docs/features/auth-and-pairing.md:5): two claims  *)
(* that find the code unclaimed both store a device.                           *)
OneTimeCode ==
  \A d, e \in Claim :
    device[d] # NoRow /\ device[e] # NoRow /\ claim[d].code = claim[e].code => d = e

(* "Parent bootstrap already completed" (auth.service.ts:19): two requests that *)
(* count no parent both become one.                                           *)
OneBootstrap == Cardinality(family) <= 1

(* "paired child device registers/updates its FCM token"                       *)
(* (docs/features/auth-and-pairing.md:20): the registration of the card is      *)
(* cancelled with the card, and nothing repeats it.                           *)
PairedIsRegistered ==
  \A p \in Phone, d \in Claim :
    (session[p] = d) ~> (session[p] # d \/ device[d].fcmToken # NoRow)
=============================================================================
