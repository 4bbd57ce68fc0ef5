---------------------------- MODULE PairingProofs ----------------------------
(***************************************************************************)
(* Theorems about Pairing and PushDelivery, for any number of phones,      *)
(* codes, claims and reminders.  PushInv: a push token that still works is *)
(* in the row of its phone's session only.  AgreedInv: a phone acts for    *)
(* the child of its code.  DeliveryInv: a reminder comes up once, on a     *)
(* phone that acts for its child.                                          *)
(***************************************************************************)
EXTENDS PushDelivery, TLAPS

LEMMA NoRowIsNoRow ==
  /\ NoRow \notin Devices /\ NoRow \notin Codes /\ NoRow \notin PushToken
  /\ Idle \notin Claims
<1>1. DOMAIN NoRow = {"kind"}
  BY DEF NoRow
<1>2. \A r \in Devices : "child" \in DOMAIN r
  BY DEF Devices
<1>3. \A r \in Codes : "child" \in DOMAIN r
  BY DEF Codes
<1>4. \A r \in PushToken : "phone" \in DOMAIN r
  BY DEF PushToken
<1>5. \A r \in Claims : r.pc # "idle"
  BY DEF Claims
<1>6. QED
  BY <1>1, <1>2, <1>3, <1>4, <1>5 DEF Idle

(* A claim goes on: it stays the claim of its phone and code.                 *)
LEMMA GotoStep ==
  ASSUME TypeOK, NEW d \in Claim, claim[d].pc # "idle",
         NEW q \in {"store", "answer", "unheard", "done"}, Goto(d, q)
  PROVE  /\ claim' \in [Claim -> Claims \cup {Idle}]
         /\ claim[d] # Idle /\ claim'[d].pc = q
         /\ claim'[d].phone = claim[d].phone /\ claim'[d].code = claim[d].code
         /\ \A e \in Claim \ {d} : claim'[e] = claim[e]
<1>1. claim \in [Claim -> Claims \cup {Idle}]
  BY DEF TypeOK
<1>2. claim[d] \in Claims /\ claim[d] # Idle
  BY <1>1 DEF Idle
<1>3. [claim[d] EXCEPT !.pc = q] \in Claims
  BY <1>2 DEF Claims
<1>4. claim'[d] = [claim[d] EXCEPT !.pc = q] /\ \A e \in Claim \ {d} : claim'[e] = claim[e]
  BY <1>1 DEF Goto
<1>5. claim' \in [Claim -> Claims \cup {Idle}]
  BY <1>1, <1>3 DEF Goto
<1>6. /\ [claim[d] EXCEPT !.pc = q].pc = q
      /\ [claim[d] EXCEPT !.pc = q].phone = claim[d].phone
      /\ [claim[d] EXCEPT !.pc = q].code = claim[d].code
  BY <1>2 DEF Claims
<1>7. QED
  BY <1>2, <1>4, <1>5, <1>6

(* A new row: nothing that pointed at a row loses it.                         *)
LEMMA TypeStep ==
  ASSUME TypeOK, [Next]_vars
  PROVE  TypeOK'
<1> DEFINE Rows ==
      /\ \A d \in Claim : claim[d] # Idle => code[claim[d].code] # NoRow
      /\ \A d \in Claim : claim[d].pc = "answer" => device[d] # NoRow
      /\ \A p \in Phone : session[p] # None => device[session[p]] # NoRow
      /\ \A x \in posts : device[x.device] # NoRow
<1>n. None \notin Parent \cup Child \cup Claim /\ Lifetime \in Nat
  BY PairingAssumption
<1>r. NoRow \notin Devices /\ NoRow \notin Codes /\ NoRow \notin PushToken /\ Idle \notin Claims
  BY NoRowIsNoRow
<1>1. ASSUME NEW p \in Parent, FindNoParent(p) \/ CreateParent(p)
      PROVE  TypeOK'
  BY <1>1 DEF TypeOK, FindNoParent, CreateParent, phoneVars
<1>2. ASSUME NEW p \in Parent, NEW c \in Child, CreateChild(p, c)
      PROVE  TypeOK'
  BY <1>2 DEF TypeOK, CreateChild, phoneVars
<1>3. ASSUME NEW p \in Parent, NEW c \in Child, NEW k \in Code, CreatePairingCode(p, c, k)
      PROVE  TypeOK'
  <2> DEFINE r == [child |-> c, by |-> p, expiresAt |-> now + Lifetime, claimed |-> FALSE]
  <2>1. r \in Codes /\ r # NoRow
    <3>1. now + Lifetime \in Nat
      BY <1>n DEF TypeOK
    <3>2. r \in Codes
      BY <3>1 DEF Codes
    <3>3. QED
      BY <3>2, <1>r
  <2> HIDE DEF r
  <2>2. code' = [code EXCEPT ![k] = r] /\ UNCHANGED <<now, familyVars, device, claim, phoneVars, faults>>
    BY <1>3 DEF CreatePairingCode, r
  <2>3. code' \in [Code -> Codes \cup {NoRow}]
    BY <2>1, <2>2 DEF TypeOK
  <2>4. \A j \in Code : code[j] # NoRow => code'[j] # NoRow
    BY <2>1, <2>2 DEF TypeOK
  <2>5. Rows'
    <3>1. \A d \in Claim : claim[d] # Idle => claim[d].code \in Code
      BY DEF TypeOK, Claims
    <3>2. QED
      BY <2>2, <2>4, <3>1 DEF TypeOK, phoneVars
  <2>6. QED
    BY <2>2, <2>3, <2>5 DEF TypeOK, familyVars, phoneVars
<1>4. ASSUME NEW d \in Claim, NEW p \in Phone, NEW k \in Code, FindCode(d, p, k)
      PROVE  TypeOK'
  <2> DEFINE r == [pc |-> "store", phone |-> p, code |-> k]
  <2>1. r \in Claims /\ r.pc # "answer" /\ r.code = k /\ code[k] # NoRow
    BY <1>4 DEF Claims, FindCode, Claimable
  <2> HIDE DEF r
  <2>2. claim' = [claim EXCEPT ![d] = r] /\ UNCHANGED <<now, familyVars, code, device, phoneVars, faults>>
    BY <1>4 DEF FindCode, r
  <2>3. claim' \in [Claim -> Claims \cup {Idle}]
    BY <2>1, <2>2 DEF TypeOK
  <2>4. Rows'
    BY <2>1, <2>2 DEF TypeOK, phoneVars
  <2>5. QED
    BY <2>2, <2>3, <2>4 DEF TypeOK, familyVars, phoneVars
<1>5. ASSUME NEW d \in Claim, StoreDevice(d)
      PROVE  TypeOK'
  <2> DEFINE q == IF claim[d].pc = "store" THEN "answer" ELSE "done"
             k == claim[d].code
             r == [child |-> code[k].child, fcmToken |-> NoRow]
  <2>1. q \in {"store", "answer", "unheard", "done"} /\ claim[d].pc # "idle" /\ Goto(d, q)
    BY <1>5 DEF StoreDevice
  <2>2. claim[d] \in Claims /\ k \in Code /\ code[k] \in Codes
    BY <2>1 DEF TypeOK, Claims, Idle
  <2>3. r \in Devices /\ r # NoRow
    BY <2>2, <1>r DEF Devices, Codes
  <2>4. [code[k] EXCEPT !.claimed = TRUE] \in Codes /\ [code[k] EXCEPT !.claimed = TRUE] # NoRow
    BY <2>2, <1>r DEF Codes
  <2>5. device' = [device EXCEPT ![d] = r] /\ code' = [code EXCEPT ![k] = [code[k] EXCEPT !.claimed = TRUE]]
        /\ UNCHANGED <<now, familyVars, phoneVars, faults>>
    BY <1>5, <2>2 DEF StoreDevice, NewDevice, Stored, TypeOK
  <2>6. /\ claim' \in [Claim -> Claims \cup {Idle}]
        /\ \A e \in Claim : claim'[e] # Idle => claim[e] # Idle /\ claim'[e].code = claim[e].code
        /\ \A e \in Claim \ {d} : claim'[e] = claim[e]
    BY <2>1, GotoStep
  <2> HIDE DEF q, k, r
  <2>7. device' \in [Claim -> Devices \cup {NoRow}] /\ code' \in [Code -> Codes \cup {NoRow}]
    BY <2>2, <2>3, <2>4, <2>5 DEF TypeOK
  <2>8. /\ \A j \in Code : code[j] # NoRow => code'[j] # NoRow
        /\ \A e \in Claim : device[e] # NoRow => device'[e] # NoRow
        /\ device'[d] # NoRow
    BY <2>2, <2>3, <2>4, <2>5 DEF TypeOK
  <2>9. Rows'
    <3>1. \A e \in Claim : claim[e] # Idle => claim[e].code \in Code
      BY DEF TypeOK, Claims
    <3>2. \A x \in posts : x.device \in Claim
      BY DEF TypeOK, Posts
    <3>3. \A e \in Claim : claim'[e] # Idle => code'[claim'[e].code] # NoRow
      BY <2>6, <2>8, <3>1 DEF TypeOK
    <3>4. \A e \in Claim : claim'[e].pc = "answer" => device'[e] # NoRow
      BY <2>6, <2>8 DEF TypeOK
    <3>5. \A p \in Phone : session'[p] # None => device'[session'[p]] # NoRow
      BY <2>5, <2>8 DEF TypeOK, phoneVars
    <3>6. \A x \in posts' : device'[x.device] # NoRow
      BY <2>5, <2>8, <3>2 DEF TypeOK, phoneVars
    <3>7. QED
      BY <3>3, <3>4, <3>5, <3>6
  <2>10. QED
    BY <2>5, <2>6, <2>7, <2>9 DEF TypeOK, familyVars, phoneVars
<1>6. ASSUME NEW d \in Claim, Paired(d)
      PROVE  TypeOK'
  <2> DEFINE p == claim[d].phone
             x == Post(p, d, token[p], "card")
  <2>1. Goto(d, "done") /\ claim[d].pc = "answer"
    BY <1>6 DEF Paired
  <2>2. p \in Phone /\ token[p] \in Nat /\ device[d] # NoRow
    BY <2>1 DEF TypeOK, Claims, Idle
  <2>3. x \in Posts /\ x.device = d
    BY <2>2 DEF Posts, Post
  <2>4. session' = [session EXCEPT ![p] = d] /\ posts' = posts \cup {x}
        /\ UNCHANGED <<now, familyVars, code, device, token, faults>>
    BY <1>6 DEF Paired
  <2>5. /\ claim' \in [Claim -> Claims \cup {Idle}]
        /\ \A e \in Claim : claim'[e] # Idle => claim[e] # Idle /\ claim'[e].code = claim[e].code
        /\ \A e \in Claim : claim'[e].pc = "answer" => claim[e].pc = "answer"
    BY <2>1, GotoStep
  <2> HIDE DEF p, x
  <2>6. Rows'
    BY <2>2, <2>3, <2>4, <2>5 DEF TypeOK
  <2>7. session' \in [Phone -> Claim \cup {None}] /\ posts' \subseteq Posts
    BY <2>2, <2>3, <2>4 DEF TypeOK
  <2>8. QED
    BY <2>4, <2>5, <2>6, <2>7 DEF TypeOK, familyVars
<1>7. ASSUME NEW d \in Claim, ClaimFails(d)
      PROVE  TypeOK'
  <2>1. /\ \E q \in {"unheard", "done"} : Goto(d, q)
        /\ claim[d].pc # "idle" /\ faults' = faults + 1
    BY <1>7 DEF ClaimFails
  <2>2. UNCHANGED <<now, familyVars, code, device, phoneVars>>
    BY <1>7 DEF ClaimFails
  <2>3. /\ claim' \in [Claim -> Claims \cup {Idle}]
        /\ \A e \in Claim : claim'[e] # Idle => claim[e] # Idle /\ claim'[e].code = claim[e].code
        /\ \A e \in Claim : claim'[e].pc = "answer" => claim[e].pc = "answer"
    BY <2>1, GotoStep
  <2>4. Rows'
    BY <2>2, <2>3 DEF TypeOK, phoneVars
  <2>5. QED
    BY <2>1, <2>2, <2>3, <2>4 DEF TypeOK, familyVars, phoneVars
<1>8. ASSUME NEW p \in Phone, NewToken(p)
      PROVE  TypeOK'
  <2> DEFINE x == Post(p, session[p], token[p] + 1, "service")
  <2>1. token' = [token EXCEPT ![p] = token[p] + 1] /\ posts' = (IF session[p] = None THEN posts ELSE posts \cup {x})
        /\ UNCHANGED <<now, familyVars, code, device, claim, session, faults>>
    BY <1>8 DEF NewToken, TypeOK
  <2>2. session[p] # None => x \in Posts /\ device[x.device] # NoRow
    BY DEF TypeOK, Post, Posts
  <2> HIDE DEF x
  <2>3. posts' \subseteq Posts /\ token' \in [Phone -> Nat]
    BY <2>1, <2>2 DEF TypeOK
  <2>4. Rows'
    BY <2>1, <2>2 DEF TypeOK
  <2>5. QED
    BY <2>1, <2>3, <2>4 DEF TypeOK, familyVars
<1>9. ASSUME NEW p \in Phone, ClearData(p)
      PROVE  TypeOK'
  <2>1. token' = [token EXCEPT ![p] = token[p] + 1] /\ session' = [session EXCEPT ![p] = None]
        /\ UNCHANGED <<now, familyVars, code, device, posts, faults>>
    BY <1>9 DEF ClearData, TypeOK
  <2>2. \A e \in Claim : \/ claim'[e] = claim[e]
                         \/ /\ claim[e].pc \in {"store", "answer"}
                            /\ \E q \in {"unheard", "done"} : claim'[e] = [claim[e] EXCEPT !.pc = q]
    BY <1>9 DEF ClearData
  <2>3. ASSUME NEW e \in Claim
        PROVE  /\ claim'[e] \in Claims \cup {Idle}
               /\ claim'[e] # Idle => claim[e] # Idle /\ claim'[e].code = claim[e].code
               /\ claim'[e].pc = "answer" => claim[e].pc = "answer"
    <3>1. CASE claim'[e] = claim[e]
      BY <3>1 DEF TypeOK
    <3>2. ASSUME claim[e].pc \in {"store", "answer"}, NEW q \in {"unheard", "done"},
                 claim'[e] = [claim[e] EXCEPT !.pc = q]
          PROVE  /\ claim'[e] \in Claims
                 /\ claim[e] # Idle /\ claim'[e].code = claim[e].code /\ claim'[e].pc = q
      <4>1. claim[e] \in Claims /\ claim[e] # Idle
        BY <3>2 DEF TypeOK, Idle
      <4>2. QED
        BY <3>2, <4>1 DEF Claims
    <3>3. QED
      BY <2>2, <3>1, <3>2
  <2>4. claim' \in [Claim -> Claims \cup {Idle}]
    <3>1. claim' = [e \in Claim |-> claim'[e]]
      BY <1>9 DEF ClearData
    <3>2. QED
      BY <2>3, <3>1
  <2>5. Rows'
    BY <2>1, <2>3 DEF TypeOK
  <2>6. token' \in [Phone -> Nat] /\ session' \in [Phone -> Claim \cup {None}]
    BY <2>1 DEF TypeOK
  <2>7. QED
    BY <2>1, <2>4, <2>5, <2>6 DEF TypeOK, familyVars
<1>10. ASSUME NEW x \in posts, RegisterFcmToken(x)
       PROVE  TypeOK'
  <2> DEFINE r == [phone |-> x.phone, n |-> x.n]
             d == x.device
  <2>1. x \in Posts /\ d \in Claim /\ device[d] # NoRow /\ device[d] \in Devices /\ r \in PushToken
    BY DEF TypeOK, Posts, PushToken
  <2>2. [device[d] EXCEPT !.fcmToken = r] \in Devices
    BY <2>1 DEF Devices
  <2>3. device' = [device EXCEPT ![d] = [device[d] EXCEPT !.fcmToken = r]]
    BY <1>10, <2>1 DEF RegisterFcmToken, TokenOwners, TypeOK
  <2>4. posts' \subseteq posts /\ UNCHANGED <<now, familyVars, code, claim, session, token, faults>>
    BY <1>10 DEF RegisterFcmToken
  <2>5. device' \in [Claim -> Devices \cup {NoRow}] /\ \A e \in Claim : device[e] # NoRow => device'[e] # NoRow
    BY <2>1, <2>2, <2>3, <1>r DEF TypeOK
  <2>6. Rows'
    <3>1. \A y \in posts : y.device \in Claim
      BY DEF TypeOK, Posts
    <3>2. QED
      BY <2>4, <2>5, <3>1 DEF TypeOK
  <2>7. QED
    BY <2>4, <2>5, <2>6 DEF TypeOK, familyVars
<1>11. ASSUME NEW x \in posts, CardLeaves(x) \/ PostFails(x)
       PROVE  TypeOK'
  BY <1>11 DEF TypeOK, CardLeaves, PostFails, familyVars
<1>12. CASE Tick
  BY <1>12 DEF TypeOK, Tick, familyVars, phoneVars
<1>13. CASE UNCHANGED vars
  BY <1>13 DEF TypeOK, vars
<1>14. QED
  BY <1>1, <1>2, <1>3, <1>4, <1>5, <1>6, <1>7, <1>8, <1>9, <1>10, <1>11, <1>12, <1>13 DEF Next, ClaimStep

(* The rows that hold a push token of a phone.                                *)
LEMMA TokenOfRow ==
  ASSUME TypeOK, NEW d \in Claim, device[d] # NoRow, device[d].fcmToken # NoRow
  PROVE  /\ device[d].fcmToken \in PushToken
         /\ device[d].fcmToken.phone \in Phone /\ device[d].fcmToken.n \in Nat
BY DEF TypeOK, Devices, PushToken

(* The push tokens and sessions of phones that nothing happens to.            *)
LEMMA StillHome ==
  ASSUME TypeOK, PushInv, UNCHANGED <<device, session, token>>, posts' \subseteq posts
  PROVE  (ReminderReachesOwnPhone /\ PostsAreOwn /\ RowsAreOld)'
BY DEF PushInv, ReminderReachesOwnPhone, PostsAreOwn, RowsAreOld

LEMMA StillTypes ==
  ASSUME PushInv, UNCHANGED <<claim, session>>
  PROVE  TypesOneCode'
BY DEF PushInv, TypesOneCode

LEMMA HomeStep ==
  ASSUME PushInv, [Next]_vars
  PROVE  PushInv'
<1>t. TypeOK /\ TypeOK'
  BY TypeStep DEF PushInv
<1>n. None \notin Claim
  BY PairingAssumption
<1>r. NoRow \notin PushToken /\ NoRow \notin Devices
  BY NoRowIsNoRow
<1>1. ASSUME NEW p \in Parent, \/ FindNoParent(p) \/ CreateParent(p)
                               \/ \E c \in Child : CreateChild(p, c) \/ \E k \in Code : CreatePairingCode(p, c, k)
      PROVE  UNCHANGED <<device, claim, session, token, posts>>
  BY <1>1 DEF FindNoParent, CreateParent, CreateChild, CreatePairingCode, phoneVars
<1>2. ASSUME UNCHANGED <<device, claim, session, token, posts>>
      PROVE  PushInv'
  BY <1>t, <1>2, StillHome, StillTypes DEF PushInv
<1>3. ASSUME NEW d \in Claim, NEW p \in Phone, NEW k \in Code, FindCode(d, p, k)
      PROVE  PushInv'
  <2>1. (ReminderReachesOwnPhone /\ PostsAreOwn /\ RowsAreOld)'
    BY <1>3, <1>t, StillHome DEF FindCode, phoneVars
  <2>2. TypesOneCode'
    <3> DEFINE r == [pc |-> "store", phone |-> p, code |-> k]
    <3>1. /\ claim' = [claim EXCEPT ![d] = r] /\ session' = session
          /\ session[p] = None /\ ~Waiting(p) /\ r.phone = p
      BY <1>3 DEF FindCode, phoneVars
    <3> HIDE DEF r
    <3>2. QED
      BY <3>1, <1>t DEF TypeOK, PushInv, TypesOneCode, Waiting
  <2>3. QED
    BY <1>t, <2>1, <2>2 DEF PushInv
<1>4. ASSUME NEW d \in Claim, StoreDevice(d)
      PROVE  PushInv'
  <2> DEFINE q == IF claim[d].pc = "store" THEN "answer" ELSE "done"
             r == [child |-> code[claim[d].code].child, fcmToken |-> NoRow]
  <2>1. q \in {"store", "answer", "unheard", "done"} /\ claim[d].pc # "idle" /\ Goto(d, q)
        /\ (q = "answer" => claim[d].pc = "store") /\ q # "store"
    BY <1>4 DEF StoreDevice
  <2>2. device' = [device EXCEPT ![d] = r] /\ UNCHANGED <<session, token, posts>>
    BY <1>4 DEF StoreDevice, NewDevice, phoneVars
  <2>3. r.fcmToken = NoRow /\ \A p \in Phone : NoRow # [phone |-> p, n |-> token[p]]
    BY <1>r, <1>t DEF TypeOK, PushToken
  <2>4. \A e \in Claim : claim'[e].pc \in {"store", "answer"} =>
          claim[e].pc \in {"store", "answer"} /\ claim'[e].phone = claim[e].phone
    <3>1. claim'[d].pc = q /\ claim'[d].phone = claim[d].phone /\ \A e \in Claim \ {d} : claim'[e] = claim[e]
      BY <1>t, <2>1, GotoStep
    <3>2. QED
      BY <2>1, <3>1
  <2> HIDE DEF q, r
  <2>5. TypesOneCode'
    BY <2>2, <2>4 DEF PushInv, TypesOneCode
  <2>6. ReminderReachesOwnPhone'
    BY <1>t, <2>2, <2>3 DEF PushInv, TypeOK, ReminderReachesOwnPhone
  <2>7. PostsAreOwn'
    BY <2>2 DEF PushInv, PostsAreOwn
  <2>8. RowsAreOld'
    BY <1>t, <2>2, <2>3 DEF PushInv, TypeOK, RowsAreOld
  <2>9. QED
    BY <1>t, <2>5, <2>6, <2>7, <2>8 DEF PushInv
<1>5. ASSUME NEW d \in Claim, Paired(d)
      PROVE  PushInv'
  <2> DEFINE p == claim[d].phone
             x == Post(p, d, token[p], "card")
  <2>1. Goto(d, "done") /\ claim[d].pc = "answer"
    BY <1>5 DEF Paired
  <2>2. p \in Phone /\ token[p] \in Nat /\ session[p] = None
    BY <1>t, <2>1 DEF PushInv, TypesOneCode, TypeOK, Claims, Idle
  <2>3. x.phone = p /\ x.device = d /\ x.n = token[p]
    BY DEF Post
  <2>4. session' = [session EXCEPT ![p] = d] /\ posts' = posts \cup {x} /\ UNCHANGED <<device, token>>
    BY <1>5 DEF Paired
  <2>5. \A e \in Claim : claim'[e].pc \in {"store", "answer"} => e # d /\ claim'[e] = claim[e]
    BY <1>t, <2>1, GotoStep
  <2>6. \A e \in Claim \ {d} : claim[e].pc \in {"store", "answer"} => claim[e].phone # p
    BY <2>1 DEF PushInv, TypesOneCode
  <2> HIDE DEF p, x
  <2>7. TypesOneCode'
    <3>1. ASSUME NEW e \in Claim, claim'[e].pc \in {"store", "answer"}
          PROVE  session'[claim'[e].phone] = None
      BY <1>t, <2>2, <2>4, <2>5, <2>6, <3>1 DEF PushInv, TypesOneCode, TypeOK
    <3>2. ASSUME NEW e \in Claim, NEW f \in Claim, claim'[e].pc \in {"store", "answer"},
                 claim'[f].pc \in {"store", "answer"}, claim'[e].phone = claim'[f].phone
          PROVE  f = e
      BY <2>5, <3>2 DEF PushInv, TypesOneCode
    <3>3. QED
      BY <3>1, <3>2 DEF TypesOneCode
  <2>8. ReminderReachesOwnPhone'
    BY <1>t, <1>n, <2>2, <2>4 DEF PushInv, TypeOK, ReminderReachesOwnPhone
  <2>9. PostsAreOwn'
    <3>1. ASSUME NEW y \in posts
          PROVE  y.n <= token[y.phone] /\ (y.n = token[y.phone] => session'[y.phone] = y.device)
      <4>1. y.device \in Claim /\ y.phone \in Phone
        BY <1>t DEF TypeOK, Posts
      <4>2. y.n <= token[y.phone] /\ (y.n = token[y.phone] => session[y.phone] = y.device)
        BY DEF PushInv, PostsAreOwn
      <4>3. QED
        BY <1>t, <1>n, <2>2, <2>4, <4>1, <4>2 DEF TypeOK
    <3>2. x.n <= token[x.phone] /\ session'[x.phone] = x.device
      BY <1>t, <2>2, <2>3, <2>4 DEF TypeOK
    <3>3. QED
      BY <2>4, <3>1, <3>2 DEF PostsAreOwn
  <2>10. RowsAreOld'
    BY <2>4 DEF PushInv, RowsAreOld
  <2>11. QED
    BY <1>t, <2>7, <2>8, <2>9, <2>10 DEF PushInv
<1>6. ASSUME NEW d \in Claim, ClaimFails(d)
      PROVE  PushInv'
  <2>1. (\E q \in {"unheard", "done"} : Goto(d, q)) /\ claim[d].pc # "idle" /\ UNCHANGED <<device, phoneVars>>
    BY <1>6 DEF ClaimFails
  <2>2. \A e \in Claim : claim'[e].pc \in {"store", "answer"} => claim'[e] = claim[e]
    BY <1>t, <2>1, GotoStep
  <2>3. TypesOneCode'
    BY <2>1, <2>2 DEF PushInv, TypesOneCode, phoneVars
  <2>4. (ReminderReachesOwnPhone /\ PostsAreOwn /\ RowsAreOld)'
    BY <1>t, <2>1, StillHome DEF phoneVars
  <2>5. QED
    BY <1>t, <2>3, <2>4 DEF PushInv
<1>7. ASSUME NEW p \in Phone, token' = [token EXCEPT ![p] = token[p] + 1], UNCHANGED <<device>>,
             \A q \in Phone \ {p} : session'[q] = session[q]
      PROVE  ReminderReachesOwnPhone' /\ RowsAreOld'
  <2>1. \A q \in Phone : token[q] \in Nat /\ token'[q] = IF q = p THEN token[q] + 1 ELSE token[q]
    BY <1>t, <1>7 DEF TypeOK
  <2>2. RowsAreOld'
    <3>1. ASSUME NEW d \in Claim, device[d] # NoRow, device[d].fcmToken # NoRow
          PROVE  device[d].fcmToken.n <= token'[device[d].fcmToken.phone]
      BY <1>t, <2>1, <3>1, TokenOfRow DEF PushInv, RowsAreOld
    <3>2. QED
      BY <1>7, <3>1 DEF RowsAreOld
  <2>3. ReminderReachesOwnPhone'
    <3>1. ASSUME NEW d \in Claim, NEW q \in Phone, device[d] # NoRow,
                 device[d].fcmToken = [phone |-> q, n |-> token'[q]]
          PROVE  session'[q] = d
      <4>1. [phone |-> q, n |-> token'[q]] \in PushToken
        BY <2>1 DEF PushToken
      <4>2. device[d].fcmToken.n = token'[q] /\ device[d].fcmToken.phone = q /\ token'[q] <= token[q]
        BY <1>r, <3>1, <4>1 DEF PushInv, RowsAreOld
      <4>3. q # p
        BY <2>1, <4>2
      <4>4. QED
        BY <1>7, <2>1, <3>1, <4>3 DEF PushInv, ReminderReachesOwnPhone
    <3>2. QED
      BY <1>7, <3>1 DEF ReminderReachesOwnPhone
  <2>4. QED
    BY <2>2, <2>3
<1>8. ASSUME NEW p \in Phone, NewToken(p)
      PROVE  PushInv'
  <2> DEFINE x == Post(p, session[p], token[p] + 1, "service")
  <2>1. token' = [token EXCEPT ![p] = token[p] + 1] /\ UNCHANGED <<device, claim, session>>
        /\ posts' = (IF session[p] = None THEN posts ELSE posts \cup {x})
    BY <1>8 DEF NewToken
  <2>2. x.phone = p /\ x.device = session[p] /\ x.n = token[p] + 1
    BY DEF Post
  <2> HIDE DEF x
  <2>3. ReminderReachesOwnPhone' /\ RowsAreOld' /\ TypesOneCode'
    BY <1>7, <2>1, StillTypes
  <2>4. \A q \in Phone : token[q] \in Nat /\ token'[q] = IF q = p THEN token[q] + 1 ELSE token[q]
    BY <1>t, <2>1 DEF TypeOK
  <2>5. \A y \in posts : y.phone \in Phone /\ y.n \in Nat
    BY <1>t DEF TypeOK, Posts
  <2>6. PostsAreOwn'
    <3>1. ASSUME NEW y \in posts
          PROVE  y.n <= token'[y.phone] /\ (y.n = token'[y.phone] => session[y.phone] = y.device)
      BY <2>4, <2>5 DEF PushInv, PostsAreOwn
    <3>2. x.n <= token'[x.phone] /\ session[x.phone] = x.device
      BY <2>2, <2>4
    <3>3. QED
      BY <2>1, <3>1, <3>2 DEF PostsAreOwn
  <2>7. QED
    BY <1>t, <2>3, <2>6 DEF PushInv
<1>9. ASSUME NEW p \in Phone, ClearData(p)
      PROVE  PushInv'
  <2>1. token' = [token EXCEPT ![p] = token[p] + 1] /\ session' = [session EXCEPT ![p] = None]
        /\ UNCHANGED <<device, posts>>
    BY <1>9 DEF ClearData
  <2>2. \A q \in Phone \ {p} : session'[q] = session[q]
    BY <1>t, <2>1 DEF TypeOK
  <2>3. ReminderReachesOwnPhone' /\ RowsAreOld'
    BY <1>7, <2>1, <2>2
  <2>4. PostsAreOwn'
    <3>1. \A q \in Phone : token[q] \in Nat /\ token'[q] = IF q = p THEN token[q] + 1 ELSE token[q]
      BY <1>t, <2>1 DEF TypeOK
    <3>2. \A y \in posts : y.phone \in Phone /\ y.n \in Nat
      BY <1>t DEF TypeOK, Posts
    <3>3. ASSUME NEW y \in posts
          PROVE  y.n <= token'[y.phone] /\ (y.n = token'[y.phone] => session'[y.phone] = y.device)
      BY <2>2, <3>1, <3>2 DEF PushInv, PostsAreOwn
    <3>4. QED
      BY <2>1, <3>3 DEF PostsAreOwn
  <2>5. TypesOneCode'
    <3>1. \A e \in Claim : claim'[e].pc \in {"store", "answer"} => claim'[e] = claim[e] /\ claim[e].phone # p
      <4>1. ASSUME NEW e \in Claim, claim[e].pc \in {"store", "answer"}, claim[e].phone = p
            PROVE  claim'[e].pc \notin {"store", "answer"}
        <5>1. claim[e] \in Claims
          BY <1>t, <4>1 DEF TypeOK, Idle
        <5>2. \E q \in {"unheard", "done"} : claim'[e] = [claim[e] EXCEPT !.pc = q]
          BY <1>9, <4>1 DEF ClearData
        <5>3. QED
          BY <5>1, <5>2 DEF Claims
      <4>2. \A e \in Claim : ~(claim[e].pc \in {"store", "answer"} /\ claim[e].phone = p) => claim'[e] = claim[e]
        BY <1>9 DEF ClearData
      <4>3. QED
        BY <4>1, <4>2
    <3>2. \A e \in Claim : claim[e].pc \in {"store", "answer"} => claim[e].phone \in Phone
      BY <1>t DEF TypeOK, Claims, Idle
    <3>3. QED
      BY <2>2, <3>1, <3>2 DEF PushInv, TypesOneCode
  <2>6. QED
    BY <1>t, <2>3, <2>4, <2>5 DEF PushInv
<1>10. ASSUME NEW x \in posts, RegisterFcmToken(x)
       PROVE  PushInv'
  <2> DEFINE r == [phone |-> x.phone, n |-> x.n]
             d == x.device
             row == [device[d] EXCEPT !.fcmToken = r]
  <2>1. d \in Claim /\ x.phone \in Phone /\ device[d] \in Devices /\ x.n \in Nat /\ r \in PushToken
    BY <1>t DEF TypeOK, Posts, PushToken
  <2>2. row.fcmToken = r /\ r.phone = x.phone /\ r.n = x.n
    BY <2>1 DEF Devices
  <2> HIDE DEF row
  <2>3. device' = [device EXCEPT ![d] = row]
    BY <1>10, <1>t DEF RegisterFcmToken, TokenOwners, TypeOK, row
  <2>4. posts' \subseteq posts /\ UNCHANGED <<claim, session, token>>
    BY <1>10 DEF RegisterFcmToken
  <2>5. x.n <= token[x.phone] /\ (x.n = token[x.phone] => session[x.phone] = d)
    BY DEF PushInv, PostsAreOwn
  <2>6. TypesOneCode' /\ PostsAreOwn'
    BY <2>4, StillTypes DEF PushInv, PostsAreOwn
  <2> HIDE DEF r, d
  <2>7. RowsAreOld'
    BY <1>t, <2>1, <2>2, <2>3, <2>4, <2>5 DEF PushInv, RowsAreOld, TypeOK
  <2>8. ReminderReachesOwnPhone'
    <3>1. ASSUME NEW p \in Phone, r = [phone |-> p, n |-> token[p]]
          PROVE  session[p] = d
      BY <2>2, <2>5, <3>1
    <3>2. \A e \in Claim \ {d} : device'[e] = device[e]
      BY <1>t, <2>3 DEF TypeOK
    <3>3. device'[d].fcmToken = r
      BY <1>t, <2>1, <2>2, <2>3 DEF TypeOK
    <3>4. QED
      BY <2>1, <2>4, <3>1, <3>2, <3>3 DEF PushInv, ReminderReachesOwnPhone
  <2>9. QED
    BY <1>t, <2>6, <2>7, <2>8 DEF PushInv
<1>11. ASSUME NEW x \in posts, CardLeaves(x) \/ PostFails(x)
       PROVE  PushInv'
  <2>1. posts' \subseteq posts /\ UNCHANGED <<device, claim, session, token>>
    BY <1>11 DEF CardLeaves, PostFails
  <2>2. QED
    BY <1>t, <2>1, StillHome, StillTypes DEF PushInv
<1>12. Tick => UNCHANGED <<device, claim, session, token, posts>>
  BY DEF Tick, phoneVars
<1>13. UNCHANGED vars => UNCHANGED <<device, claim, session, token, posts>>
  BY DEF vars
<1>14. QED
  BY <1>1, <1>2, <1>3, <1>4, <1>5, <1>6, <1>8, <1>9, <1>10, <1>11, <1>12, <1>13 DEF Next, ClaimStep

(* A reminder for a child reaches no phone that now acts for another.         *)
THEOREM ReminderStaysHome == Spec => []ReminderReachesOwnPhone
<1>1. Init => PushInv
  <2>1. SUFFICES ASSUME Init PROVE PushInv
    OBVIOUS
  <2>2. TypeOK
    BY <2>1 DEF Init, TypeOK, Idle
  <2>3. ReminderReachesOwnPhone /\ PostsAreOwn /\ RowsAreOld
    BY <2>1 DEF Init, ReminderReachesOwnPhone, PostsAreOwn, RowsAreOld
  <2>4. TypesOneCode
    BY <2>1 DEF Init, TypesOneCode, Idle
  <2>5. QED
    BY <2>2, <2>3, <2>4 DEF PushInv
<1>2. PushInv /\ [Next]_vars => PushInv'
  BY HomeStep
<1>3. PushInv => ReminderReachesOwnPhone
  BY DEF PushInv
<1>4. QED
  BY <1>1, <1>2, <1>3, PTL DEF Spec

(* Claims go on as they were: they keep their codes.                          *)
LEMMA StillAgreed ==
  ASSUME AgreedInv, TypeOK', UNCHANGED <<code, parentOf>>,
         \A e \in Claim : claim[e] # Idle => claim'[e] # Idle /\ claim'[e].code = claim[e].code,
         \A e \in Claim : device'[e] # NoRow => device[e] # NoRow /\ device'[e].child = device[e].child
  PROVE  AgreedInv'
BY DEF AgreedInv, RowsAsAgreed, CodesOfOwnChildren

LEMMA AgreedStep ==
  ASSUME AgreedInv, [Next]_vars
  PROVE  AgreedInv'
<1>t. TypeOK /\ TypeOK'
  BY TypeStep DEF AgreedInv
<1>n. None \notin Parent
  BY PairingAssumption
<1>1. ASSUME UNCHANGED <<code, parentOf, claim, device>>
      PROVE  AgreedInv'
  BY <1>t, <1>1, StillAgreed
<1>2. ASSUME NEW p \in Parent, FindNoParent(p) \/ CreateParent(p)
      PROVE  AgreedInv'
  BY <1>1, <1>2 DEF FindNoParent, CreateParent
<1>3. ASSUME NEW p \in Parent, NEW c \in Child, CreateChild(p, c)
      PROVE  AgreedInv'
  <2>1. /\ parentOf[c] = None /\ parentOf' = [parentOf EXCEPT ![c] = p]
        /\ UNCHANGED <<code, claim, device>>
    BY <1>3 DEF CreateChild
  <2>2. \A k \in Code : code[k] # NoRow => code[k].child \in Child /\ code[k].by \in Parent
    BY <1>t DEF TypeOK, Codes
  <2>3. CodesOfOwnChildren'
    BY <1>t, <1>n, <2>1, <2>2 DEF AgreedInv, CodesOfOwnChildren, TypeOK
  <2>4. QED
    BY <1>t, <2>1, <2>3 DEF AgreedInv, RowsAsAgreed
<1>4. ASSUME NEW p \in Parent, NEW c \in Child, NEW k \in Code, CreatePairingCode(p, c, k)
      PROVE  AgreedInv'
  <2> DEFINE r == [child |-> c, by |-> p, expiresAt |-> now + Lifetime, claimed |-> FALSE]
  <2>1. /\ parentOf[c] = p /\ code[k] = NoRow /\ code' = [code EXCEPT ![k] = r]
        /\ UNCHANGED <<parentOf, claim, device>> /\ r.child = c /\ r.by = p
    BY <1>4 DEF CreatePairingCode, familyVars
  <2> HIDE DEF r
  <2>2. CodesOfOwnChildren'
    BY <1>t, <2>1 DEF AgreedInv, CodesOfOwnChildren, TypeOK
  <2>3. \A d \in Claim : claim[d] # Idle => claim[d].code # k
    BY <1>t, <2>1 DEF TypeOK
  <2>4. RowsAsAgreed'
    BY <1>t, <2>1, <2>3 DEF AgreedInv, RowsAsAgreed, TypeOK
  <2>5. QED
    BY <1>t, <2>2, <2>4 DEF AgreedInv
<1>5. ASSUME NEW d \in Claim, NEW p \in Phone, NEW k \in Code, FindCode(d, p, k)
      PROVE  AgreedInv'
  <2> DEFINE r == [pc |-> "store", phone |-> p, code |-> k]
  <2>1. claim[d] = Idle /\ claim' = [claim EXCEPT ![d] = r] /\ UNCHANGED <<code, parentOf, device>>
    BY <1>5 DEF FindCode, familyVars
  <2> HIDE DEF r
  <2>2. \A e \in Claim : claim[e] # Idle => claim'[e] = claim[e]
    BY <1>t, <2>1 DEF TypeOK
  <2>3. QED
    BY <1>t, <2>1, <2>2, StillAgreed
<1>6. ASSUME NEW d \in Claim, StoreDevice(d)
      PROVE  AgreedInv'
  <2> DEFINE q == IF claim[d].pc = "store" THEN "answer" ELSE "done"
             k == claim[d].code
             r == [child |-> code[k].child, fcmToken |-> NoRow]
             row == [code[k] EXCEPT !.claimed = TRUE]
  <2>1. q \in {"store", "answer", "unheard", "done"} /\ claim[d].pc # "idle" /\ Goto(d, q)
    BY <1>6 DEF StoreDevice
  <2>2. k \in Code /\ code[k] \in Codes
    BY <1>t, <2>1 DEF TypeOK, Claims, Idle
  <2>3. row.claimed /\ row.child = code[k].child /\ row.by = code[k].by /\ code[k] # NoRow
    BY <2>2, NoRowIsNoRow DEF Codes
  <2>4. device' = [device EXCEPT ![d] = r] /\ code' = [code EXCEPT ![k] = row] /\ UNCHANGED parentOf
    BY <1>t, <1>6, <2>2 DEF StoreDevice, NewDevice, Stored, TypeOK, familyVars
  <2>5. /\ claim[d] # Idle /\ claim'[d].code = k /\ claim'[d].pc = q
        /\ \A e \in Claim \ {d} : claim'[e] = claim[e]
    BY <1>t, <2>1, GotoStep
  <2>6. claim'[d] # Idle /\ r.child = code[k].child
    BY <2>1, <2>5 DEF Idle
  <2> HIDE DEF q, r, row
  <2>7. \A j \in Code : /\ code'[j].child = code[j].child /\ code'[j].by = code[j].by
                        /\ code'[j] # NoRow => code[j] # NoRow
    BY <1>t, <2>2, <2>3, <2>4 DEF TypeOK
  <2>8. \A j \in Code : code[j].claimed => code'[j].claimed
    BY <1>t, <2>2, <2>3, <2>4 DEF TypeOK
  <2>9. CodesOfOwnChildren'
    BY <2>4, <2>7 DEF AgreedInv, CodesOfOwnChildren
  <2>10. RowsAsAgreed'
    <3>1. device'[d].child = code'[k].child /\ code'[k].claimed
      BY <1>t, <2>2, <2>3, <2>4, <2>6, <2>7 DEF TypeOK
    <3>2. ASSUME NEW e \in Claim \ {d}, device'[e] # NoRow
          PROVE  claim'[e] # Idle /\ device'[e].child = code'[claim'[e].code].child /\ code'[claim'[e].code].claimed
      <4>1. device'[e] = device[e] /\ claim'[e] = claim[e]
        BY <1>t, <2>4, <2>5 DEF TypeOK
      <4>2. claim[e] # Idle /\ claim[e].code \in Code
        BY <1>t, <3>2, <4>1 DEF AgreedInv, RowsAsAgreed, TypeOK, Claims
      <4>3. device[e].child = code[claim[e].code].child /\ code[claim[e].code].claimed
        BY <3>2, <4>1 DEF AgreedInv, RowsAsAgreed
      <4>4. device[e].child = code'[claim[e].code].child
        BY <2>7, <4>2, <4>3
      <4>5. code'[claim[e].code].claimed
        BY <2>8, <4>2, <4>3
      <4>6. QED
        BY <4>1, <4>2, <4>4, <4>5
    <3>3. QED
      BY <2>5, <2>6, <3>1, <3>2 DEF RowsAsAgreed
  <2>11. QED
    BY <1>t, <2>9, <2>10 DEF AgreedInv
<1>7. ASSUME NEW d \in Claim, Paired(d) \/ ClaimFails(d)
      PROVE  AgreedInv'
  <2>1. /\ claim[d].pc # "idle" /\ \E q \in {"unheard", "done"} : Goto(d, q)
        /\ UNCHANGED <<code, parentOf, device>>
    BY <1>7 DEF Paired, ClaimFails, familyVars
  <2>2. \A e \in Claim : claim[e] # Idle => claim'[e] # Idle /\ claim'[e].code = claim[e].code
    <3>1. PICK q \in {"unheard", "done"} : Goto(d, q)
      BY <2>1
    <3>2. claim'[d].pc = q /\ claim'[d].code = claim[d].code /\ \A e \in Claim \ {d} : claim'[e] = claim[e]
      BY <1>t, <2>1, <3>1, GotoStep
    <3>3. claim'[d] # Idle
      BY <3>2 DEF Idle
    <3>4. QED
      BY <3>2, <3>3
  <2>3. QED
    BY <1>t, <2>1, <2>2, StillAgreed
<1>8. ASSUME NEW p \in Phone, NewToken(p)
      PROVE  AgreedInv'
  BY <1>1, <1>8 DEF NewToken, familyVars
<1>9. ASSUME NEW p \in Phone, ClearData(p)
      PROVE  AgreedInv'
  <2>1. UNCHANGED <<code, parentOf, device>>
    BY <1>9 DEF ClearData, familyVars
  <2>2. ASSUME NEW e \in Claim, claim[e] # Idle
        PROVE  claim'[e] # Idle /\ claim'[e].code = claim[e].code
    <3>1. claim[e] \in Claims
      BY <1>t, <2>2 DEF TypeOK
    <3>2. claim'[e] = claim[e] \/ \E q \in {"unheard", "done"} : claim'[e] = [claim[e] EXCEPT !.pc = q]
      BY <1>9 DEF ClearData
    <3>3. \A q \in {"unheard", "done"} :
            [claim[e] EXCEPT !.pc = q].pc = q /\ [claim[e] EXCEPT !.pc = q].code = claim[e].code
      BY <3>1 DEF Claims
    <3>4. \A q \in {"unheard", "done"} : [claim[e] EXCEPT !.pc = q] # Idle
      BY <3>3 DEF Idle
    <3>5. QED
      BY <2>2, <3>2, <3>3, <3>4
  <2>3. QED
    BY <1>t, <2>1, <2>2, StillAgreed
<1>10. ASSUME NEW x \in posts, RegisterFcmToken(x)
       PROVE  AgreedInv'
  <2>1. UNCHANGED <<code, parentOf, claim>> /\ x.device \in Claim /\ device[x.device] # NoRow
    BY <1>10, <1>t DEF RegisterFcmToken, familyVars, TypeOK, Posts
  <2>2. ASSUME NEW e \in Claim, device'[e] # NoRow
        PROVE  device[e] # NoRow /\ device'[e].child = device[e].child
    <3>1. device'[e] = IF e = x.device THEN [device[e] EXCEPT !.fcmToken = [phone |-> x.phone, n |-> x.n]]
                                       ELSE device[e]
      BY <1>10 DEF RegisterFcmToken, TokenOwners
    <3>2. device[e] # NoRow
      BY <2>1, <2>2, <3>1
    <3>3. device[e] \in Devices
      BY <1>t, <3>2 DEF TypeOK
    <3>4. [device[e] EXCEPT !.fcmToken = [phone |-> x.phone, n |-> x.n]].child = device[e].child
      BY <3>3 DEF Devices
    <3>5. QED
      BY <3>1, <3>2, <3>4
  <2>3. QED
    BY <1>t, <2>1, <2>2, StillAgreed
<1>11. ASSUME NEW x \in posts, CardLeaves(x) \/ PostFails(x)
       PROVE  AgreedInv'
  BY <1>1, <1>11 DEF CardLeaves, PostFails, familyVars
<1>12. Tick => UNCHANGED <<code, parentOf, claim, device>>
  BY DEF Tick, familyVars
<1>13. UNCHANGED vars => UNCHANGED <<code, parentOf, claim, device>>
  BY DEF vars
<1>14. QED
  BY <1>1, <1>2, <1>3, <1>4, <1>5, <1>6, <1>7, <1>8, <1>9, <1>10, <1>11, <1>12, <1>13 DEF Next, ClaimStep

(* A phone acts for the child for whom the code that was typed into it was     *)
(* made, and that code is spent.                                             *)
THEOREM PairingFollowsAgreement == Spec => []PairedAsAgreed
<1>1. Init => AgreedInv
  <2>1. SUFFICES ASSUME Init PROVE AgreedInv
    OBVIOUS
  <2>2. TypeOK
    BY <2>1 DEF Init, TypeOK, Idle
  <2>3. RowsAsAgreed /\ CodesOfOwnChildren
    BY <2>1 DEF Init, RowsAsAgreed, CodesOfOwnChildren
  <2>4. QED
    BY <2>2, <2>3 DEF AgreedInv
<1>2. AgreedInv /\ [Next]_vars => AgreedInv'
  BY AgreedStep
<1>3. AgreedInv => PairedAsAgreed
  <2>1. SUFFICES ASSUME AgreedInv, NEW p \in Phone, session[p] # None
                 PROVE  LET k == code[claim[session[p]].code]
                        IN  /\ device[session[p]].child = k.child
                            /\ parentOf[k.child] = k.by
                            /\ k.claimed
    BY DEF PairedAsAgreed
  <2>2. session[p] \in Claim /\ device[session[p]] # NoRow /\ claim[session[p]] # Idle
    BY <2>1 DEF AgreedInv, TypeOK, RowsAsAgreed
  <2>3. claim[session[p]].code \in Code /\ code[claim[session[p]].code] # NoRow
    BY <2>1, <2>2 DEF AgreedInv, TypeOK, Claims
  <2>4. QED
    BY <2>1, <2>2, <2>3 DEF AgreedInv, RowsAsAgreed, CodesOfOwnChildren
<1>4. QED
  BY <1>1, <1>2, <1>3, PTL DEF Spec

-----------------------------------------------------------------------------
(* What a step of Pairing may do to rows, push tokens and sessions: a row       *)
(* keeps its child; a phone's session stays while its push token does.          *)
RowsStay ==
  \A d \in Claim : device[d] # NoRow => device'[d] # NoRow /\ device'[d].child = device[d].child
TokensGrow ==
  \A p \in Phone :
    /\ token[p] <= token'[p]
    /\ token'[p] = token[p] /\ session[p] # None => session'[p] = session[p]
OneSession ==
  \/ session' = session
  \/ \E p \in Phone, s \in Claim \cup {None} :
       session' = [session EXCEPT ![p] = s] /\ (s = None \/ session[p] = None)

LEMMA PairingStep ==
  ASSUME PushInv, RowsAreNew, [Next]_vars
  PROVE  RowsStay /\ TokensGrow /\ OneSession /\ RowsAreNew'
<1>t. TypeOK /\ TypesOneCode
  BY DEF PushInv
<1>1. ASSUME UNCHANGED <<device, claim, session, token>>
      PROVE  RowsStay /\ TokensGrow /\ OneSession /\ RowsAreNew'
  BY <1>t, <1>1 DEF RowsStay, TokensGrow, OneSession, RowsAreNew, TypeOK
<1>2. ASSUME NEW p \in Parent, \/ FindNoParent(p) \/ CreateParent(p)
                               \/ \E c \in Child : CreateChild(p, c) \/ \E k \in Code : CreatePairingCode(p, c, k)
      PROVE  UNCHANGED <<device, claim, session, token>>
  BY <1>2 DEF FindNoParent, CreateParent, CreateChild, CreatePairingCode, phoneVars
<1>3. ASSUME NEW d \in Claim, NEW p \in Phone, NEW k \in Code, FindCode(d, p, k)
      PROVE  RowsStay /\ TokensGrow /\ OneSession /\ RowsAreNew'
  <2> DEFINE r == [pc |-> "store", phone |-> p, code |-> k]
  <2>1. claim[d] = Idle /\ claim' = [claim EXCEPT ![d] = r] /\ UNCHANGED <<device, session, token>>
    BY <1>3 DEF FindCode, phoneVars
  <2>2. claim[d].pc = "idle"
    BY <2>1 DEF Idle
  <2> HIDE DEF r
  <2>3. \A e \in Claim : e # d => claim'[e] = claim[e]
    BY <1>t, <2>1 DEF TypeOK
  <2>4. RowsAreNew'
    BY <2>1, <2>2, <2>3 DEF RowsAreNew
  <2>5. QED
    BY <1>t, <2>1, <2>4 DEF RowsStay, TokensGrow, OneSession, TypeOK
<1>4. ASSUME NEW d \in Claim, StoreDevice(d)
      PROVE  RowsStay /\ TokensGrow /\ OneSession /\ RowsAreNew'
  <2> DEFINE q == IF claim[d].pc = "store" THEN "answer" ELSE "done"
             r == [child |-> code[claim[d].code].child, fcmToken |-> NoRow]
  <2>1. claim[d].pc \in {"store", "unheard"} /\ Goto(d, q) /\ q \in {"answer", "done"}
    BY <1>4 DEF StoreDevice
  <2>2. device' = [device EXCEPT ![d] = r] /\ UNCHANGED <<session, token>>
    BY <1>4 DEF StoreDevice, NewDevice, phoneVars
  <2>3. device[d] = NoRow
    BY <2>1 DEF RowsAreNew
  <2>4. claim'[d].pc = q /\ \A e \in Claim \ {d} : claim'[e] = claim[e]
    BY <1>t, <2>1, GotoStep
  <2> HIDE DEF q, r
  <2>5. \A e \in Claim \ {d} : device'[e] = device[e]
    BY <1>t, <2>2 DEF TypeOK
  <2>6. RowsAreNew'
    BY <2>1, <2>4, <2>5 DEF RowsAreNew
  <2>7. RowsStay
    BY <2>3, <2>5 DEF RowsStay
  <2>8. QED
    BY <1>t, <2>2, <2>6, <2>7 DEF TokensGrow, OneSession, TypeOK
<1>5. ASSUME NEW d \in Claim, Paired(d) \/ ClaimFails(d)
      PROVE  RowsStay /\ TokensGrow /\ OneSession /\ RowsAreNew'
  <2>1. /\ claim[d].pc # "idle" /\ UNCHANGED <<device, token>>
        /\ Goto(d, "done") \/ (claim[d].pc = "store" /\ Goto(d, "unheard"))
    BY <1>5 DEF Paired, ClaimFails, phoneVars
  <2>2. OneSession /\ TokensGrow
    <3>1. CASE ClaimFails(d)
      <4>1. UNCHANGED <<session, token>>
        BY <3>1 DEF ClaimFails, phoneVars
      <4>2. OneSession
        BY <4>1 DEF OneSession
      <4>3. TokensGrow
        BY <1>t, <4>1 DEF TokensGrow, TypeOK
      <4>4. QED
        BY <4>2, <4>3
    <3>2. CASE Paired(d)
      <4>1. claim[d].pc = "answer" /\ session' = [session EXCEPT ![claim[d].phone] = d]
        BY <3>2 DEF Paired
      <4>2. session[claim[d].phone] = None
        BY <1>t, <4>1 DEF TypesOneCode
      <4>3. claim[d].phone \in Phone
        BY <1>t, <4>1 DEF TypeOK, Claims, Idle
      <4>4. OneSession
        BY <4>1, <4>2, <4>3 DEF OneSession
      <4>5. TokensGrow
        BY <1>t, <2>1, <4>1, <4>2, <4>3 DEF TokensGrow, TypeOK
      <4>6. QED
        BY <4>4, <4>5
    <3>3. QED
      BY <1>5, <3>1, <3>2
  <2>3. PICK q \in {"done", "unheard"} : Goto(d, q) /\ (q = "unheard" => claim[d].pc = "store")
    BY <2>1
  <2>4. claim'[d].pc = q /\ \A e \in Claim \ {d} : claim'[e] = claim[e]
    BY <1>t, <2>1, <2>3, GotoStep
  <2>5. RowsAreNew'
    BY <2>1, <2>3, <2>4 DEF RowsAreNew
  <2>6. QED
    BY <2>1, <2>2, <2>5 DEF RowsStay
<1>6. ASSUME NEW p \in Phone, NewToken(p)
      PROVE  RowsStay /\ TokensGrow /\ OneSession /\ RowsAreNew'
  BY <1>t, <1>6 DEF NewToken, RowsStay, TokensGrow, OneSession, RowsAreNew, TypeOK
<1>7. ASSUME NEW p \in Phone, ClearData(p)
      PROVE  RowsStay /\ TokensGrow /\ OneSession /\ RowsAreNew'
  <2>1. /\ token' = [token EXCEPT ![p] = @ + 1] /\ session' = [session EXCEPT ![p] = None]
        /\ device' = device
    BY <1>7 DEF ClearData
  <2>2. ASSUME NEW e \in Claim, claim'[e].pc \in {"idle", "store", "unheard"}
        PROVE  claim[e].pc \in {"idle", "store", "unheard"}
    <3>1. CASE claim[e].pc \notin {"store", "answer"}
      BY <1>7, <2>2, <3>1 DEF ClearData
    <3>2. CASE claim[e].pc = "answer"
      <4>1. claim[e] \in Claims
        BY <1>t, <3>2 DEF TypeOK, Idle
      <4>2. [claim[e] EXCEPT !.pc = "done"].pc = "done"
        BY <4>1 DEF Claims
      <4>3. claim'[e] = claim[e] \/ claim'[e] = [claim[e] EXCEPT !.pc = "done"]
        BY <1>7, <3>2 DEF ClearData
      <4>4. QED
        BY <2>2, <3>2, <4>2, <4>3
    <3>3. QED
      BY <3>1, <3>2
  <2>3. RowsAreNew'
    BY <2>1, <2>2 DEF RowsAreNew
  <2>4. OneSession
    BY <2>1 DEF OneSession
  <2>5. TokensGrow
    BY <1>t, <2>1 DEF TokensGrow, TypeOK
  <2>6. QED
    BY <2>1, <2>3, <2>4, <2>5 DEF RowsStay
<1>8. ASSUME NEW x \in posts, RegisterFcmToken(x)
      PROVE  RowsStay /\ TokensGrow /\ OneSession /\ RowsAreNew'
  <2>1. UNCHANGED <<claim, session, token>> /\ x.device \in Claim /\ device[x.device] # NoRow
    BY <1>8, <1>t DEF RegisterFcmToken, TypeOK, Posts
  <2> DEFINE fresh == [phone |-> x.phone, n |-> x.n]
  <2>2. \A e \in Claim : device'[e] = IF e = x.device THEN [device[e] EXCEPT !.fcmToken = fresh] ELSE device[e]
    BY <1>8 DEF RegisterFcmToken, TokenOwners
  <2>3. device[x.device] \in Devices
    BY <1>t, <2>1 DEF TypeOK
  <2>4. fresh \in PushToken
    BY <1>8, <1>t DEF TypeOK, Posts, PushToken
  <2> HIDE DEF fresh
  <2>5. [device[x.device] EXCEPT !.fcmToken = fresh] \in Devices
        /\ [device[x.device] EXCEPT !.fcmToken = fresh].child = device[x.device].child
    BY <2>3, <2>4 DEF Devices
  <2>6. RowsStay
    BY <2>2, <2>5, NoRowIsNoRow DEF RowsStay
  <2>7. RowsAreNew'
    BY <2>1, <2>2 DEF RowsAreNew
  <2>8. QED
    BY <1>t, <2>1, <2>6, <2>7 DEF TokensGrow, OneSession, TypeOK
<1>9. ASSUME NEW x \in posts, CardLeaves(x) \/ PostFails(x)
      PROVE  UNCHANGED <<device, claim, session, token>>
  BY <1>9 DEF CardLeaves, PostFails
<1>10. Tick \/ UNCHANGED vars => UNCHANGED <<device, claim, session, token>>
  BY DEF Tick, vars, phoneVars
<1>11. QED
  BY <1>1, <1>2, <1>3, <1>4, <1>5, <1>6, <1>7, <1>8, <1>9, <1>10 DEF Next, ClaimStep

(* What Pairing does leaves the pushes under way as they were meant.           *)
LEMMA PairingKeepsDelivery ==
  ASSUME DeliveryInv, [Next]_vars, UNCHANGED pushVars
  PROVE  DeliveryInv'
<1>1. RowsStay /\ TokensGrow /\ RowsAreNew'
  BY PairingStep DEF DeliveryInv
<1>2. PushInv' /\ TypeOK'
  BY HomeStep, TypeStep DEF DeliveryInv, PushTypeOK
<1>3. UNCHANGED <<reminded, sends, access, shown>>
  BY DEF pushVars
<1>4. PushTypeOK' /\ OnePushPerRow' /\ ShownWasSent'
  BY <1>2, <1>3 DEF DeliveryInv, PushTypeOK, OnePushPerRow, ShownWasSent
<1>5. PushesAreOwn'
  <2>1. SUFFICES ASSUME NEW x \in sends
                 PROVE  /\ device'[x.row] # NoRow /\ device'[x.row].child = reminded[x.reminder]
                        /\ reminded[x.reminder] # None
                        /\ x.token.n <= token'[x.token.phone]
                        /\ x.token.n = token'[x.token.phone] =>
                             session'[x.token.phone] = x.row /\ shown[<<x.reminder, x.token.phone>>] = 0
    BY <1>3 DEF PushesAreOwn
  <2>2. x.row \in Claim /\ x.token.phone \in Phone /\ x.token.n \in Nat
    BY DEF DeliveryInv, PushTypeOK, Sends, PushToken
  <2>3. /\ device[x.row] # NoRow /\ device[x.row].child = reminded[x.reminder]
        /\ reminded[x.reminder] # None
        /\ x.token.n <= token[x.token.phone]
        /\ x.token.n = token[x.token.phone] =>
             session[x.token.phone] = x.row /\ shown[<<x.reminder, x.token.phone>>] = 0
    BY DEF DeliveryInv, PushesAreOwn
  <2>4. token[x.token.phone] \in Nat /\ token'[x.token.phone] \in Nat
        /\ token[x.token.phone] <= token'[x.token.phone]
    BY <1>1, <1>2, <2>2 DEF DeliveryInv, PushTypeOK, TypeOK, TokensGrow
  <2>5. x.row # None
    BY <2>2, PairingAssumption
  <2>6. ASSUME x.token.n = token'[x.token.phone]
        PROVE  session'[x.token.phone] = x.row /\ shown[<<x.reminder, x.token.phone>>] = 0
    <3>1. token'[x.token.phone] = token[x.token.phone]
      BY <2>2, <2>3, <2>4, <2>6
    <3>2. QED
      BY <1>1, <2>2, <2>3, <2>5, <2>6, <3>1 DEF TokensGrow
  <2>7. device'[x.row] # NoRow /\ device'[x.row].child = reminded[x.reminder]
    BY <1>1, <2>2, <2>3 DEF RowsStay
  <2>8. x.token.n <= token'[x.token.phone]
    BY <2>2, <2>3, <2>4
  <2>9. QED
    BY <2>3, <2>6, <2>7, <2>8
<1>6. QED
  BY <1>1, <1>2, <1>4, <1>5 DEF DeliveryInv

(* The pushes of a reminder that is sent now: to the rows of its child, of      *)
(* which only that of a phone's session can hold its token.                    *)
LEMMA PushIsOwn ==
  ASSUME DeliveryInv, NEW r \in Reminder, NEW c \in Child, NEW d \in RowsOf(c)
  PROVE  /\ Push(r, d) \in Sends
         /\ Push(r, d).reminder = r /\ Push(r, d).row = d
         /\ device[d] # NoRow /\ device[d].child = c
         /\ Push(r, d).token.n <= token[Push(r, d).token.phone]
         /\ Push(r, d).token.n = token[Push(r, d).token.phone] =>
              session[Push(r, d).token.phone] = d
<1> DEFINE t == device[d].fcmToken
<1>1. d \in Claim /\ device[d] # NoRow /\ t # NoRow /\ device[d].child = c
  BY DEF RowsOf
<1>2. t \in PushToken /\ t.phone \in Phone /\ t.n \in Nat
  BY <1>1, TokenOfRow DEF DeliveryInv, PushTypeOK
<1>3. Push(r, d).reminder = r /\ Push(r, d).row = d /\ Push(r, d).token = t
  BY DEF Push
<1>4. Push(r, d) \in Sends
  BY <1>1, <1>2 DEF Push, Sends, DeliveryInv, PushTypeOK, TypeOK
<1>5. t.n <= token[t.phone]
  BY <1>1 DEF DeliveryInv, PushInv, RowsAreOld
<1>6. ASSUME t.n = token[t.phone]
      PROVE  session[t.phone] = d
  <2>1. t = [phone |-> t.phone, n |-> token[t.phone]]
    BY <1>2, <1>6 DEF PushToken
  <2>2. QED
    BY <1>1, <1>2, <2>1 DEF DeliveryInv, PushInv, ReminderReachesOwnPhone
<1> HIDE DEF t
<1>7. QED
  BY <1>1, <1>3, <1>4, <1>5, <1>6

LEMMA SendKeepsDelivery ==
  ASSUME DeliveryInv, NEW r \in Reminder, NEW c \in Child, SendReminder(r, c)
  PROVE  DeliveryInv'
<1> DEFINE new == {Push(r, d) : d \in RowsOf(c)}
<1>1. /\ reminded[r] = None /\ reminded' = [reminded EXCEPT ![r] = c]
      /\ sends' = sends \cup new
      /\ UNCHANGED <<vars, access, shown>>
  BY DEF SendReminder
<1>2. UNCHANGED <<device, token, session>>
  BY <1>1 DEF vars, phoneVars
<1>3. /\ TypeOK /\ PushInv /\ RowsAreNew
      /\ UNCHANGED <<now, bootstrap, family, parentOf, code, device, claim, session, token, posts, faults>>
  BY <1>1 DEF vars, phoneVars, familyVars, DeliveryInv, PushTypeOK
<1>4. TypeOK' /\ PushInv' /\ RowsAreNew'
  <2>1. UNCHANGED vars
    BY <1>1
  <2>2. QED
    BY <2>1, <1>3, TypeStep, HomeStep, PairingStep
<1>5. c # None
  BY PairingAssumption
<1>6. new \subseteq Sends
  BY PushIsOwn
<1>7. \A x \in sends : x.reminder # r /\ x.reminder \in Reminder
  BY <1>1 DEF DeliveryInv, PushesAreOwn, PushTypeOK, Sends
<1>8. PushTypeOK'
  BY <1>1, <1>4, <1>6 DEF DeliveryInv, PushTypeOK
<1>9. /\ reminded'[r] = c /\ \A s \in Reminder \ {r} : reminded'[s] = reminded[s]
  BY <1>1 DEF DeliveryInv, PushTypeOK
<1>10. \A p \in Phone : shown[<<r, p>>] = 0
  BY <1>1 DEF DeliveryInv, ShownWasSent
<1>11. PushesAreOwn'
  <2>1. ASSUME NEW x \in sends
        PROVE  /\ device'[x.row] # NoRow /\ device'[x.row].child = reminded'[x.reminder]
               /\ reminded'[x.reminder] # None
               /\ x.token.n <= token'[x.token.phone]
               /\ x.token.n = token'[x.token.phone] =>
                    session'[x.token.phone] = x.row /\ shown'[<<x.reminder, x.token.phone>>] = 0
    BY <1>1, <1>2, <1>7, <1>9 DEF DeliveryInv, PushesAreOwn
  <2>2. ASSUME NEW d \in RowsOf(c), NEW x, x = Push(r, d)
        PROVE  /\ device'[x.row] # NoRow /\ device'[x.row].child = reminded'[x.reminder]
               /\ reminded'[x.reminder] # None
               /\ x.token.n <= token'[x.token.phone]
               /\ x.token.n = token'[x.token.phone] =>
                    session'[x.token.phone] = x.row /\ shown'[<<x.reminder, x.token.phone>>] = 0
    <3>1. /\ x \in Sends /\ x.reminder = r /\ x.row = d
          /\ device[d] # NoRow /\ device[d].child = c
          /\ x.token.n <= token[x.token.phone]
          /\ x.token.n = token[x.token.phone] => session[x.token.phone] = d
      BY <2>2, PushIsOwn
    <3>2. x.token.phone \in Phone
      BY <3>1 DEF Sends, PushToken
    <3>3. QED
      BY <1>1, <1>2, <1>5, <1>9, <1>10, <3>1, <3>2
  <2>3. QED
    BY <1>1, <2>1, <2>2 DEF PushesAreOwn
<1>12. OnePushPerRow'
  <2>1. SUFFICES ASSUME NEW x \in sends', NEW y \in sends', x.reminder = y.reminder, x.row = y.row
                 PROVE  x = y
    BY DEF OnePushPerRow
  <2>2. \A z \in new : z.reminder = r /\ z = Push(r, z.row)
    BY PushIsOwn
  <2>3. CASE x \in new
    <3>1. y \in new
      BY <1>1, <1>7, <2>1, <2>2, <2>3
    <3>2. x = Push(r, x.row) /\ y = Push(r, y.row)
      BY <2>2, <2>3, <3>1
    <3>3. QED
      BY <2>1, <3>2
  <2>4. CASE x \in sends
    <3>1. y \in sends
      BY <1>1, <1>7, <2>1, <2>2, <2>4
    <3>2. QED
      BY <2>1, <2>4, <3>1 DEF DeliveryInv, OnePushPerRow
  <2>5. QED
    BY <1>1, <2>3, <2>4
<1>13. ShownWasSent'
  BY <1>1, <1>5, <1>9 DEF DeliveryInv, ShownWasSent
<1>14. QED
  BY <1>4, <1>8, <1>11, <1>12, <1>13 DEF DeliveryInv

(* One push goes on: an access token, an answer, a failure.                    *)
LEMMA PushKeepsDelivery ==
  ASSUME DeliveryInv, NEW x \in sends, GotAccessToken(x) \/ Delivered(x) \/ SendFails(x)
  PROVE  DeliveryInv'
<1>1. UNCHANGED <<vars, reminded>>
  BY DEF GotAccessToken, Delivered, SendFails
<1>2. TypeOK' /\ PushInv' /\ RowsAreNew' /\ UNCHANGED <<now, device, token, session>>
  <2>1. TypeOK /\ PushInv /\ RowsAreNew
    BY DEF DeliveryInv, PushTypeOK
  <2>2. UNCHANGED vars
    BY <1>1
  <2>3. UNCHANGED <<now, device, token, session>>
    BY <2>2 DEF vars, phoneVars
  <2>4. QED
    BY <2>1, <2>2, <2>3, TypeStep, HomeStep, PairingStep
<1>3. x \in Sends /\ x.reminder \in Reminder /\ x.token.phone \in Phone /\ x.asked \in Nat
  BY DEF DeliveryInv, PushTypeOK, Sends, PushToken
<1>4. now \in Nat /\ TokenLife \in Nat
  BY PushAssumption DEF DeliveryInv, PushTypeOK, TypeOK
<1>5. CASE SendFails(x)
  <2>1. sends' = sends \ {x} /\ UNCHANGED <<access, shown>>
    BY <1>5 DEF SendFails
  <2>2. PushTypeOK'
    BY <1>1, <1>2, <2>1 DEF DeliveryInv, PushTypeOK
  <2>3. PushesAreOwn'
    BY <1>1, <1>2, <2>1 DEF DeliveryInv, PushesAreOwn
  <2>4. OnePushPerRow' /\ ShownWasSent'
    BY <1>1, <2>1 DEF DeliveryInv, OnePushPerRow, ShownWasSent
  <2>5. QED
    BY <1>2, <2>2, <2>3, <2>4 DEF DeliveryInv
<1>6. CASE Delivered(x)
  <2> DEFINE s == <<x.reminder, x.token.phone>>
  <2>1. /\ sends' = sends \ {x} /\ access' = access
        /\ x.token.n = token[x.token.phone]
        /\ shown' = [shown EXCEPT ![s] = shown[s] + 1]
    BY <1>3, <1>6 DEF Delivered, DeliveryInv, PushTypeOK
  <2>2. s \in Reminder \X Phone
    BY <1>3
  <2> HIDE DEF s
  <2>3. shown' \in [Reminder \X Phone -> Nat]
    BY <2>1, <2>2 DEF DeliveryInv, PushTypeOK
  <2>4. PushTypeOK'
    BY <1>1, <1>2, <2>1, <2>3 DEF DeliveryInv, PushTypeOK
  <2>5. \A r \in Reminder, p \in Phone : <<r, p>> # s => shown'[<<r, p>>] = shown[<<r, p>>]
    BY <2>1 DEF DeliveryInv, PushTypeOK
  <2>6. PushesAreOwn'
    <3>1. SUFFICES ASSUME NEW y \in sends, y # x
                   PROVE  /\ device[y.row] # NoRow /\ device[y.row].child = reminded[y.reminder]
                          /\ reminded[y.reminder] # None
                          /\ y.token.n <= token[y.token.phone]
                          /\ y.token.n = token[y.token.phone] =>
                               session[y.token.phone] = y.row /\ shown'[<<y.reminder, y.token.phone>>] = 0
      BY <1>1, <1>2, <2>1 DEF PushesAreOwn
    <3>2. /\ device[y.row] # NoRow /\ device[y.row].child = reminded[y.reminder]
          /\ reminded[y.reminder] # None
          /\ y.token.n <= token[y.token.phone]
          /\ y.token.n = token[y.token.phone] =>
               session[y.token.phone] = y.row /\ shown[<<y.reminder, y.token.phone>>] = 0
      BY DEF DeliveryInv, PushesAreOwn
    <3>3. y.reminder \in Reminder /\ y.token.phone \in Phone
      BY DEF DeliveryInv, PushTypeOK, Sends, PushToken
    <3>4. ASSUME y.token.n = token[y.token.phone]
          PROVE  <<y.reminder, y.token.phone>> # s
      <4>1. SUFFICES ASSUME y.reminder = x.reminder, y.token.phone = x.token.phone PROVE FALSE
        BY DEF s
      <4>2. session[x.token.phone] = x.row
        BY <2>1 DEF DeliveryInv, PushesAreOwn
      <4>3. y.row = x.row
        BY <3>2, <3>4, <4>1, <4>2
      <4>4. QED
        BY <3>1, <4>1, <4>3 DEF DeliveryInv, OnePushPerRow
    <3>5. QED
      BY <2>5, <3>2, <3>3, <3>4
  <2>7. OnePushPerRow'
    BY <2>1 DEF DeliveryInv, OnePushPerRow
  <2>8. ShownWasSent'
    <3>1. reminded[x.reminder] # None
      BY DEF DeliveryInv, PushesAreOwn
    <3>2. \A r \in Reminder, p \in Phone : reminded[r] = None => <<r, p>> # s
      BY <3>1 DEF s
    <3>3. QED
      BY <1>1, <2>5, <3>2 DEF DeliveryInv, ShownWasSent
  <2>9. QED
    BY <1>2, <2>4, <2>6, <2>7, <2>8 DEF DeliveryInv
<1>7. CASE GotAccessToken(x)
  <2> DEFINE z == [x EXCEPT !.pc = "send"]
  <2>1. /\ \E issued \in x.asked..now : access' = [expiresAt |-> ExpiresAt(x), until |-> issued + TokenLife]
        /\ sends' = (sends \ {x}) \cup {z}
        /\ UNCHANGED shown
    BY <1>7 DEF GotAccessToken
  <2>2. z \in Sends /\ z.reminder = x.reminder /\ z.row = x.row /\ z.token = x.token
    BY <1>3 DEF Sends
  <2> HIDE DEF z
  <2>3. access' \in [expiresAt: Nat, until: Nat]
    <3>1. PICK issued \in x.asked..now : access' = [expiresAt |-> ExpiresAt(x), until |-> issued + TokenLife]
      BY <2>1
    <3>2. ExpiresAt(x) \in Nat /\ issued + TokenLife \in Nat
      BY <1>3, <1>4 DEF ExpiresAt
    <3>3. QED
      BY <3>1, <3>2
  <2>4. PushTypeOK'
    BY <1>1, <1>2, <2>1, <2>2, <2>3 DEF DeliveryInv, PushTypeOK
  <2>5. PushesAreOwn'
    BY <1>1, <1>2, <2>1, <2>2 DEF DeliveryInv, PushesAreOwn
  <2>6. OnePushPerRow'
    BY <2>1, <2>2 DEF DeliveryInv, OnePushPerRow
  <2>7. ShownWasSent'
    BY <1>1, <2>1 DEF DeliveryInv, ShownWasSent
  <2>8. QED
    BY <1>2, <2>4, <2>5, <2>6, <2>7 DEF DeliveryInv
<1>8. QED
  BY <1>5, <1>6, <1>7

LEMMA DeliveryStep ==
  ASSUME DeliveryInv, [PushNext]_allVars
  PROVE  DeliveryInv'
<1>1. CASE Next /\ UNCHANGED pushVars
  BY <1>1, PairingKeepsDelivery
<1>2. CASE \E r \in Reminder, c \in Child : SendReminder(r, c)
  BY <1>2, SendKeepsDelivery
<1>3. CASE \E x \in sends : GotAccessToken(x) \/ Delivered(x) \/ SendFails(x)
  BY <1>3, PushKeepsDelivery
<1>4. CASE UNCHANGED allVars
  <2>1. UNCHANGED vars /\ UNCHANGED pushVars
    BY <1>4 DEF allVars
  <2>2. QED
    BY <2>1, PairingKeepsDelivery
<1>5. QED
  BY <1>1, <1>2, <1>3, <1>4 DEF PushNext

LEMMA DeliveryStart ==
  ASSUME PushInit
  PROVE  DeliveryInv /\ Delivery!Init
<1>1. Init /\ reminded = [r \in Reminder |-> None] /\ sends = {} /\ access = NoRow
      /\ shown = [s \in Reminder \X Phone |-> 0]
  BY DEF PushInit
<1>2. TypeOK
  BY <1>1 DEF Init, TypeOK, Idle
<1>3. PushTypeOK
  BY <1>1, <1>2 DEF PushTypeOK
<1>4. PushInv
  BY <1>1, <1>2 DEF Init, PushInv, ReminderReachesOwnPhone, TypesOneCode, PostsAreOwn, RowsAreOld, Idle
<1>5. RowsAreNew /\ PushesAreOwn /\ OnePushPerRow /\ ShownWasSent
  BY <1>1 DEF Init, RowsAreNew, PushesAreOwn, OnePushPerRow, ShownWasSent
<1>6. ActsFor = [p \in Phone |-> None]
  BY <1>1 DEF Init, ActsFor
<1>7. Delivery!Init
  BY <1>1, <1>6 DEF Delivery!Init
<1>8. QED
  BY <1>3, <1>4, <1>5, <1>7 DEF DeliveryInv

(* Pairing, clearing a phone, or nothing that a reminder could notice.         *)
LEMMA PairingIsPairing ==
  ASSUME DeliveryInv, DeliveryInv', [Next]_vars, UNCHANGED pushVars
  PROVE  [Delivery!Next]_(Delivery!vars)
<1>1. RowsStay /\ OneSession
  BY PairingStep DEF DeliveryInv
<1>2. UNCHANGED <<reminded, shown>>
  BY DEF pushVars
<1>3. /\ session \in [Phone -> Claim \cup {None}] /\ session' \in [Phone -> Claim \cup {None}]
      /\ \A q \in Phone : session[q] # None => device[session[q]] # NoRow
      /\ \A q \in Phone : session'[q] # None => device'[session'[q]] # NoRow
      /\ device' \in [Claim -> Devices \cup {NoRow}]
  BY DEF DeliveryInv, PushTypeOK, TypeOK
<1>4. \A q \in Phone : session'[q] = session[q] => ActsFor'[q] = ActsFor[q]
  BY <1>1, <1>3 DEF ActsFor, RowsStay
<1>5. CASE session' = session
  <2>1. ActsFor' = ActsFor
    BY <1>1, <1>3, <1>5 DEF ActsFor, RowsStay
  <2>2. QED
    BY <1>2, <2>1 DEF Delivery!vars
<1>6. ASSUME NEW p \in Phone, NEW s \in Claim \cup {None}, s = None \/ session[p] = None,
             session' = [session EXCEPT ![p] = s]
      PROVE  Delivery!Next
  <2>1. ActsFor' = [ActsFor EXCEPT ![p] = ActsFor'[p]]
    <3>1. \A q \in Phone \ {p} : session'[q] = session[q]
      BY <1>3, <1>6
    <3>2. ActsFor' = [q \in Phone |-> ActsFor'[q]] /\ ActsFor = [q \in Phone |-> ActsFor[q]]
      BY DEF ActsFor
    <3>3. QED
      BY <1>4, <3>1, <3>2
  <2>2. session'[p] = s
    BY <1>3, <1>6
  <2>3. CASE s = None
    <3>1. ActsFor'[p] = None
      BY <2>2, <2>3 DEF ActsFor
    <3>2. Delivery!Clear(p)
      BY <1>2, <2>1, <3>1 DEF Delivery!Clear
    <3>3. QED
      BY <3>2 DEF Delivery!Next
  <2>4. CASE s # None
    <3>1. ActsFor[p] = None
      BY <1>6, <2>4 DEF ActsFor
    <3>2. ActsFor'[p] = device'[s].child /\ s \in Claim /\ device'[s] \in Devices
      BY <1>3, <2>2, <2>4 DEF ActsFor
    <3>3. ActsFor'[p] \in Child
      BY <3>2 DEF Devices
    <3>4. Delivery!Pair(p, ActsFor'[p])
      BY <1>2, <2>1, <3>1 DEF Delivery!Pair
    <3>5. QED
      BY <3>3, <3>4 DEF Delivery!Next
  <2>5. QED
    BY <2>3, <2>4
<1>7. QED
  BY <1>1, <1>5, <1>6 DEF OneSession

LEMMA PushIsDelivery ==
  ASSUME DeliveryInv, DeliveryInv', [PushNext]_allVars
  PROVE  [Delivery!Next]_(Delivery!vars)
<1>1. CASE Next /\ UNCHANGED pushVars
  BY <1>1, PairingIsPairing
<1>2. ASSUME UNCHANGED vars
      PROVE  ActsFor' = ActsFor
  BY <1>2 DEF vars, phoneVars, ActsFor
<1>3. ASSUME NEW r \in Reminder, NEW c \in Child, SendReminder(r, c)
      PROVE  Delivery!Next
  <2>1. Delivery!Remind(r, c)
    BY <1>2, <1>3 DEF SendReminder, Delivery!Remind
  <2>2. QED
    BY <2>1 DEF Delivery!Next
<1>4. ASSUME NEW x \in sends, GotAccessToken(x) \/ SendFails(x)
      PROVE  UNCHANGED Delivery!vars
  BY <1>2, <1>4 DEF GotAccessToken, SendFails, Delivery!vars
<1>5. ASSUME NEW x \in sends, Delivered(x)
      PROVE  Delivery!Next
  <2> DEFINE p == x.token.phone
             r == x.reminder
  <2>1. p \in Phone /\ r \in Reminder /\ x.row \in Claim
    BY DEF DeliveryInv, PushTypeOK, Sends, PushToken
  <2>2. /\ device[x.row].child = reminded[r] /\ reminded[r] # None
        /\ session[p] = x.row /\ shown[<<r, p>>] = 0
    BY <1>5 DEF Delivered, DeliveryInv, PushesAreOwn
  <2>3. ActsFor[p] = reminded[r]
    BY <2>1, <2>2, PairingAssumption DEF ActsFor
  <2>4. shown' = [shown EXCEPT ![<<r, p>>] = 1] /\ UNCHANGED <<vars, reminded>>
    BY <1>5, <2>1, <2>2 DEF Delivered, DeliveryInv, PushTypeOK
  <2>5. Delivery!Show(r, p)
    BY <1>2, <2>2, <2>3, <2>4 DEF Delivery!Show
  <2> HIDE DEF p, r
  <2>6. QED
    BY <2>1, <2>5 DEF Delivery!Next
<1>6. CASE UNCHANGED allVars
  BY <1>2, <1>6 DEF allVars, pushVars, Delivery!vars
<1>7. QED
  BY <1>1, <1>3, <1>4, <1>5, <1>6 DEF PushNext

(* A reminder comes up on a phone at most once, and only while the phone acts   *)
(* for the child it is for, however pairing, clearing, push tokens and pushes   *)
(* that were sent before interleave.                                          *)
THEOREM RemindersAreDelivered == PushSpec => ImplementsDelivery
<1>1. PushInit => DeliveryInv /\ Delivery!Init
  BY DeliveryStart
<1>2. DeliveryInv /\ [PushNext]_allVars => DeliveryInv'
  BY DeliveryStep
<1>3. DeliveryInv /\ DeliveryInv' /\ [PushNext]_allVars => [Delivery!Next]_(Delivery!vars)
  BY PushIsDelivery
<1>4. QED
  BY <1>1, <1>2, <1>3, PTL DEF PushSpec, ImplementsDelivery, Delivery!Spec

(* An access token is counted from when it was asked for, so it is handed out  *)
(* only while Google accepts it, in whatever order the answers came.           *)
THEOREM AccessTokensWork == PushSpec => []CachedTokenWorks
<1> DEFINE Counted == access # NoRow => access.expiresAt <= access.until
           Inv == DeliveryInv /\ Counted
<1>1. PushInit => Inv
  BY DeliveryStart DEF PushInit
<1>2. Inv /\ [PushNext]_allVars => Inv'
  <2>1. SUFFICES ASSUME Inv, [PushNext]_allVars PROVE Counted'
    BY DeliveryStep
  <2>2. ASSUME NEW x \in sends, GotAccessToken(x)
        PROVE  Counted'
    <3>1. PICK issued \in x.asked..now : access' = [expiresAt |-> ExpiresAt(x), until |-> issued + TokenLife]
      BY <2>2 DEF GotAccessToken
    <3>2. x.asked \in Nat /\ now \in Nat /\ TokenLife \in Nat
      BY <2>1, PushAssumption DEF DeliveryInv, PushTypeOK, TypeOK, Sends
    <3>3. access'.expiresAt = x.asked + TokenLife /\ access'.until = issued + TokenLife
      BY <3>1 DEF ExpiresAt
    <3>4. QED
      BY <3>1, <3>2, <3>3
  <2>3. ASSUME access' = access
        PROVE  Counted'
    BY <2>1, <2>3
  <2>4. QED
    BY <2>1, <2>2, <2>3 DEF PushNext, SendReminder, Delivered, SendFails, allVars, pushVars
<1>3. Inv => CachedTokenWorks
  <2>1. SUFFICES ASSUME Inv, access # NoRow, access.expiresAt - Margin > now
                 PROVE  access.until - Margin > now
    BY DEF CachedTokenWorks, Usable
  <2>2. access.expiresAt \in Nat /\ access.until \in Nat /\ now \in Nat /\ Margin \in Nat
    BY <2>1, PushAssumption DEF DeliveryInv, PushTypeOK, TypeOK
  <2>3. QED
    BY <2>1, <2>2
<1> HIDE DEF Inv
<1>4. QED
  BY <1>1, <1>2, <1>3, PTL DEF PushSpec
(* Reminders on their way take nothing from what pairing promises: without them *)
(* every behaviour of PushDelivery is one of Pairing.                           *)
THEOREM PairingGoesOn == PushSpec => Spec
<1>1. PushInit => Init
  BY DEF PushInit
<1>2. [PushNext]_allVars => [Next]_vars
  BY DEF PushNext, SendReminder, GotAccessToken, Delivered, SendFails, allVars
<1>3. QED
  BY <1>1, <1>2, PTL DEF PushSpec, Spec

(* So also while reminders are sent a phone acts for the child for whom the     *)
(* code that was typed into it was made, and that code is spent.               *)
THEOREM PhonesArePairedAsAgreed == PushSpec => []PairedAsAgreed
  BY PairingFollowsAgreement, PairingGoesOn, PTL
=============================================================================
