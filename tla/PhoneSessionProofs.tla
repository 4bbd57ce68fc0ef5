------------------------- MODULE PhoneSessionProofs -------------------------
(* Calls of one client replace a token pair once, for any number of clients   *)
(* and calls: SessionInv is inductive.                                        *)
EXTENDS PhoneSession, TLAPS

(* One call gets a new local state, and its client's mutex goes with it: it   *)
(* is held by that call, or let go, or none of its business.                  *)
LEMMA MutexStep ==
  ASSUME TypeOK, NEW c \in Call, NEW r \in Local, Set(c, r),
         \/ /\ r.pc \in {"refresh", "save"} <=> call[c].pc \in {"refresh", "save"}
            /\ UNCHANGED mutex
         \/ /\ call[c].pc \in {"refresh", "save"} /\ r.pc \notin {"refresh", "save"}
            /\ Unlock(c)
         \/ /\ mutex[ClientOf[c]] = Free /\ r.pc \in {"refresh", "save"}
            /\ mutex' = [mutex EXCEPT ![ClientOf[c]] = c]
  PROVE  /\ call' \in [Call -> Local]
         /\ mutex' \in [Client -> Call \cup {Free}]
         /\ \A d \in Call : (Holds(d) <=> call[d].pc \in {"refresh", "save"})'
<1>1. ClientOf \in [Call -> Client] /\ Free \notin Call
  BY PhoneAssumption
<1>2. call' \in [Call -> Local]
  BY DEF TypeOK, Set
<1>3. mutex' \in [Client -> Call \cup {Free}]
  BY <1>1 DEF TypeOK, Unlock
<1>4. ASSUME NEW d \in Call
      PROVE  (Holds(d) <=> call[d].pc \in {"refresh", "save"})'
  <2>1. call'[d] = IF d = c THEN r ELSE call[d]
    BY DEF TypeOK, Set
  <2>2. CASE UNCHANGED mutex /\ (r.pc \in {"refresh", "save"} <=> call[c].pc \in {"refresh", "save"})
    BY <2>1, <2>2 DEF TypeOK, Holds, Refreshing
  <2>3. CASE call[c].pc \in {"refresh", "save"} /\ r.pc \notin {"refresh", "save"} /\ Unlock(c)
    BY <1>1, <2>1, <2>3 DEF TypeOK, Holds, Refreshing, Unlock
  <2>4. CASE mutex[ClientOf[c]] = Free /\ r.pc \in {"refresh", "save"}
               /\ mutex' = [mutex EXCEPT ![ClientOf[c]] = c]
    BY <1>1, <2>1, <2>4 DEF TypeOK, Holds, Refreshing
  <2>5. QED
    BY <2>2, <2>3, <2>4
<1>5. QED
  BY <1>2, <1>3, <1>4

LEMMA TypeStep ==
  ASSUME TypeOK, NewIsUnseen, [Next]_vars
  PROVE  TypeOK'
<1> DEFINE Rest ==
      /\ session' \in 0..issued' /\ shown' \in BOOLEAN
      /\ issued' \in Nat /\ expired' \in 0..issued' /\ lapsed' \in 0..expired'
      /\ refreshed' \subseteq [call: Call, pair: Nat] /\ underWay' \subseteq Call
      /\ logins' \in Nat /\ faults' \in Nat
<1> USE DEF None, Refreshing
<1>1. CASE SignIn
  <2>1. UNCHANGED <<mutex, call>> /\ Rest
    BY <1>1 DEF SignIn, TypeOK
  <2>2. QED
    BY <2>1 DEF TypeOK, Holds, Refreshing
<1>2. CASE LogOut
  <2>1. UNCHANGED <<mutex, call>> /\ 0 \in 0..issued
    BY <1>2 DEF LogOut, TypeOK
  <2>3. Rest
    BY <1>2, <2>1 DEF LogOut, TypeOK
  <2>2. QED
    BY <2>1, <2>3 DEF TypeOK, Holds, Refreshing
<1>3. CASE ProcessEnds
  <2>1. \A c \in Call : call'[c] \in Local /\ call'[c].pc \notin {"refresh", "save"}
    BY <1>3 DEF ProcessEnds, TypeOK, Local, Ended
  <2>2. call' \in [Call -> Local]
    BY <1>3, <2>1 DEF ProcessEnds
  <2>3. mutex' \in [Client -> Call \cup {Free}] /\ \A c \in Call : ~Holds(c)'
    BY <1>3, PhoneAssumption DEF ProcessEnds, Holds
  <2>4. Rest
    BY <1>3 DEF ProcessEnds, TypeOK
  <2>5. QED
    BY <2>1, <2>2, <2>3, <2>4 DEF TypeOK
<1>4. CASE Expire
  <2>1. UNCHANGED <<mutex, call>>
    BY <1>4 DEF Expire
  <2>2. Rest
    BY <1>4, <2>1 DEF Expire, TypeOK
  <2>3. QED
    BY <2>1, <2>2 DEF TypeOK, Holds, Refreshing
<1>5. ASSUME NEW c \in Call, Send(c) \/ CallStep(c) \/ Fails(c)
      PROVE  TypeOK'
  <2> DEFINE To(r) ==
        /\ r \in Local /\ Set(c, r)
        /\ \/ /\ r.pc \in {"refresh", "save"} <=> call[c].pc \in {"refresh", "save"}
              /\ UNCHANGED mutex
           \/ /\ call[c].pc \in {"refresh", "save"} /\ r.pc \notin {"refresh", "save"}
              /\ Unlock(c)
           \/ /\ mutex[ClientOf[c]] = Free /\ r.pc \in {"refresh", "save"}
              /\ mutex' = [mutex EXCEPT ![ClientOf[c]] = c]
  <2>0. call[c] \in Local /\ session \in Nat /\ issued + 1 \in Nat
    BY DEF TypeOK
  <2>1. CASE Send(c)
    <3>1. Rest
      BY <2>1 DEF Send, TypeOK
    <3>2. To([Blank EXCEPT !.pc = "sent", !.token = session])
      BY <2>0, <2>1 DEF Send, Local, Blank
    <3>3. QED
      BY <3>1, <3>2, MutexStep DEF TypeOK
  <2>2. CASE Answer(c) \/ Retry(c)
    <3>1. Rest
      BY <2>2 DEF Answer, Retry, TypeOK
    <3>2. \E pc \in {"ok", "wait", "denied"} : To([call[c] EXCEPT !.pc = pc])
      BY <2>0, <2>2 DEF Answer, Retry, Goto, Local, Ended
    <3>3. QED
      BY <3>1, <3>2, MutexStep DEF TypeOK
  <2>3. CASE LockAndRefresh(c)
    <3>1. Rest
      BY <2>3 DEF LockAndRefresh, TypeOK
    <3>2. \/ To([call[c] EXCEPT !.pc = "retry", !.new = session])
          \/ To([call[c] EXCEPT !.pc = "denied"])
          \/ To([call[c] EXCEPT !.pc = "refresh", !.with = session])
      BY <2>0, <2>3 DEF LockAndRefresh, Goto, Local, Ended
    <3>3. QED
      BY <3>1, <3>2, MutexStep DEF TypeOK
  <2>4. CASE Refresh(c)
    <3>1. Rest
      BY <2>4 DEF Refresh, TypeOK
    <3>2. \/ To([call[c] EXCEPT !.pc = "save", !.new = issued + 1])
          \/ To([call[c] EXCEPT !.pc = "denied"])
      BY <2>0, <2>4 DEF Refresh, Goto, Local, Ended
    <3>3. QED
      BY <3>1, <3>2, MutexStep DEF TypeOK
  <2>5. CASE SaveTokens(c)
    <3>1. call[c].pc = "save" /\ ClientOf \in [Call -> Client]
      BY <2>5, PhoneAssumption DEF SaveTokens
    <3>2. call[c].new \in 0..issued
      BY <3>1 DEF NewIsUnseen, Unseen
    <3>3. Rest
      BY <2>0, <2>5, <3>2 DEF SaveTokens, TypeOK, Local
    <3>4. To([call[c] EXCEPT !.pc = "retry"])
      BY <2>0, <2>5 DEF SaveTokens, Goto, Local
    <3>5. QED
      BY <3>3, <3>4, MutexStep DEF TypeOK
  <2>6. CASE Fails(c)
    <3>1. Rest
      BY <2>6 DEF Fails, TypeOK
    <3>2. Holds(c) <=> call[c].pc \in {"refresh", "save"}
      BY DEF TypeOK
    <3>3. To([call[c] EXCEPT !.pc = "failed"])
      BY <2>0, <2>6, <3>2 DEF Fails, Goto, Local, Ended
    <3>4. QED
      BY <3>1, <3>3, MutexStep DEF TypeOK
  <2>7. QED
    BY <1>5, <2>1, <2>2, <2>3, <2>4, <2>5, <2>6 DEF CallStep
<1>6. CASE UNCHANGED vars
  BY <1>6 DEF vars, TypeOK, Holds, Refreshing
<1>7. QED
  BY <1>1, <1>2, <1>3, <1>4, <1>5, <1>6 DEF Next

(* What the invariant says beside the types.                                  *)
Facts == Known /\ NewIsUnseen /\ ReplacedIsGone /\ NotReplacedYet
           /\ OneRefreshPerClient /\ FreshRetry

(* Every step keeps the facts.  Steps that only move a call on share <1>7; the *)
(* heart is SaveTokens, whose pair nobody has seen before.                    *)
LEMMA FactsStep ==
  ASSUME SessionInv, [Next]_vars
  PROVE  Facts'
<1>0. /\ TypeOK /\ TypeOK' /\ Facts
      /\ ClientOf \in [Call -> Client]
  BY TypeStep, PhoneAssumption DEF SessionInv, Facts
<1>1. issued \in Nat /\ session \in 0..issued /\ call \in [Call -> Local]
  BY <1>0 DEF TypeOK
<1>2. \A x \in refreshed : x.call \in Call /\ x.pair \in Nat
  BY <1>0 DEF TypeOK
<1>3. CASE SignIn
  <2>1. UNCHANGED <<call, refreshed>> /\ issued' = issued + 1 /\ session' = issued + 1
    BY <1>3 DEF SignIn
  <2>2. Known' /\ ReplacedIsGone'
    BY <1>0, <1>1, <1>2, <2>1 DEF Facts, Known, ReplacedIsGone, Local, Refreshing
  <2>3. NewIsUnseen'
    BY <1>0, <1>1, <2>1 DEF Facts, NewIsUnseen, Unseen
  <2>4. QED
    BY <1>0, <2>1, <2>2, <2>3 DEF Facts, NotReplacedYet, Refreshing, OneRefreshPerClient, FreshRetry
<1>4. CASE LogOut
  <2>1. UNCHANGED <<call, refreshed, issued>> /\ session' = 0
    BY <1>4 DEF LogOut, None
  <2>2. NewIsUnseen'
    BY <1>0, <1>1, <2>1 DEF Facts, NewIsUnseen, Unseen
  <2>3. Known' /\ ReplacedIsGone'
    BY <1>0, <1>1, <2>1 DEF Facts, Known, ReplacedIsGone, Refreshing
  <2>4. QED
    BY <1>0, <2>1, <2>2, <2>3 DEF Facts, NotReplacedYet, Refreshing, OneRefreshPerClient, FreshRetry
<1>5. CASE ProcessEnds
  <2>1. /\ UNCHANGED <<session, refreshed, issued>>
        /\ \A c \in Call : /\ call'[c].token = call[c].token /\ call'[c].with = call[c].with
                           /\ call'[c].pc \notin {"refresh", "save", "retry"}
    BY <1>1, <1>5 DEF ProcessEnds, Local, Ended
  <2>2. QED
    BY <1>0, <2>1 DEF Facts, Known, NewIsUnseen, ReplacedIsGone, NotReplacedYet, Refreshing,
                      OneRefreshPerClient, FreshRetry
<1>6. CASE Expire \/ UNCHANGED vars
  <2>1. UNCHANGED <<session, issued, mutex, call, refreshed>>
    BY <1>6 DEF Expire, vars
  <2>2. QED
    BY <1>0, <2>1 DEF Facts, Known, NewIsUnseen, Unseen, ReplacedIsGone, NotReplacedYet, Refreshing,
                      OneRefreshPerClient, FreshRetry
<1>7. ASSUME NEW c \in Call, NEW r \in Local, Set(c, r),
             UNCHANGED <<session, issued, refreshed>>,
             r.token = call[c].token \/ r.token = session,
             r.pc \notin {"refresh", "save"}, r.with \in {call[c].with, None},
             r.pc = "retry" => r.new # r.token
      PROVE  Facts'
  <2>1. /\ \A d \in Call : call'[d] = IF d = c THEN r ELSE call[d]
        /\ \A d \in Call : call'[d].pc \in {"refresh", "save"} => d # c
    BY <1>0, <1>7 DEF TypeOK, Set
  <2>2. Known'
    BY <1>0, <1>1, <1>7, <2>1 DEF Facts, Known, Refreshing, None, Local
  <2>3. NewIsUnseen'
    BY <1>0, <1>1, <1>7, <2>1 DEF Facts, NewIsUnseen, Unseen, None
  <2>4. ReplacedIsGone' /\ NotReplacedYet' /\ OneRefreshPerClient' /\ FreshRetry'
    BY <1>0, <1>7, <2>1 DEF Facts, ReplacedIsGone, NotReplacedYet, Refreshing,
                            OneRefreshPerClient, FreshRetry
  <2>5. QED
    BY <2>2, <2>3, <2>4 DEF Facts
<1>8. ASSUME NEW c \in Call, Send(c) \/ CallStep(c) \/ Fails(c)
      PROVE  Facts'
  <2>0. call[c] \in Local /\ session \in Nat
    BY <1>1
  <2>1. CASE Send(c)
    <3>1. [Blank EXCEPT !.pc = "sent", !.token = session] \in Local
      BY <2>0 DEF Blank, Local, None
    <3>2. QED
      BY <2>1, <3>1, <1>7 DEF Send, Blank
  <2>2. CASE Answer(c) \/ Retry(c) \/ Fails(c)
    <3>1. PICK pc \in {"ok", "wait", "denied", "failed"} : Goto(c, pc)
      BY <2>2 DEF Answer, Retry, Fails
    <3>2. [call[c] EXCEPT !.pc = pc] \in Local
      BY <2>0 DEF Local, Ended
    <3>3. UNCHANGED <<session, issued, refreshed>>
      BY <2>2 DEF Answer, Retry, Fails
    <3>4. QED
      BY <2>0, <3>1, <3>2, <3>3, <1>7 DEF Goto, Local
  <2>3. CASE LockAndRefresh(c)
    <3>0. UNCHANGED <<session, issued, refreshed>>
      BY <2>3 DEF LockAndRefresh
    <3>1. CASE Replaced(c) /\ Set(c, [call[c] EXCEPT !.pc = "retry", !.new = session])
      <4>1. [call[c] EXCEPT !.pc = "retry", !.new = session] \in Local
        BY <2>0 DEF Local
      <4>2. QED
        BY <2>0, <3>0, <3>1, <4>1, <1>7 DEF Replaced, Local
    <3>2. CASE Goto(c, "denied")
      <4>1. [call[c] EXCEPT !.pc = "denied"] \in Local
        BY <2>0 DEF Local, Ended
      <4>2. QED
        BY <2>0, <3>0, <3>2, <4>1, <1>7 DEF Goto, Local
    <3>3. CASE session # None /\ Set(c, [call[c] EXCEPT !.pc = "refresh", !.with = session])
      <4>1. \A d \in Call : /\ call'[d].pc = IF d = c THEN "refresh" ELSE call[d].pc
                            /\ call'[d].with = IF d = c THEN session ELSE call[d].with
                            /\ call'[d].token = call[d].token /\ call'[d].new = call[d].new
        BY <1>1, <3>3 DEF Set, Local
      <4>2. Known' /\ ReplacedIsGone'
        BY <1>0, <1>1, <3>0, <3>3, <4>1 DEF Facts, Known, ReplacedIsGone, Refreshing
      <4>3. NewIsUnseen'
        BY <1>0, <1>1, <3>0, <4>1 DEF Facts, NewIsUnseen, Unseen
      <4>4. NotReplacedYet' /\ OneRefreshPerClient' /\ FreshRetry'
        BY <1>0, <3>0, <4>1 DEF Facts, ReplacedIsGone, NotReplacedYet, Refreshing,
                                OneRefreshPerClient, FreshRetry
      <4>5. QED
        BY <4>2, <4>3, <4>4 DEF Facts
    <3>4. QED
      BY <2>3, <3>1, <3>2, <3>3 DEF LockAndRefresh
  <2>4. CASE Refresh(c)
    <3>0. UNCHANGED <<session, refreshed>>
      BY <2>4 DEF Refresh
    <3>1. CASE Goto(c, "denied") /\ UNCHANGED issued
      <4>1. [call[c] EXCEPT !.pc = "denied"] \in Local
        BY <2>0 DEF Local, Ended
      <4>2. QED
        BY <2>0, <3>0, <3>1, <4>1, <1>7 DEF Goto, Local
    <3>2. CASE /\ call[c].pc = "refresh" /\ issued' = issued + 1
               /\ Set(c, [call[c] EXCEPT !.pc = "save", !.new = issued + 1])
      <4>1. \A d \in Call : /\ call'[d].pc = IF d = c THEN "save" ELSE call[d].pc
                            /\ call'[d].new = IF d = c THEN issued + 1 ELSE call[d].new
                            /\ call'[d].token = call[d].token /\ call'[d].with = call[d].with
        BY <1>1, <3>2 DEF Set, Local
      <4>2. Known' /\ ReplacedIsGone'
        BY <1>0, <1>1, <1>2, <3>0, <3>2, <4>1 DEF Facts, Known, ReplacedIsGone, Refreshing, Local
      <4>3. \A d \in Call : call[d].token < issued + 1 /\ call[d].with < issued + 1
        BY <1>0, <1>1 DEF Facts, Known, Local
      <4>4. \A x \in refreshed : x.pair < issued + 1
        BY <1>0, <1>1 DEF Facts, ReplacedIsGone
      <4>5. \A d \in Call \ {c} : call[d].pc = "save" => call[d].new \in 1..issued
        BY <1>0 DEF Facts, NewIsUnseen, Unseen
      <4>6. NewIsUnseen'
        <5>1. ASSUME NEW d \in Call, call'[d].pc = "save"
              PROVE  Unseen(call[d].new)'
          BY <1>0, <1>1, <1>2, <3>0, <3>2, <4>1, <4>3, <4>4, <5>1 DEF Facts, NewIsUnseen, Unseen, Local
        <5>2. ASSUME NEW d \in Call, NEW e \in Call \ {d}, call'[d].pc = "save", call'[e].pc = "save"
              PROVE  call'[e].new # call'[d].new
          BY <1>0, <1>1, <4>1, <4>5, <5>2 DEF Facts, NewIsUnseen
        <5>3. QED
          BY <5>1, <5>2 DEF NewIsUnseen
      <4>7. NotReplacedYet' /\ OneRefreshPerClient' /\ FreshRetry'
        BY <1>0, <3>0, <3>2, <4>1 DEF Facts, NotReplacedYet, Refreshing, OneRefreshPerClient, FreshRetry
      <4>8. QED
        BY <4>2, <4>6, <4>7 DEF Facts
    <3>3. QED
      BY <2>4, <3>1, <3>2 DEF Refresh
  <2>5. CASE SaveTokens(c)
    <3> DEFINE new == call[c].new
               done == [call |-> c, pair |-> call[c].with]
    <3>1. /\ call[c].pc = "save" /\ session' = new /\ UNCHANGED issued
          /\ refreshed' = refreshed \cup {done}
      BY <2>5 DEF SaveTokens
    <3>2. \A d \in Call : /\ call'[d].pc = IF d = c THEN "retry" ELSE call[d].pc
                          /\ call'[d].new = call[d].new
                          /\ call'[d].token = call[d].token /\ call'[d].with = call[d].with
      BY <1>1, <2>5 DEF SaveTokens, Goto, Set, Local
    <3>3. Unseen(new) /\ \A d \in Call \ {c} : call[d].pc = "save" => call[d].new # new
      BY <1>0, <3>1 DEF Facts, NewIsUnseen
    <3>4. Known'
      BY <1>0, <3>1, <3>2 DEF Facts, Known, Refreshing
    <3>5. call[c].with \in 1..issued /\ call[c].with # new
      BY <1>0, <1>1, <3>1, <3>3 DEF Facts, Known, Refreshing, Unseen, None, Local
    <3>6. ReplacedIsGone'
      BY <1>0, <3>1, <3>3, <3>5 DEF Facts, ReplacedIsGone, Unseen
    <3>7. NewIsUnseen'
      <4>1. ASSUME NEW d \in Call \ {c}, call[d].pc = "save"
            PROVE  Unseen(call[d].new)'
        BY <1>0, <3>1, <3>2, <3>3, <4>1 DEF Facts, NewIsUnseen, Unseen
      <4>2. QED
        BY <1>0, <3>2, <4>1 DEF Facts, NewIsUnseen
    <3>8. \A d \in Call \ {c} : Refreshing(d) => ClientOf[d] # ClientOf[c]
      BY <1>0, <3>1 DEF TypeOK, Holds, Refreshing
    <3>9. \A x \in refreshed : ClientOf[x.call] = ClientOf[c] => x.pair # call[c].with
      BY <1>0, <3>1 DEF Facts, NotReplacedYet, Refreshing
    <3>10. NotReplacedYet'
      BY <1>0, <3>1, <3>2, <3>8 DEF Facts, NotReplacedYet, Refreshing
    <3>11. OneRefreshPerClient'
      BY <1>0, <3>1, <3>9 DEF Facts, OneRefreshPerClient
    <3>12. FreshRetry'
      BY <1>0, <3>1, <3>2, <3>3 DEF Facts, FreshRetry, Unseen
    <3>13. QED
      BY <3>4, <3>6, <3>7, <3>10, <3>11, <3>12 DEF Facts
  <2>6. QED
    BY <1>8, <2>1, <2>2, <2>3, <2>4, <2>5 DEF CallStep
<1>9. QED
  BY <1>3, <1>4, <1>5, <1>6, <1>8 DEF Next

(* The invariant holds: types, and what each pair of tokens is known to.         *)
THEOREM SessionInvariant == Spec => []SessionInv
<1>1. Init => SessionInv
  <2> SUFFICES ASSUME Init
               PROVE  SessionInv
    OBVIOUS
  <2>1. \A c \in Call : call[c] = Blank /\ ~Holds(c)
    BY PhoneAssumption DEF Init, Holds
  <2>2. Blank \in Local
    BY DEF Blank, Local, None
  <2>3. TypeOK
    <3>1. call \in [Call -> Local] /\ mutex \in [Client -> Call \cup {Free}]
      BY <2>2 DEF Init
    <3>2. session \in 0..issued /\ issued \in Nat /\ logins \in Nat /\ faults \in Nat
      BY DEF Init, None
    <3>3. shown \in BOOLEAN
      BY DEF Init
    <3>4. QED
      BY <2>1, <3>1, <3>2, <3>3 DEF Init, TypeOK, Blank, Refreshing
  <2>4. QED
    BY <2>1, <2>3 DEF Init, SessionInv, Known, Refreshing, NewIsUnseen, ReplacedIsGone,
       NotReplacedYet, OneRefreshPerClient, FreshRetry, Blank, None
<1>2. SessionInv /\ [Next]_vars => SessionInv'
  BY TypeStep, FactsStep DEF SessionInv, Facts
<1>3. QED
  BY <1>1, <1>2, PTL DEF Spec

(* Calls of one client that meet the same expired token replace the pair once, *)
(* however the calls of the phone, its screens and its end interleave.        *)
THEOREM ClientRefreshesOnce == Spec => []OneRefreshPerClient
<1>1. SessionInv => OneRefreshPerClient
  BY DEF SessionInv
<1>2. QED
  BY <1>1, SessionInvariant, PTL

(* The second attempt of a call never uses the token that was refused.        *)
THEOREM RetriesAreFresh == Spec => []FreshRetry
<1>1. SessionInv => FreshRetry
  BY DEF SessionInv
<1>2. QED
  BY <1>1, SessionInvariant, PTL

-----------------------------------------------------------------------------
(* While nobody is signed in and the store is empty, only calls that were       *)
(* refreshing at the last log-out still are: under the lock the others find      *)
(* no refresh token.                                                           *)
OnlyUnderWay == ~shown /\ session = None => \A c \in Call : Refreshing(c) => c \in underWay

LEMMA SignedOutStep ==
  ASSUME SessionInv, OnlyUnderWay, SignedOutButForRefresh, [Next]_vars
  PROVE  OnlyUnderWay' /\ SignedOutButForRefresh'
<1>0. call \in [Call -> Local] /\ NewIsUnseen
  BY DEF SessionInv, TypeOK
<1>1. ASSUME UNCHANGED <<session, shown, refreshed, underWay>>,
             \A c \in Call : Refreshing(c)' => Refreshing(c) \/ session # None
      PROVE  OnlyUnderWay' /\ SignedOutButForRefresh'
  BY <1>1 DEF OnlyUnderWay, SignedOutButForRefresh
<1>2. CASE Expire \/ UNCHANGED vars
  BY <1>1, <1>2 DEF Expire, vars, Refreshing
<1>3. CASE SignIn
  BY <1>3 DEF SignIn, OnlyUnderWay, SignedOutButForRefresh
<1>4. CASE LogOut
  <2>1. session' = None /\ underWay' = {c \in Call : Refreshing(c)} /\ call' = call
    BY <1>4 DEF LogOut
  <2>2. QED
    BY <2>1 DEF OnlyUnderWay, SignedOutButForRefresh, Refreshing
<1>5. CASE ProcessEnds
  <2>1. shown' = (session' # None)
    BY <1>5 DEF ProcessEnds
  <2>2. \A c \in Call : ~Refreshing(c)'
    BY <1>0, <1>5 DEF ProcessEnds, Refreshing, Local, Ended
  <2>3. QED
    BY <2>1, <2>2 DEF OnlyUnderWay, SignedOutButForRefresh
<1>6. ASSUME NEW c \in Call, Send(c) \/ Answer(c) \/ Retry(c) \/ Fails(c) \/ LockAndRefresh(c) \/ Refresh(c)
      PROVE  OnlyUnderWay' /\ SignedOutButForRefresh'
  <2>1. UNCHANGED <<session, shown, refreshed, underWay>>
    BY <1>6 DEF Send, Answer, Retry, Fails, LockAndRefresh, Refresh
  <2>2. \A d \in Call \ {c} : call'[d] = call[d]
    BY <1>0, <1>6 DEF Send, Answer, Retry, Fails, LockAndRefresh, Refresh, Goto, Set
  <2>3. Refreshing(c)' => Refreshing(c) \/ session # None
    <3>1. CASE Refresh(c)
      BY <3>1 DEF Refresh, Refreshing
    <3>2. CASE LockAndRefresh(c)
      BY <1>0, <3>2 DEF LockAndRefresh, Goto, Set, Refreshing, Local
    <3>3. CASE Send(c)
      BY <1>0, <3>3 DEF Send, Set, Refreshing, Blank
    <3>4. CASE Answer(c) \/ Retry(c) \/ Fails(c)
      BY <1>0, <3>4 DEF Answer, Retry, Fails, Goto, Set, Refreshing, Local
    <3>5. QED
      BY <1>6, <3>1, <3>2, <3>3, <3>4
  <2>4. QED
    BY <1>1, <2>1, <2>2, <2>3 DEF Refreshing
<1>7. ASSUME NEW c \in Call, SaveTokens(c) PROVE OnlyUnderWay' /\ SignedOutButForRefresh'
  <2> DEFINE saved == [call |-> c, pair |-> call[c].with]
  <2>1. /\ Refreshing(c) /\ session' = call[c].new /\ UNCHANGED <<shown, underWay>>
        /\ refreshed' = refreshed \cup {saved}
    BY <1>7 DEF SaveTokens, Refreshing
  <2>2. session' # None
    BY <1>0, <1>7, <2>1 DEF SaveTokens, NewIsUnseen, Unseen, None
  <2>3. ASSUME ~shown PROVE \E x \in refreshed' : x.call \in underWay
    <3>1. CASE session = None
      <4>1. saved \in refreshed' /\ saved.call = c /\ c \in underWay
        BY <2>1, <2>3, <3>1 DEF OnlyUnderWay
      <4>2. QED
        BY <4>1
    <3>2. CASE session # None
      BY <2>1, <2>3, <3>2 DEF SignedOutButForRefresh
    <3>3. QED
      BY <3>1, <3>2
  <2>4. QED
    BY <2>1, <2>2, <2>3 DEF OnlyUnderWay, SignedOutButForRefresh
<1>8. QED
  BY <1>2, <1>3, <1>4, <1>5, <1>6, <1>7 DEF Next, CallStep

(* The store stays empty after a log-out, for any number of clients and calls,  *)
(* until a call that was refreshing at the log-out saves its pair.             *)
THEOREM LogOutLeavesARefreshAtMost == Spec => []SignedOutButForRefresh
<1>1. Init => OnlyUnderWay /\ SignedOutButForRefresh
  BY DEF Init, OnlyUnderWay, SignedOutButForRefresh, Refreshing, Blank, None
<1>2. SessionInv /\ OnlyUnderWay /\ SignedOutButForRefresh /\ [Next]_vars
        => OnlyUnderWay' /\ SignedOutButForRefresh'
  BY SignedOutStep
<1>3. QED
  BY <1>1, <1>2, SessionInvariant, PTL DEF Spec
=============================================================================
