-------------------------- MODULE ChatDraftsProofs --------------------------
(***************************************************************************)
(* Theorems about ChatDrafts, for every family, every number of drafts,    *)
(* overlapping requests, taps and faults.                                  *)
(***************************************************************************)
EXTENDS ChatDrafts, FiniteSetTheorems, TLAPS

LEMMA BecomeType ==
  ASSUME TypeOK, NEW r \in Request, NEW local \in Local, Become(r, local)
  PROVE  req' \in [Request -> Local]
BY DEF TypeOK, Become

(* What a request's record holds at each of its steps.                        *)
LEMMA ReqShape ==
  ASSUME TypeOK, NEW r \in Request
  PROVE  /\ req[r].pc = "ask" => req[r].user \in User
         /\ req[r].pc = "reply" => req[r].user \in User /\ req[r].draft \in Draft \cup {NoDraft}
         /\ req[r].pc \in {"expire", "apply", "occur", "mark"} =>
              /\ req[r] \in [pc: {"expire", "apply", "occur", "mark"}, user: User, draft: Draft]
              /\ req[r].user \in User /\ req[r].draft \in Draft
<1>1. req[r] \in Local
  BY DEF TypeOK
<1>2. QED
  BY <1>1 DEF Local, Idle

LEMMA IdleType == Idle \in Local
BY DEF Local

LEMMA TypeStep ==
  ASSUME TypeOK, [Next]_vars PROVE TypeOK'
<1> USE DraftsAssumption
<1>1. ASSUME NEW r \in Request, NEW u \in User, SendMessage(r, u) PROVE TypeOK'
  <2>1. [pc |-> "ask", user |-> u] \in Local
    BY DEF Local
  <2>2. req' \in [Request -> Local]
    BY <1>1, <2>1, BecomeType DEF SendMessage
  <2>3. QED
    BY <1>1, <2>2 DEF SendMessage, TypeOK, bounds, rows, outcome
<1>2. ASSUME NEW r \in Request, NEW u \in User, NEW d \in Draft, ConfirmDraft(r, u, d) PROVE TypeOK'
  <2>1. [pc |-> IF expiresAt[d] < now THEN "expire" ELSE FirstStep, user |-> u, draft |-> d] \in Local
    BY DEF Local, FirstStep
  <2>2. req' \in [Request -> Local]
    BY <1>2, <2>1, BecomeType DEF ConfirmDraft
  <2>3. QED
    BY <1>2, <2>2 DEF ConfirmDraft, TypeOK, rows, outcome, chat
<1>3. ASSUME NEW u \in User, NEW d \in Draft, RejectDraft(u, d) PROVE TypeOK'
  BY <1>3 DEF RejectDraft, TypeOK, Status, outcome, chat
<1>4. ASSUME NEW r \in Request, Ask(r) PROVE TypeOK'
  <2>1. CASE Become(r, [pc |-> "reply", user |-> req[r].user, draft |-> NoDraft]) /\ UNCHANGED rows
    <3>1. [pc |-> "reply", user |-> req[r].user, draft |-> NoDraft] \in Local
      BY <1>4, ReqShape DEF Ask, Local
    <3>2. req' \in [Request -> Local]
      BY <2>1, <3>1, BecomeType
    <3>3. QED
      BY <1>4, <2>1, <3>2 DEF Ask, TypeOK, rows, bounds, outcome, chat
  <2>2. ASSUME NEW d \in Draft, NEW k \in Proposals, StoreDraft(r, req[r].user, d, k),
               UNCHANGED offered
        PROVE TypeOK'
    <3>1. req[r].user \in User
      BY <1>4, ReqShape DEF Ask
    <3> DEFINE local == [pc |-> "reply", user |-> req[r].user,
                         draft |-> IF Valid(req[r].user, k) THEN d ELSE NoDraft]
    <3>2. local \in Local
      BY <3>1 DEF Local
    <3>3. req' \in [Request -> Local]
      BY <2>2, <3>2, BecomeType DEF StoreDraft
    <3>4. status' \in [Draft -> Status] /\ kind' \in [Draft -> Kind]
          /\ owner' \in [Draft -> User \cup {NoDraft}] /\ expiresAt' \in [Draft -> Nat]
      BY <2>2, <3>1 DEF StoreDraft, TypeOK, Status
    <3>5. QED
      BY <1>4, <2>2, <3>3, <3>4 DEF Ask, TypeOK, bounds, outcome, chat
  <2>3. QED
    BY <1>4, <2>1, <2>2 DEF Ask
<1>5. ASSUME NEW r \in Request, Reply(r) PROVE TypeOK'
  <2>1. [pc |-> "audit"] \in Local
    BY DEF Local
  <2>2. req' \in [Request -> Local]
    BY <1>5, <2>1, BecomeType DEF Reply, Offered
  <2>3. offered' \subseteq Draft
    BY <1>5, ReqShape DEF Reply, Offered, TypeOK
  <2>4. QED
    BY <1>5, <2>2, <2>3 DEF Reply, Offered, TypeOK, bounds, outcome
<1>6. ASSUME NEW r \in Request, Audit(r) PROVE TypeOK'
  <2>1. req' \in [Request -> Local]
    BY <1>6, IdleType, BecomeType DEF Audit
  <2>2. QED
    BY <1>6, <2>1 DEF Audit, TypeOK, bounds, rows, outcome
<1>7. ASSUME NEW r \in Request, Expire(r) PROVE TypeOK'
  <2>1. req' \in [Request -> Local]
    BY <1>7, IdleType, BecomeType DEF Expire
  <2>2. status' \in [Draft -> Status]
    BY <1>7 DEF Expire, TypeOK, Status
  <2>3. QED
    BY <1>7, <2>1, <2>2 DEF Expire, TypeOK, bounds, outcome, chat
<1>8. ASSUME NEW r \in Request, Apply(r) PROVE TypeOK'
  <2>1. req[r] \in [pc: {"expire", "apply", "occur", "mark"}, user: User, draft: Draft]
    BY <1>8, ReqShape DEF Apply
  <2>2. [req[r] EXCEPT !.pc = IF kind[req[r].draft] \in Mission THEN "occur" ELSE "mark"] \in Local
    BY <2>1 DEF Local
  <2>3. req' \in [Request -> Local]
    BY <1>8, <2>2, IdleType, BecomeType DEF Apply
  <2>4. effects' \in [Draft -> Nat] /\ deciders' \in [Draft -> SUBSET User]
    BY <1>8, <2>1 DEF Apply, TypeOK, outcome
  <2>5. QED
    BY <1>8, <2>3, <2>4 DEF Apply, TypeOK, bounds, rows, chat
<1>9. ASSUME NEW r \in Request, FirstOccurrence(r) PROVE TypeOK'
  <2>1. req[r] \in [pc: {"expire", "apply", "occur", "mark"}, user: User, draft: Draft]
    BY <1>9, ReqShape DEF FirstOccurrence
  <2>2. [req[r] EXCEPT !.pc = "mark"] \in Local
    BY <2>1 DEF Local
  <2>3. req' \in [Request -> Local]
    BY <1>9, <2>2, IdleType, BecomeType DEF FirstOccurrence
  <2>4. QED
    BY <1>9, <2>3 DEF FirstOccurrence, TypeOK, bounds, rows, outcome, chat
<1>10. ASSUME NEW r \in Request, MarkConfirmed(r) PROVE TypeOK'
  <2>1. req' \in [Request -> Local]
    BY <1>10, IdleType, BecomeType DEF MarkConfirmed
  <2>2. status' \in [Draft -> Status]
    BY <1>10 DEF MarkConfirmed, TypeOK, Status
  <2>3. QED
    BY <1>10, <2>1, <2>2 DEF MarkConfirmed, TypeOK, bounds, outcome, chat
<1>11. ASSUME NEW r \in Request, RequestDies(r) PROVE TypeOK'
  <2>1. req' \in [Request -> Local]
    BY <1>11, IdleType, BecomeType DEF RequestDies
  <2>2. QED
    BY <1>11, <2>1 DEF RequestDies, TypeOK, rows, outcome, chat
<1>12. CASE Tick
  BY <1>12 DEF Tick, TypeOK, rows, outcome, chat
<1>13. CASE UNCHANGED vars
  BY <1>13 DEF vars, TypeOK
<1>14. QED
  BY <1>1, <1>2, <1>3, <1>4, <1>5, <1>6, <1>7, <1>8, <1>9, <1>10, <1>11, <1>12, <1>13
     DEF Next, Handler

(* Every state of the chat, its drafts and its requests is well typed.         *)
THEOREM DraftsTypeCorrect == Spec => []TypeOK
<1>1. Init => TypeOK
  BY DraftsAssumption DEF Init, TypeOK, Status, Kind, Local
<1>2. TypeOK /\ [Next]_vars => TypeOK'
  BY TypeStep
<1>3. QED
  BY <1>1, <1>2, PTL DEF Spec

-----------------------------------------------------------------------------
(* A row, once stored, keeps its payload and its owner; offers and effects     *)
(* are never taken back.                                                        *)
LEMMA RowsKeep ==
  ASSUME TypeOK, [Next]_vars, NEW d \in Draft
  PROVE  /\ status[d] # "none" => status'[d] # "none" /\ kind'[d] = kind[d] /\ owner'[d] = owner[d]
         /\ d \in offered => d \in offered'
         /\ effects'[d] >= effects[d]
<1> DEFINE Goal ==
       /\ status[d] # "none" => status'[d] # "none" /\ kind'[d] = kind[d] /\ owner'[d] = owner[d]
       /\ d \in offered => d \in offered'
       /\ effects'[d] >= effects[d]
<1>0. effects[d] \in Nat
  BY DEF TypeOK
<1>1. ASSUME UNCHANGED <<rows, outcome>> PROVE Goal
  BY <1>0, <1>1 DEF rows, outcome
<1>2. ASSUME NEW e \in Draft, NEW new \in Status \ {"none"},
             status' = [status EXCEPT ![e] = new],
             UNCHANGED <<kind, owner, expiresAt, offered, outcome>>
      PROVE Goal
  BY <1>0, <1>2 DEF TypeOK, outcome
<1>3. ASSUME NEW r \in Request, NEW u \in User, SendMessage(r, u) PROVE Goal
  BY <1>3, <1>1 DEF SendMessage
<1>4. ASSUME NEW r \in Request, NEW u \in User, NEW e \in Draft, ConfirmDraft(r, u, e) PROVE Goal
  BY <1>4, <1>1 DEF ConfirmDraft
<1>5. ASSUME NEW u \in User, NEW e \in Draft, RejectDraft(u, e) PROVE Goal
  BY <1>5, <1>2 DEF RejectDraft, Status
<1>6. ASSUME NEW r \in Request, Ask(r) PROVE Goal
  <2>1. ASSUME UNCHANGED rows PROVE Goal
    BY <1>6, <2>1, <1>1 DEF Ask
  <2>2. ASSUME NEW e \in Draft, NEW k \in Proposals, StoreDraft(r, req[r].user, e, k), UNCHANGED offered
        PROVE Goal
    BY <1>0, <1>6, <2>2 DEF Ask, StoreDraft, TypeOK, outcome
  <2>3. QED
    BY <1>6, <2>1, <2>2 DEF Ask
<1>7. ASSUME NEW r \in Request, Reply(r) PROVE Goal
  BY <1>7, <1>0 DEF Reply, Offered, outcome
<1>8. ASSUME NEW r \in Request, Audit(r) PROVE Goal
  BY <1>8, <1>1 DEF Audit
<1>9. ASSUME NEW r \in Request, Expire(r) PROVE Goal
  BY <1>9, <1>2, ReqShape DEF Expire, Status
<1>10. ASSUME NEW r \in Request, Apply(r) PROVE Goal
  <2>1. UNCHANGED rows
    BY <1>10, Zenon DEF Apply
  <2>2. outcome' = outcome \/ effects' = [effects EXCEPT ![req[r].draft] = @ + 1]
    BY <1>10, Zenon DEF Apply
  <2>3. effects'[d] >= effects[d]
    BY <1>0, <2>2 DEF TypeOK, outcome
  <2>4. QED
    BY <2>1, <2>3 DEF rows
<1>11. ASSUME NEW r \in Request, FirstOccurrence(r) PROVE Goal
  BY <1>11, <1>1 DEF FirstOccurrence
<1>12. ASSUME NEW r \in Request, MarkConfirmed(r) PROVE Goal
  BY <1>12, <1>2, ReqShape DEF MarkConfirmed, Status
<1>13. ASSUME NEW r \in Request, RequestDies(r) PROVE Goal
  BY <1>13, <1>1 DEF RequestDies
<1>14. CASE Tick
  BY <1>14, <1>1 DEF Tick
<1>15. CASE UNCHANGED vars
  BY <1>15, <1>1 DEF vars, rows, outcome
<1>16. QED
  BY <1>3, <1>4, <1>5, <1>6, <1>7, <1>8, <1>9, <1>10, <1>11, <1>12, <1>13, <1>14, <1>15
     DEF Next, Handler

LEMMA StoredKeeps ==
  ASSUME TypeOK, [Next]_vars, NEW d, Stored(d) PROVE Stored(d)'
BY RowsKeep DEF Stored

(* A request that does not move stays in order whatever the others do.         *)
LEMMA StillInOrder ==
  ASSUME DraftsInv, [Next]_vars, NEW r \in Request, req'[r] = req[r]
  PROVE  InOrder(req[r])'
<1>1. InOrder(req[r]) /\ TypeOK /\ TypeOK'
  BY TypeStep DEF DraftsInv
<1>2. req'[r].pc = "reply" /\ req'[r].draft # NoDraft => Stored(req[r].draft)'
  BY <1>1, StoredKeeps DEF InOrder
<1>3. req'[r].pc \in {"expire", "apply", "occur", "mark"} =>
        /\ req'[r].draft \in offered'
        /\ req'[r].user \in Parent \/ req'[r].user = owner'[req'[r].draft]
        /\ effects'[req[r].draft] >= effects[req[r].draft]
  <2>1. SUFFICES ASSUME req[r].pc \in {"expire", "apply", "occur", "mark"}
                 PROVE  /\ req[r].draft \in offered'
                        /\ req[r].user \in Parent \/ req[r].user = owner'[req[r].draft]
                        /\ effects'[req[r].draft] >= effects[req[r].draft]
    OBVIOUS
  <2>2. req[r].draft \in Draft /\ req[r].draft \in offered
    BY <1>1, <2>1, ReqShape DEF InOrder
  <2>3. status[req[r].draft] # "none"
    BY <2>2 DEF DraftsInv, Stored
  <2>4. QED
    BY <1>1, <2>1, <2>2, <2>3, RowsKeep DEF InOrder
<1>4. req'[r].pc \in {"occur", "mark"} => effects'[req'[r].draft] > 0
  <2>1. SUFFICES ASSUME req[r].pc \in {"occur", "mark"} PROVE effects'[req[r].draft] > 0
    OBVIOUS
  <2>2. req[r].draft \in Draft /\ effects[req[r].draft] > 0
    BY <1>1, <2>1, ReqShape DEF InOrder
  <2>3. effects'[req[r].draft] \in Nat /\ effects[req[r].draft] \in Nat
    BY <1>1, <2>2 DEF TypeOK
  <2>4. effects'[req[r].draft] >= effects[req[r].draft]
    BY <1>1, <2>2, RowsKeep
  <2>5. QED
    BY <2>2, <2>3, <2>4
<1>5. QED
  BY <1>2, <1>3, <1>4 DEF InOrder

(* The four ways a request moves on: to a step that carries nothing, to the    *)
(* answer with a draft, to the first step of a tap, to a step after the effect. *)
LEMMA MovedInOrder ==
  ASSUME DraftsInv, [Next]_vars, NEW r \in Request,
         \/ req'[r].pc \in {"idle", "ask", "audit"}
         \/ req'[r].pc = "reply" /\ (req'[r].draft # NoDraft => Stored(req[r].draft)')
         \/ /\ req'[r].pc \in {"expire", "apply", "occur", "mark"}
            /\ req'[r].draft \in offered /\ req'[r].draft \in Draft
            /\ req'[r].user \in Parent \/ req'[r].user = owner[req'[r].draft]
            /\ req'[r].pc \in {"occur", "mark"} => effects'[req'[r].draft] > 0
  PROVE  InOrder(req[r])'
<1>1. CASE req'[r].pc \in {"idle", "ask", "audit"}
  BY <1>1 DEF InOrder
<1>2. CASE req'[r].pc = "reply" /\ (req'[r].draft # NoDraft => Stored(req[r].draft)')
  BY <1>2 DEF InOrder
<1>3. CASE /\ req'[r].pc \in {"expire", "apply", "occur", "mark"}
           /\ req'[r].draft \in offered /\ req'[r].draft \in Draft
           /\ req'[r].user \in Parent \/ req'[r].user = owner[req'[r].draft]
           /\ req'[r].pc \in {"occur", "mark"} => effects'[req'[r].draft] > 0
  <2>1. status[req'[r].draft] # "none"
    BY <1>3 DEF DraftsInv, Stored
  <2>2. req'[r].draft \in offered' /\ owner'[req'[r].draft] = owner[req'[r].draft]
    BY <1>3, <2>1, RowsKeep DEF DraftsInv
  <2>3. QED
    BY <1>3, <2>2 DEF InOrder
<1>4. QED
  BY <1>1, <1>2, <1>3

LEMMA OrderStep ==
  ASSUME DraftsInv, [Next]_vars PROVE \A r \in Request : InOrder(req[r])'
<1> TypeOK /\ TypeOK'
  BY TypeStep DEF DraftsInv
<1> DEFINE Goal == \A r \in Request : InOrder(req[r])'
<1>0. ASSUME req' = req PROVE Goal
  BY <1>0, StillInOrder
<1>1. ASSUME NEW r \in Request, NEW local \in Local, Become(r, local), InOrder(req[r])' PROVE Goal
  <2>1. TAKE q \in Request
  <2>2. CASE q = r
    BY <1>1, <2>2
  <2>3. CASE q # r
    BY <1>1, <2>3, StillInOrder DEF Become, TypeOK
  <2>4. QED
    BY <2>2, <2>3
<1>2. ASSUME NEW r \in Request, Become(r, Idle) PROVE Goal
  <2>1. req'[r].pc = "idle"
    BY <1>2 DEF Become, TypeOK, Idle
  <2>2. InOrder(req[r])'
    BY <2>1, MovedInOrder
  <2>3. QED
    BY <1>1, <1>2, <2>2, IdleType
<1>3. ASSUME NEW r \in Request, NEW u \in User, SendMessage(r, u) PROVE Goal
  <2>1. req'[r].pc = "ask" /\ [pc |-> "ask", user |-> u] \in Local
    BY <1>3 DEF SendMessage, Become, TypeOK, Local
  <2>2. InOrder(req[r])'
    BY <2>1, MovedInOrder
  <2>3. QED
    BY <1>3, <1>1, <2>1, <2>2 DEF SendMessage
<1>4. ASSUME NEW r \in Request, NEW u \in User, NEW d \in Draft, ConfirmDraft(r, u, d) PROVE Goal
  <2> DEFINE local == [pc |-> IF expiresAt[d] < now THEN "expire" ELSE FirstStep,
                       user |-> u, draft |-> d]
  <2>1. local \in Local /\ local.pc \in {"expire", "apply"} /\ local.user = u /\ local.draft = d
    BY DEF Local, FirstStep
  <2>2. Become(r, local)
    BY <1>4 DEF ConfirmDraft
  <2>3. req'[r] = local
    BY <2>2 DEF Become, TypeOK
  <2>4. d \in offered /\ (u \in Parent \/ u = owner[d])
    BY <1>4 DEF ConfirmDraft, MayDecide
  <2> HIDE DEF local
  <2>5. InOrder(req[r])'
    BY <2>1, <2>3, <2>4, MovedInOrder
  <2>6. QED
    BY <1>1, <2>1, <2>2, <2>5
<1>5. ASSUME NEW u \in User, NEW d \in Draft, RejectDraft(u, d) PROVE Goal
  BY <1>5, <1>0 DEF RejectDraft
<1>6. ASSUME NEW r \in Request, Ask(r) PROVE Goal
  <2>0. req[r].user \in User
    BY <1>6, ReqShape DEF Ask
  <2>1. ASSUME Become(r, [pc |-> "reply", user |-> req[r].user, draft |-> NoDraft]) PROVE Goal
    <3>1. [pc |-> "reply", user |-> req[r].user, draft |-> NoDraft] \in Local
      BY <2>0 DEF Local
    <3>2. req'[r].pc = "reply" /\ req'[r].draft = NoDraft
      BY <2>1 DEF Become, TypeOK
    <3>3. InOrder(req[r])'
      BY <3>2, MovedInOrder
    <3>4. QED
      BY <1>1, <2>1, <3>1, <3>3
  <2>2. ASSUME NEW d \in Draft, NEW k \in Proposals, StoreDraft(r, req[r].user, d, k), UNCHANGED offered
        PROVE Goal
    <3> DEFINE local == [pc |-> "reply", user |-> req[r].user,
                         draft |-> IF Valid(req[r].user, k) THEN d ELSE NoDraft]
    <3>1. local \in Local
      BY <2>0 DEF Local
    <3>2. Become(r, local)
      BY <2>2 DEF StoreDraft
    <3>3. req'[r].pc = "reply" /\ req'[r].draft = IF Valid(req[r].user, k) THEN d ELSE NoDraft
      BY <3>2 DEF Become, TypeOK
    <3>4. Valid(req[r].user, k) => status'[d] # "none" /\ owner'[d] \in User /\ Valid(owner'[d], kind'[d])
      BY <2>0, <2>2 DEF StoreDraft, TypeOK
    <3>5. req'[r].draft # NoDraft => Stored(req[r].draft)'
      BY <3>3, <3>4 DEF Stored
    <3>6. InOrder(req[r])'
      BY <3>3, <3>5, MovedInOrder
    <3>7. QED
      BY <1>1, <3>1, <3>2, <3>6
  <2>3. QED
    BY <1>6, <2>1, <2>2 DEF Ask
<1>7. ASSUME NEW r \in Request, Reply(r) PROVE Goal
  <2>1. req'[r].pc = "audit" /\ [pc |-> "audit"] \in Local
    BY <1>7 DEF Reply, Offered, Become, TypeOK, Local
  <2>2. InOrder(req[r])'
    BY <2>1, MovedInOrder
  <2>3. QED
    BY <1>7, <1>1, <2>1, <2>2 DEF Reply, Offered
<1>8. ASSUME NEW r \in Request, Audit(r) PROVE Goal
  BY <1>8, <1>2 DEF Audit
<1>9. ASSUME NEW r \in Request, Expire(r) PROVE Goal
  BY <1>9, <1>2 DEF Expire
<1>10. ASSUME NEW r \in Request, NEW next \in {"occur", "mark"},
              req[r].pc \in {"apply", "occur"}, Become(r, [req[r] EXCEPT !.pc = next]),
              effects'[req[r].draft] > 0
       PROVE Goal
  <2>1. req[r] \in [pc: {"expire", "apply", "occur", "mark"}, user: User, draft: Draft]
    BY <1>10, ReqShape
  <2>2. [req[r] EXCEPT !.pc = next] \in Local
    BY <1>10, <2>1 DEF Local
  <2>3. req'[r] = [req[r] EXCEPT !.pc = next]
    BY <1>10 DEF Become, TypeOK
  <2>4. req'[r].pc = next /\ req'[r].draft = req[r].draft /\ req'[r].user = req[r].user
    BY <2>1, <2>3
  <2>5. /\ req[r].draft \in offered /\ req[r].draft \in Draft
        /\ req[r].user \in Parent \/ req[r].user = owner[req[r].draft]
    BY <1>10, <2>1 DEF DraftsInv, InOrder
  <2>6. InOrder(req[r])'
    BY <1>10, <2>4, <2>5, MovedInOrder
  <2>7. QED
    BY <1>1, <1>10, <2>2, <2>6
<1>11. ASSUME NEW r \in Request, Apply(r) PROVE Goal
  <2> DEFINE next == IF kind[req[r].draft] \in Mission THEN "occur" ELSE "mark"
  <2>1. Become(r, Idle) \/ (Become(r, [req[r] EXCEPT !.pc = next])
                           /\ effects' = [effects EXCEPT ![req[r].draft] = @ + 1])
    BY <1>11, Zenon DEF Apply
  <2>2. req[r].draft \in Draft /\ req[r].pc = "apply"
    BY <1>11, ReqShape DEF Apply
  <2>3. effects' = [effects EXCEPT ![req[r].draft] = @ + 1] => effects'[req[r].draft] > 0
    BY <2>2 DEF TypeOK
  <2>4. next \in {"occur", "mark"}
    OBVIOUS
  <2> HIDE DEF next
  <2>5. QED
    BY <1>2, <1>10, <2>1, <2>2, <2>3, <2>4
<1>12. ASSUME NEW r \in Request, FirstOccurrence(r) PROVE Goal
  <2>1. effects' = effects /\ req[r].pc = "occur"
    BY <1>12 DEF FirstOccurrence, outcome
  <2>2. effects'[req[r].draft] > 0
    BY <2>1 DEF DraftsInv, InOrder
  <2>3. Become(r, Idle) \/ Become(r, [req[r] EXCEPT !.pc = "mark"])
    BY <1>12 DEF FirstOccurrence
  <2>4. QED
    BY <1>2, <1>10, <2>1, <2>2, <2>3
<1>13. ASSUME NEW r \in Request, MarkConfirmed(r) PROVE Goal
  BY <1>13, <1>2 DEF MarkConfirmed
<1>14. ASSUME NEW r \in Request, RequestDies(r) PROVE Goal
  BY <1>14, <1>2 DEF RequestDies
<1>15. CASE Tick
  BY <1>15, <1>0 DEF Tick
<1>16. CASE UNCHANGED vars
  BY <1>16, <1>0 DEF vars
<1>17. QED
  BY <1>3, <1>4, <1>5, <1>6, <1>7, <1>8, <1>9, <1>11, <1>12, <1>13, <1>14, <1>15, <1>16
     DEF Next, Handler

(* Only MarkConfirmed writes "confirmed", and its request comes from Apply.    *)
LEMMA ConfirmedStep ==
  ASSUME DraftsInv, [Next]_vars PROVE ConfirmedIsApplied'
<1> TypeOK /\ TypeOK'
  BY TypeStep DEF DraftsInv
<1> SUFFICES ASSUME NEW d \in Draft, status'[d] = "confirmed" PROVE effects'[d] > 0
  BY DEF ConfirmedIsApplied
<1>0. /\ effects[d] \in Nat /\ effects'[d] \in Nat /\ effects'[d] >= effects[d]
      /\ status[d] = "confirmed" => effects[d] > 0
  BY RowsKeep DEF TypeOK, DraftsInv, ConfirmedIsApplied
<1>1. ASSUME effects[d] > 0 PROVE effects'[d] > 0
  BY <1>0, <1>1
<1>2. CASE status'[d] = status[d]
  BY <1>0, <1>1, <1>2
<1>3. ASSUME status'[d] # status[d] PROVE effects[d] > 0
  <2>1. ASSUME NEW u \in User, NEW e \in Draft, RejectDraft(u, e) PROVE FALSE
    BY <1>3, <2>1 DEF RejectDraft, TypeOK
  <2>2. ASSUME NEW r \in Request, Ask(r) PROVE FALSE
    <3>1. ~(UNCHANGED rows)
      BY <1>3 DEF rows
    <3>2. PICK e \in Draft, k \in Proposals : StoreDraft(r, req[r].user, e, k)
      BY <2>2, <3>1 DEF Ask
    <3>3. QED
      BY <1>3, <3>2 DEF StoreDraft, TypeOK
  <2>3. ASSUME NEW r \in Request, Expire(r) PROVE FALSE
    BY <1>3, <2>3 DEF Expire, TypeOK
  <2>4. ASSUME NEW r \in Request, MarkConfirmed(r) PROVE effects[d] > 0
    <3>1. d = req[r].draft
      BY <1>3, <2>4 DEF MarkConfirmed, TypeOK
    <3>2. QED
      BY <2>4, <3>1 DEF MarkConfirmed, DraftsInv, InOrder
  <2>5. UNCHANGED rows => FALSE
    BY <1>3 DEF rows
  <2>6. ASSUME NEW r \in Request, Reply(r) PROVE FALSE
    BY <1>3, <2>6 DEF Reply, Offered
  <2>7. ASSUME NEW r \in Request,
               Audit(r) \/ Apply(r) \/ FirstOccurrence(r) \/ RequestDies(r)
               \/ \E u \in User : SendMessage(r, u) \/ \E e \in Draft : ConfirmDraft(r, u, e)
        PROVE FALSE
    <3>1. ASSUME Audit(r) \/ FirstOccurrence(r) \/ RequestDies(r) PROVE FALSE
      BY <2>5, <3>1 DEF Audit, FirstOccurrence, RequestDies
    <3>2. ASSUME Apply(r) PROVE FALSE
      BY <2>5, <3>2, Zenon DEF Apply
    <3>3. ASSUME NEW u \in User, SendMessage(r, u) \/ \E e \in Draft : ConfirmDraft(r, u, e)
          PROVE FALSE
      BY <2>5, <3>3 DEF SendMessage, ConfirmDraft
    <3>4. QED
      BY <2>7, <3>1, <3>2, <3>3
  <2>8. CASE Tick
    BY <2>5, <2>8 DEF Tick
  <2>9. CASE UNCHANGED vars
    BY <2>5, <2>9 DEF vars, rows
  <2>10. QED
    BY <2>1, <2>2, <2>3, <2>4, <2>6, <2>7, <2>8, <2>9 DEF Next, Handler
<1>4. QED
  BY <1>1, <1>2, <1>3

(* Only Reply offers a draft: the one its request has stored and validated.    *)
LEMMA OfferedStep ==
  ASSUME DraftsInv, [Next]_vars PROVE \A d \in offered' : Stored(d)'
<1> TypeOK
  BY DEF DraftsInv
<1>1. SUFFICES ASSUME NEW d \in offered', d \notin offered PROVE Stored(d)
  BY StoredKeeps DEF DraftsInv
<1>2. ASSUME UNCHANGED offered PROVE FALSE
  BY <1>1, <1>2
<1>3. ASSUME NEW r \in Request, Reply(r) PROVE Stored(d)
  <2>1. d = req[r].draft /\ d # NoDraft
    BY <1>1, <1>3 DEF Reply, Offered
  <2>2. QED
    BY <1>3, <2>1 DEF Reply, Offered, DraftsInv, InOrder
<1>4. ASSUME NEW r \in Request, Ask(r) PROVE FALSE
  BY <1>2, <1>4 DEF Ask, rows
<1>5. ASSUME NEW r \in Request, Apply(r) PROVE FALSE
  <2>1. UNCHANGED rows
    BY <1>5, Zenon DEF Apply
  <2>2. QED
    BY <1>2, <2>1 DEF rows
<1>6. ASSUME NEW r \in Request,
             Audit(r) \/ FirstOccurrence(r) \/ RequestDies(r) \/ Expire(r) \/ MarkConfirmed(r)
      PROVE FALSE
  BY <1>2, <1>6 DEF Audit, FirstOccurrence, RequestDies, Expire, MarkConfirmed, rows
<1>7. ASSUME NEW u \in User,
             \/ \E r \in Request : SendMessage(r, u) \/ \E e \in Draft : ConfirmDraft(r, u, e)
             \/ \E e \in Draft : RejectDraft(u, e)
      PROVE FALSE
  BY <1>2, <1>7 DEF SendMessage, ConfirmDraft, RejectDraft, rows
<1>8. CASE Tick
  BY <1>2, <1>8 DEF Tick, rows
<1>9. CASE UNCHANGED vars
  BY <1>2, <1>9 DEF vars
<1>10. QED
  BY <1>3, <1>4, <1>5, <1>6, <1>7, <1>8, <1>9 DEF Next, Handler

(* Only Apply has an effect, for a draft and a user its request has checked.   *)
LEMMA AgreedStep ==
  ASSUME DraftsInv, [Next]_vars PROVE AppliedWasAgreed'
<1> TypeOK /\ TypeOK'
  BY TypeStep DEF DraftsInv
<1> DEFINE Agreed(d) ==
       /\ d \in offered /\ Valid(owner[d], kind[d])
       /\ \A u \in deciders[d] : u \in Parent \/ (u = owner[d] /\ kind[d] # "protected")
<1>0. SUFFICES ASSUME NEW d \in Draft, effects'[d] > 0 \/ deciders'[d] # {}
               PROVE  Agreed(d)'
  BY DEF AppliedWasAgreed
<1>1. effects[d] > 0 \/ deciders[d] # {} => Agreed(d)
  BY DEF DraftsInv, AppliedWasAgreed
<1>2. d \in offered => status[d] # "none" /\ Valid(owner[d], kind[d])
  BY DEF DraftsInv, Stored
<1>3. d \in offered => d \in offered' /\ owner'[d] = owner[d] /\ kind'[d] = kind[d]
  BY <1>2, RowsKeep
<1>4. ASSUME UNCHANGED outcome PROVE Agreed(d)'
  BY <1>0, <1>1, <1>3, <1>4 DEF outcome
<1>5. ASSUME NEW r \in Request, Apply(r) PROVE Agreed(d)'
  <2>1. CASE UNCHANGED outcome
    BY <1>4, <2>1
  <2>2. CASE ~(UNCHANGED outcome)
    <3>1. /\ req[r].pc = "apply"
          /\ ~(kind[req[r].draft] = "protected" /\ req[r].user \in Child)
          /\ effects' = [effects EXCEPT ![req[r].draft] = @ + 1]
          /\ deciders' = [deciders EXCEPT ![req[r].draft] = @ \cup {req[r].user}]
      BY <1>5, <2>2, Zenon DEF Apply
    <3>2. /\ req[r].draft \in Draft /\ req[r].user \in User /\ req[r].draft \in offered
          /\ req[r].user \in Parent \/ req[r].user = owner[req[r].draft]
      BY <3>1, ReqShape DEF DraftsInv, InOrder
    <3>3. CASE d # req[r].draft
      <4>1. effects'[d] = effects[d] /\ deciders'[d] = deciders[d]
        BY <3>1, <3>3 DEF TypeOK
      <4>2. QED
        BY <1>0, <1>1, <1>3, <4>1
    <3>4. CASE d = req[r].draft
      <4>1. deciders'[d] = deciders[d] \cup {req[r].user}
        BY <3>1, <3>4 DEF TypeOK
      <4>2. ASSUME NEW u \in deciders[d] PROVE u \in Parent \/ (u = owner[d] /\ kind[d] # "protected")
        BY <1>1, <4>2
      <4>3. QED
        BY <1>2, <1>3, <3>1, <3>2, <3>4, <4>1, <4>2 DEF User
    <3>5. QED
      BY <3>3, <3>4
  <2>3. QED
    BY <2>1, <2>2
<1>6. ASSUME NEW r \in Request,
             \/ Ask(r) \/ Reply(r) \/ Audit(r) \/ Expire(r) \/ FirstOccurrence(r)
             \/ MarkConfirmed(r) \/ RequestDies(r)
      PROVE Agreed(d)'
  BY <1>4, <1>6 DEF Ask, Reply, Audit, Expire, FirstOccurrence, MarkConfirmed, RequestDies
<1>7. ASSUME NEW u \in User,
             \/ \E r \in Request : SendMessage(r, u) \/ \E e \in Draft : ConfirmDraft(r, u, e)
             \/ \E e \in Draft : RejectDraft(u, e)
      PROVE Agreed(d)'
  BY <1>4, <1>7 DEF SendMessage, ConfirmDraft, RejectDraft
<1>8. CASE Tick
  BY <1>4, <1>8 DEF Tick
<1>9. CASE UNCHANGED vars
  BY <1>4, <1>9 DEF vars, outcome
<1>10. QED
  BY <1>5, <1>6, <1>7, <1>8, <1>9 DEF Next, Handler

(* A draft may be confirmed for TTL at most, from when it is stored.            *)
LEMMA ExpiryStep ==
  ASSUME DraftsInv, [Next]_vars PROVE \A d \in Draft : expiresAt'[d] <= now' + TTL
<1>t. TypeOK /\ TypeOK' /\ TTL \in Nat /\ \A d \in Draft : expiresAt[d] <= now + TTL
  BY TypeStep, DraftsAssumption DEF DraftsInv
<1> DEFINE Goal == \A d \in Draft : expiresAt'[d] <= now' + TTL
<1>0. ASSUME UNCHANGED <<expiresAt, now>> PROVE Goal
  BY <1>t, <1>0
<1>1. CASE Tick
  BY <1>t, <1>1 DEF Tick, rows, TypeOK
<1>2. ASSUME NEW r \in Request, Ask(r) PROVE Goal
  <2>1. ASSUME UNCHANGED rows PROVE Goal
    BY <1>0, <1>2, <2>1 DEF Ask, rows, bounds
  <2>2. ASSUME NEW d \in Draft, NEW k \in Proposals, StoreDraft(r, req[r].user, d, k) PROVE Goal
    BY <1>t, <1>2, <2>2 DEF Ask, StoreDraft, bounds, TypeOK
  <2>3. QED
    BY <1>2, <2>1, <2>2 DEF Ask
<1>3. ASSUME NEW r \in Request,
             \/ Reply(r) \/ Audit(r) \/ Expire(r) \/ FirstOccurrence(r) \/ MarkConfirmed(r)
             \/ RequestDies(r) \/ \E u \in User : SendMessage(r, u)
             \/ \E u \in User, d \in Draft : ConfirmDraft(r, u, d)
      PROVE Goal
  <2>1. UNCHANGED <<expiresAt, now>>
    BY <1>3 DEF Reply, Audit, Expire, FirstOccurrence, MarkConfirmed, RequestDies, SendMessage,
                ConfirmDraft, bounds, rows
  <2>2. QED
    BY <1>0, <2>1
<1>4. ASSUME NEW r \in Request, Apply(r) PROVE Goal
  <2>1. UNCHANGED bounds /\ UNCHANGED rows
    BY <1>4, Zenon DEF Apply
  <2>2. QED
    BY <1>0, <2>1 DEF bounds, rows
<1>5. ASSUME NEW u \in User, NEW d \in Draft, RejectDraft(u, d) PROVE Goal
  BY <1>0, <1>5 DEF RejectDraft
<1>6. CASE UNCHANGED vars
  BY <1>0, <1>6 DEF vars
<1>7. QED
  BY <1>1, <1>2, <1>3, <1>4, <1>5, <1>6 DEF Next, Handler

LEMMA DraftsInvariant == Spec => []DraftsInv
<1>1. Init => DraftsInv
  <2>1. Init => TypeOK
    BY DraftsAssumption DEF Init, TypeOK, Status, Kind, Local
  <2>2. Init => ConfirmedIsApplied /\ AppliedWasAgreed /\ offered = {}
    BY DEF Init, ConfirmedIsApplied, AppliedWasAgreed
  <2>3. Init => \A r \in Request : InOrder(req[r])
    BY DEF Init, InOrder, Idle
  <2>4. Init => \A d \in Draft : expiresAt[d] <= now + TTL
    BY DraftsAssumption DEF Init
  <2>5. QED
    BY <2>1, <2>2, <2>3, <2>4 DEF DraftsInv
<1>2. DraftsInv /\ [Next]_vars => DraftsInv'
  <2> SUFFICES ASSUME DraftsInv, [Next]_vars PROVE DraftsInv'
    OBVIOUS
  <2>1. TypeOK'
    BY TypeStep DEF DraftsInv
  <2>2. QED
    BY <2>1, ConfirmedStep, AgreedStep, OfferedStep, OrderStep, ExpiryStep DEF DraftsInv
<1>3. QED
  BY <1>1, <1>2, PTL DEF Spec

(* A draft marked confirmed has had its effect, however many taps on it        *)
(* overlap and whatever fails on the way.                                       *)
THEOREM ConfirmedDraftIsApplied == Spec => []ConfirmedIsApplied
<1>1. DraftsInv => ConfirmedIsApplied
  BY DEF DraftsInv
<1>2. QED
  BY <1>1, DraftsInvariant, PTL

(* Whatever a draft stores was offered, validated, and confirmed by its owner  *)
(* or a parent; no child confirms a protected mission.                          *)
THEOREM AppliedDraftWasAgreed == Spec => []AppliedWasAgreed
<1>1. DraftsInv => AppliedWasAgreed
  BY DEF DraftsInv
<1>2. QED
  BY <1>1, DraftsInvariant, PTL

-----------------------------------------------------------------------------
(* ChatDrafts implements DraftAgreement.  First, what leaves each part of the  *)
(* agreement as it is.                                                        *)
LEMMA SameOffers ==
  ASSUME UNCHANGED rows PROVE OfferOf' = OfferOf /\ StateOf' = StateOf
BY DEF rows, OfferOf, StateOf

LEMMA IdleIsNone ==
  /\ Idle.pc = "idle"
  /\ \A u, d : [by |-> u, draft |-> d] # Idle
  /\ \A u, k, t : [to |-> u, kind |-> k, until |-> t] # Idle
<1>1. DOMAIN Idle = {"pc"}
  BY DEF Idle
<1>2. \A u, d : "by" \in DOMAIN [by |-> u, draft |-> d]
  OBVIOUS
<1>3. \A u, k, t : "to" \in DOMAIN [to |-> u, kind |-> k, until |-> t]
  OBVIOUS
<1>4. QED
  BY <1>1, <1>2, <1>3 DEF Idle

LEMMA OneMoves ==
  ASSUME TypeOK, NEW r \in Request, NEW local, Become(r, local)
  PROVE  /\ req'[r] = local
         /\ AboutToAct' = [AboutToAct EXCEPT ![r] =
              IF local.pc = "apply" THEN [by |-> local.user, draft |-> local.draft] ELSE Idle]
<1>1. req'[r] = local /\ \A q \in Request : q # r => req'[q] = req[q]
  BY DEF Become, TypeOK
<1>2. QED
  BY <1>1 DEF AboutToAct

LEMMA NoAct ==
  ASSUME TypeOK, NEW r \in Request, NEW local, Become(r, local),
         req[r].pc # "apply", local.pc # "apply"
  PROVE  AboutToAct' = AboutToAct
<1>1. AboutToAct[r] = Idle
  BY DEF AboutToAct
<1>2. AboutToAct' = [AboutToAct EXCEPT ![r] = Idle]
  BY OneMoves
<1>3. QED
  BY <1>1, <1>2 DEF AboutToAct

(* The rows that a decision closes or confirms.                                *)
LEMMA RowDecided ==
  ASSUME TypeOK, NEW d \in Draft, NEW new \in {"rejected", "expired", "confirmed"},
         status' = [status EXCEPT ![d] = new], UNCHANGED <<kind, owner, expiresAt, offered>>
  PROVE  /\ OfferOf' = OfferOf
         /\ StateOf' = [StateOf EXCEPT ![d] = IF new = "confirmed" THEN "confirmed" ELSE "closed"]
<1>1. OfferOf' = OfferOf
  BY DEF OfferOf
<1>2. \A e \in Draft : status'[e] = IF e = d THEN new ELSE status[e]
  BY DEF TypeOK
<1>3. \A e \in Draft : StateOf'[e] = IF e = d THEN (IF new = "confirmed" THEN "confirmed" ELSE "closed")
                                     ELSE StateOf[e]
  BY <1>2 DEF StateOf
<1>4. StateOf' = [e \in Draft |-> StateOf'[e]] /\ StateOf = [e \in Draft |-> StateOf[e]]
  BY DEF StateOf
<1>5. QED
  BY <1>1, <1>3, <1>4

LEMMA OfferedIsOffer ==
  ASSUME DraftsInv, NEW d \in offered
  PROVE  /\ d \in Draft /\ OfferOf[d] # Idle
         /\ OfferOf[d] = [to |-> owner[d], kind |-> kind[d], until |-> expiresAt[d]]
<1>1. d \in Draft
  BY DEF DraftsInv, TypeOK
<1>2. QED
  BY <1>1, IdleIsNone DEF OfferOf

LEMMA AgreementStep ==
  ASSUME DraftsInv, [Next]_vars
  PROVE  [Agreement!Next]_(Agreement!vars)
<1>t. TypeOK
  BY DEF DraftsInv
<1> DEFINE Goal == [Agreement!Next]_(Agreement!vars)
<1>0. ASSUME UNCHANGED <<now, effects>>, OfferOf' = OfferOf, StateOf' = StateOf, AboutToAct' = AboutToAct
      PROVE  Goal
  BY <1>0 DEF Agreement!vars
<1>a. UNCHANGED bounds => UNCHANGED now
  BY DEF bounds
<1>b. UNCHANGED outcome => UNCHANGED effects
  BY DEF outcome
<1>1. ASSUME NEW r \in Request, NEW u \in User, SendMessage(r, u) PROVE Goal
  <2>1. AboutToAct' = AboutToAct
    BY <1>1, <1>t, NoAct, IdleIsNone DEF SendMessage
  <2>2. QED
    BY <1>0, <1>1, <1>a, <1>b, <2>1, SameOffers DEF SendMessage
<1>2. ASSUME NEW r \in Request, NEW u \in User, NEW d \in Draft, ConfirmDraft(r, u, d) PROVE Goal
  <2> DEFINE local == [pc |-> IF expiresAt[d] < now THEN "expire" ELSE FirstStep, user |-> u, draft |-> d]
  <2>1. /\ req[r] = Idle /\ d \in offered /\ (u \in Parent \/ owner[d] = u) /\ status[d] = "drafted"
        /\ Become(r, local)
        /\ UNCHANGED <<now, effects>> /\ OfferOf' = OfferOf /\ StateOf' = StateOf
    BY <1>2, <1>b, SameOffers DEF ConfirmDraft, MayDecide
  <2>2. local.user = u /\ local.draft = d
        /\ local.pc = IF expiresAt[d] < now THEN "expire" ELSE "apply"
    BY DEF FirstStep
  <2> HIDE DEF local
  <2>3. CASE expiresAt[d] < now
    <3>1. AboutToAct' = AboutToAct
      BY <1>t, <2>1, <2>2, <2>3, NoAct, IdleIsNone
    <3>2. QED
      BY <1>0, <2>1, <3>1
  <2>4. CASE ~(expiresAt[d] < now)
    <3>1. AboutToAct' = [AboutToAct EXCEPT ![r] = [by |-> u, draft |-> d]]
      BY <1>t, <2>1, <2>2, <2>4, OneMoves
    <3>2. AboutToAct[r] = Idle
      BY <2>1, IdleIsNone DEF AboutToAct
    <3>3. /\ OfferOf[d] # Idle
          /\ OfferOf[d] = [to |-> owner[d], kind |-> kind[d], until |-> expiresAt[d]]
      BY <2>1, OfferedIsOffer
    <3>4. StateOf[d] = "open"
      BY <2>1 DEF StateOf
    <3>5. now <= expiresAt[d]
      BY <1>t, <2>4 DEF TypeOK
    <3>6. Agreement!Agree(r, u, d)
      BY <2>1, <3>1, <3>2, <3>3, <3>4, <3>5 DEF Agreement!Agree
    <3>7. QED
      BY <3>6 DEF Agreement!Next, User
  <2>5. QED
    BY <2>3, <2>4
<1>3. ASSUME NEW d \in Draft, d \in offered, UNCHANGED <<now, effects>>, OfferOf' = OfferOf,
             AboutToAct' = AboutToAct, StateOf' = [StateOf EXCEPT ![d] = "closed"]
      PROVE  Goal
  <2>1. Agreement!Close(d)
    BY <1>3, OfferedIsOffer DEF Agreement!Close
  <2>2. QED
    BY <2>1 DEF Agreement!Next
<1>4. ASSUME NEW u \in User, NEW d \in Draft, RejectDraft(u, d) PROVE Goal
  <2>1. /\ d \in offered /\ status' = [status EXCEPT ![d] = "rejected"]
        /\ UNCHANGED <<now, kind, owner, expiresAt, offered, effects, req>>
    BY <1>4, <1>b DEF RejectDraft, MayDecide
  <2>2. OfferOf' = OfferOf /\ StateOf' = [StateOf EXCEPT ![d] = "closed"]
    BY <1>t, <2>1, RowDecided
  <2>3. AboutToAct' = AboutToAct
    BY <2>1 DEF AboutToAct
  <2>4. QED
    BY <1>3, <2>1, <2>2, <2>3
<1>5. ASSUME NEW r \in Request, Ask(r) PROVE Goal
  <2>0. UNCHANGED <<now, effects>> /\ req[r].pc # "apply"
    BY <1>5, <1>a, <1>b DEF Ask
  <2>1. ASSUME Become(r, [pc |-> "reply", user |-> req[r].user, draft |-> NoDraft]), UNCHANGED rows
        PROVE  Goal
    <3>1. AboutToAct' = AboutToAct
      BY <1>t, <2>0, <2>1, NoAct
    <3>2. QED
      BY <1>0, <2>0, <2>1, <3>1, SameOffers
  <2>2. ASSUME NEW d \in Draft, NEW k \in Proposals, StoreDraft(r, req[r].user, d, k), UNCHANGED offered
        PROVE  Goal
    <3>1. status[d] = "none" /\ d \notin offered
      BY <2>2 DEF StoreDraft, DraftsInv, Stored
    <3>2. /\ status'[d] \in {"drafted", "invalid"}
          /\ \A e \in Draft : e # d => /\ status'[e] = status[e] /\ kind'[e] = kind[e]
                                       /\ owner'[e] = owner[e] /\ expiresAt'[e] = expiresAt[e]
      BY <1>t, <2>2 DEF StoreDraft, TypeOK
    <3>3. OfferOf' = OfferOf
      BY <2>2, <3>1, <3>2 DEF OfferOf
    <3>4. StateOf' = StateOf
      BY <3>1, <3>2 DEF StateOf
    <3>5. AboutToAct' = AboutToAct
      BY <1>t, <2>0, <2>2, NoAct DEF StoreDraft
    <3>6. QED
      BY <1>0, <2>0, <3>3, <3>4, <3>5
  <2>3. QED
    BY <1>5, <2>1, <2>2 DEF Ask
<1>6. ASSUME NEW r \in Request, Reply(r) PROVE Goal
  <2> DEFINE d == req[r].draft
  <2>1. /\ req[r].pc = "reply" /\ offered' = offered \cup ({d} \ {NoDraft})
        /\ Become(r, [pc |-> "audit"])
        /\ UNCHANGED <<now, status, kind, owner, expiresAt, effects>>
    BY <1>6, <1>a, <1>b DEF Reply, Offered
  <2>2. AboutToAct' = AboutToAct
    BY <1>t, <2>1, NoAct
  <2>3. StateOf' = StateOf
    BY <2>1 DEF StateOf
  <2>4. CASE d = NoDraft \/ d \in offered
    <3>1. offered' = offered
      BY <2>1, <2>4
    <3>2. OfferOf' = OfferOf
      BY <2>1, <3>1 DEF OfferOf
    <3>3. QED
      BY <1>0, <2>1, <2>2, <2>3, <3>2
  <2>5. CASE d # NoDraft /\ d \notin offered
    <3>1. d \in Draft /\ owner[d] \in User /\ Valid(owner[d], kind[d])
      BY <2>1, <2>5 DEF DraftsInv, InOrder, Stored
    <3>2. offered' = offered \cup {d}
      BY <2>1, <2>5
    <3> HIDE DEF d
    <3>3. OfferOf' = [OfferOf EXCEPT ![d] = [to |-> owner[d], kind |-> kind[d], until |-> expiresAt[d]]]
      BY <2>1, <3>1, <3>2 DEF OfferOf
    <3>4. OfferOf[d] = Idle
      BY <2>5, <3>1 DEF OfferOf
    <3>5. expiresAt[d] \in 0..(now + TTL)
      BY <1>t, <3>1, DraftsAssumption DEF DraftsInv, TypeOK
    <3>6. owner[d] \in User /\ kind[d] \in Kind /\ (kind[d] = "protected" => owner[d] \in Parent)
      <4>1. kind[d] \in Kind
        BY <1>t, <3>1 DEF TypeOK
      <4>2. kind[d] = "protected" => owner[d] \in Parent
        BY <3>1 DEF Valid
      <4>3. QED
        BY <3>1, <4>1, <4>2
    <3>7. Agreement!Offer(d, owner[d], kind[d])
      BY <2>1, <2>2, <2>3, <3>3, <3>4, <3>5, <3>6 DEF Agreement!Offer
    <3>8. QED
      BY <3>1, <3>6, <3>7 DEF Agreement!Next, User
  <2>6. QED
    BY <2>4, <2>5
<1>7. ASSUME NEW r \in Request, Audit(r) PROVE Goal
  <2>1. AboutToAct' = AboutToAct
    BY <1>7, <1>t, NoAct, IdleIsNone DEF Audit
  <2>2. QED
    BY <1>0, <1>7, <1>a, <1>b, <2>1, SameOffers DEF Audit
<1>8. ASSUME NEW r \in Request, Expire(r) PROVE Goal
  <2> DEFINE d == req[r].draft
  <2>1. /\ req[r].pc = "expire" /\ status' = [status EXCEPT ![d] = "expired"] /\ Become(r, Idle)
        /\ UNCHANGED <<now, kind, owner, expiresAt, offered, effects>>
    BY <1>8, <1>a, <1>b DEF Expire
  <2>2. d \in Draft /\ d \in offered
    BY <1>t, <2>1, ReqShape DEF DraftsInv, InOrder
  <2>3. AboutToAct' = AboutToAct
    BY <1>t, <2>1, NoAct, IdleIsNone
  <2> HIDE DEF d
  <2>4. OfferOf' = OfferOf /\ StateOf' = [StateOf EXCEPT ![d] = "closed"]
    BY <1>t, <2>1, <2>2, RowDecided
  <2>5. QED
    BY <1>3, <2>1, <2>2, <2>3, <2>4
<1>9. ASSUME NEW r \in Request, UNCHANGED <<now, effects>>, OfferOf' = OfferOf, StateOf' = StateOf,
             AboutToAct' = [AboutToAct EXCEPT ![r] = Idle]
      PROVE  Goal
  <2>1. Agreement!Drop(r)
    BY <1>9 DEF Agreement!Drop
  <2>2. QED
    BY <2>1 DEF Agreement!Next
<1>10. ASSUME NEW r \in Request, Apply(r) PROVE Goal
  <2> DEFINE d == req[r].draft
             next == IF kind[d] \in Mission THEN "occur" ELSE "mark"
  <2>1. req[r].pc = "apply" /\ UNCHANGED bounds /\ UNCHANGED rows
    BY <1>10, Zenon DEF Apply
  <2>2. \/ Become(r, Idle) /\ UNCHANGED outcome
        \/ /\ ~(kind[d] = "protected" /\ req[r].user \in Child)
           /\ effects' = [effects EXCEPT ![d] = @ + 1]
           /\ Become(r, [req[r] EXCEPT !.pc = next])
    BY <1>10, Zenon DEF Apply
  <2>3. UNCHANGED now /\ OfferOf' = OfferOf /\ StateOf' = StateOf
    BY <1>a, <2>1, SameOffers
  <2>4. ASSUME Become(r, Idle), UNCHANGED outcome PROVE Goal
    <3>1. AboutToAct' = [AboutToAct EXCEPT ![r] = Idle]
      BY <1>t, <2>4, OneMoves, IdleIsNone
    <3>2. QED
      BY <1>9, <1>b, <2>3, <2>4, <3>1
  <2>5. ASSUME ~(kind[d] = "protected" /\ req[r].user \in Child),
               effects' = [effects EXCEPT ![d] = @ + 1],
               Become(r, [req[r] EXCEPT !.pc = next])
        PROVE  Goal
    <3>1. req[r] \in [pc: {"expire", "apply", "occur", "mark"}, user: User, draft: Draft]
      BY <1>t, <2>1, ReqShape
    <3>2. d \in Draft /\ d \in offered
      BY <2>1, <3>1 DEF DraftsInv, InOrder
    <3>3. next # "apply"
      OBVIOUS
    <3> HIDE DEF next, d
    <3>4. [req[r] EXCEPT !.pc = next].pc # "apply"
      BY <3>1, <3>3
    <3>5. AboutToAct' = [AboutToAct EXCEPT ![r] = Idle]
      BY <1>t, <2>5, <3>4, OneMoves
    <3>6. AboutToAct[r] = [by |-> req[r].user, draft |-> d]
      BY <2>1 DEF AboutToAct, d
    <3>7. AboutToAct[r] # Idle /\ AboutToAct[r].by = req[r].user /\ AboutToAct[r].draft = d
      BY <3>6, IdleIsNone
    <3>8. OfferOf[d].kind = kind[d]
      <4>1. OfferOf[d] = [to |-> owner[d], kind |-> kind[d], until |-> expiresAt[d]]
        BY <3>2, OfferedIsOffer
      <4>2. QED
        BY <4>1
    <3>9. Agreement!Act(r)
      BY <2>3, <2>5, <3>5, <3>7, <3>8 DEF Agreement!Act
    <3>10. QED
      BY <3>9 DEF Agreement!Next
  <2>6. QED
    BY <2>2, <2>4, <2>5
<1>11. ASSUME NEW r \in Request, FirstOccurrence(r) PROVE Goal
  <2>1. /\ req[r].pc = "occur" /\ UNCHANGED <<now, effects>> /\ OfferOf' = OfferOf /\ StateOf' = StateOf
        /\ Become(r, Idle) \/ Become(r, [req[r] EXCEPT !.pc = "mark"])
    BY <1>11, <1>a, <1>b, SameOffers DEF FirstOccurrence
  <2>2. req[r] \in [pc: {"expire", "apply", "occur", "mark"}, user: User, draft: Draft]
    BY <1>t, <2>1, ReqShape
  <2>3. [req[r] EXCEPT !.pc = "mark"].pc = "mark"
    BY <2>2
  <2>4. AboutToAct' = AboutToAct
    BY <1>t, <2>1, <2>3, NoAct, IdleIsNone
  <2>5. QED
    BY <1>0, <2>1, <2>4
<1>12. ASSUME NEW r \in Request, MarkConfirmed(r) PROVE Goal
  <2> DEFINE d == req[r].draft
  <2>1. /\ req[r].pc = "mark" /\ status' = [status EXCEPT ![d] = "confirmed"] /\ Become(r, Idle)
        /\ UNCHANGED <<now, kind, owner, expiresAt, offered, effects>>
    BY <1>12, <1>a, <1>b DEF MarkConfirmed
  <2>2. d \in Draft /\ effects[d] > 0
    BY <1>t, <2>1, ReqShape DEF DraftsInv, InOrder
  <2>3. AboutToAct' = AboutToAct
    BY <1>t, <2>1, NoAct, IdleIsNone
  <2> HIDE DEF d
  <2>4. OfferOf' = OfferOf /\ StateOf' = [StateOf EXCEPT ![d] = "confirmed"]
    BY <1>t, <2>1, <2>2, RowDecided
  <2>5. Agreement!Confirm(d)
    BY <2>1, <2>2, <2>3, <2>4 DEF Agreement!Confirm
  <2>6. QED
    BY <2>2, <2>5 DEF Agreement!Next
<1>13. ASSUME NEW r \in Request, RequestDies(r) PROVE Goal
  <2>1. Become(r, Idle) /\ UNCHANGED <<now, effects>> /\ OfferOf' = OfferOf /\ StateOf' = StateOf
    BY <1>13, <1>b, SameOffers DEF RequestDies
  <2>2. AboutToAct' = [AboutToAct EXCEPT ![r] = Idle]
    BY <1>t, <2>1, OneMoves, IdleIsNone
  <2>3. QED
    BY <1>9, <2>1, <2>2
<1>14. CASE Tick
  <2>1. /\ now' = now + 1 /\ UNCHANGED effects /\ OfferOf' = OfferOf /\ StateOf' = StateOf
        /\ req' = req
    BY <1>14, <1>b, SameOffers DEF Tick
  <2>2. Agreement!Tick
    BY <2>1 DEF Agreement!Tick, AboutToAct
  <2>3. QED
    BY <2>2 DEF Agreement!Next
<1>15. CASE UNCHANGED vars
  <2>1. UNCHANGED <<now, effects, rows, req>>
    BY <1>15 DEF vars, rows
  <2>2. QED
    BY <1>0, <2>1, SameOffers DEF AboutToAct
<1>16. QED
  BY <1>1, <1>2, <1>4, <1>5, <1>6, <1>7, <1>8, <1>10, <1>11, <1>12, <1>13, <1>14, <1>15
     DEF Next, Handler

(* Nothing happens without a confirmation that was given in time by somebody    *)
(* who may, each confirmation has one effect at most, and only what had one is   *)
(* marked confirmed, for any family and any overlap of requests.               *)
THEOREM DraftsFollowAgreement == Spec => ImplementsAgreement
<1>1. Init => Agreement!Init
  <2>1. SUFFICES ASSUME Init PROVE Agreement!Init
    OBVIOUS
  <2>2. OfferOf = [d \in Draft |-> Idle] /\ StateOf = [d \in Draft |-> "open"]
    BY <2>1 DEF Init, OfferOf, StateOf
  <2>3. AboutToAct = [r \in Request |-> Idle]
    BY <2>1, IdleIsNone DEF Init, AboutToAct
  <2>4. QED
    BY <2>1, <2>2, <2>3 DEF Init, Agreement!Init
<1>2. DraftsInv /\ [Next]_vars => [Agreement!Next]_(Agreement!vars)
  BY AgreementStep
<1>3. QED
  BY <1>1, <1>2, DraftsInvariant, PTL DEF Spec, ImplementsAgreement, Agreement!Spec

-----------------------------------------------------------------------------
(***************************************************************************)
(* Effects and taps.  A tap puts its request before `apply`, the store     *)
(* takes it away from there, and nothing else gets there.                  *)
(***************************************************************************)
LEMMA CountsAreNat ==
  ASSUME NEW S, IsFiniteSet(S) PROVE Cardinality(S) \in Nat
BY FS_CardinalityType

(* A request that moves changes the set of those about to store by itself.     *)
LEMMA StoringMoves ==
  ASSUME TypeOK, NEW r \in Request, NEW local, Become(r, local)
  PROVE  AboutToStore' = IF local.pc = "apply" THEN AboutToStore \cup {r} ELSE AboutToStore \ {r}
<1>1. \A q \in Request : req'[q] = IF q = r THEN local ELSE req[q]
  BY DEF Become, TypeOK
<1>2. QED
  BY <1>1 DEF AboutToStore

LEMMA StoredSame == ASSUME UNCHANGED effects PROVE StoredSoFar' = StoredSoFar
BY DEF StoredSoFar

(* What neither stores nor makes a request store keeps within the taps.        *)
LEMMA TapsFewer ==
  ASSUME TypeOK, TapsCover, UNCHANGED effects, AboutToStore' \subseteq AboutToStore,
         taps' \in Nat, taps <= taps'
  PROVE  TapsCover'
<1>1. StoredSoFar' = StoredSoFar
  BY StoredSame
<1>2. IsFiniteSet(AboutToStore') /\ Cardinality(AboutToStore') <= Cardinality(AboutToStore)
  BY FS_Subset DEF TapsCover
<1>3. /\ Cardinality(StoredSoFar) \in Nat /\ Cardinality(AboutToStore) \in Nat
      /\ Cardinality(AboutToStore') \in Nat
  BY <1>2, CountsAreNat DEF TapsCover
<1>4. taps \in Nat
  BY DEF TypeOK
<1>5. Cardinality(StoredSoFar) + Cardinality(AboutToStore) <= taps
  BY DEF TapsCover
<1>6. Cardinality(StoredSoFar) + Cardinality(AboutToStore') <= taps'
  BY <1>2, <1>3, <1>4, <1>5
<1>7. QED
  BY <1>1, <1>2, <1>6 DEF TapsCover

LEMMA TapsStep ==
  ASSUME DraftsInv, TapsCover, [Next]_vars PROVE TapsCover'
<1>t. TypeOK /\ TypeOK' /\ taps \in Nat
  BY TypeStep DEF DraftsInv, TypeOK
<1>b. UNCHANGED bounds => UNCHANGED taps
  BY DEF bounds
<1>e. UNCHANGED outcome => UNCHANGED effects
  BY DEF outcome
<1>0. ASSUME UNCHANGED <<taps, effects>>, AboutToStore' \subseteq AboutToStore PROVE TapsCover'
  BY <1>t, <1>0, TapsFewer
<1>1. ASSUME NEW r \in Request, NEW local, Become(r, local), local.pc # "apply",
             UNCHANGED bounds \/ UNCHANGED taps, UNCHANGED outcome
      PROVE  TapsCover'
  BY <1>0, <1>1, <1>t, <1>b, <1>e, StoringMoves
<1>2. ASSUME NEW r \in Request, NEW u \in User, SendMessage(r, u) PROVE TapsCover'
  BY <1>1, <1>2 DEF SendMessage
<1>3. ASSUME NEW r \in Request, NEW u \in User, NEW d \in Draft, ConfirmDraft(r, u, d)
      PROVE  TapsCover'
  <2> DEFINE local == [pc |-> IF expiresAt[d] < now THEN "expire" ELSE FirstStep,
                       user |-> u, draft |-> d]
  <2>1. req[r] = Idle /\ Become(r, local) /\ taps' = taps + 1 /\ UNCHANGED effects
    BY <1>3, <1>e DEF ConfirmDraft
  <2> HIDE DEF local
  <2>2. r \notin AboutToStore
    BY <2>1, IdleIsNone DEF AboutToStore
  <2>3. CASE AboutToStore' = AboutToStore \ {r}
    BY <1>t, <2>1, <2>3, TapsFewer
  <2>4. CASE AboutToStore' = AboutToStore \cup {r}
    <3>1. /\ IsFiniteSet(AboutToStore')
          /\ Cardinality(AboutToStore') = Cardinality(AboutToStore) + 1
      BY <2>2, <2>4, FS_AddElement DEF TapsCover
    <3>2. Cardinality(StoredSoFar) \in Nat /\ Cardinality(AboutToStore) \in Nat
      BY CountsAreNat DEF TapsCover
    <3>3. StoredSoFar' = StoredSoFar
      BY <2>1, StoredSame
    <3>4. Cardinality(StoredSoFar) + Cardinality(AboutToStore) <= taps
      BY DEF TapsCover
    <3>5. Cardinality(StoredSoFar) + Cardinality(AboutToStore') <= taps'
      BY <1>t, <2>1, <3>1, <3>2, <3>4
    <3>6. QED
      BY <3>1, <3>3, <3>5 DEF TapsCover
  <2>5. QED
    BY <1>t, <2>1, <2>3, <2>4, StoringMoves
<1>4. ASSUME NEW u \in User, NEW d \in Draft, RejectDraft(u, d) PROVE TapsCover'
  <2>1. taps' = taps + 1 /\ UNCHANGED <<effects, req>>
    BY <1>4, <1>e DEF RejectDraft
  <2>2. AboutToStore' = AboutToStore
    BY <2>1 DEF AboutToStore
  <2>3. QED
    BY <1>t, <2>1, <2>2, TapsFewer
<1>5. ASSUME NEW r \in Request, Ask(r) \/ Reply(r) \/ Audit(r) \/ Expire(r) \/ MarkConfirmed(r)
      PROVE  TapsCover'
  <2>1. UNCHANGED <<taps, effects>>
    BY <1>5, <1>b, <1>e DEF Ask, Reply, Audit, Expire, MarkConfirmed
  <2>2. \E local : Become(r, local) /\ local.pc # "apply"
    <3>1. CASE Ask(r)
      <4>1. \E draft : Become(r, [pc |-> "reply", user |-> req[r].user, draft |-> draft])
        BY <3>1 DEF Ask, StoreDraft
      <4>2. \A draft : [pc |-> "reply", user |-> req[r].user, draft |-> draft].pc # "apply"
        OBVIOUS
      <4>3. QED
        BY <4>1, <4>2
    <3>2. CASE Reply(r)
      BY <3>2 DEF Reply
    <3>3. CASE Audit(r) \/ Expire(r) \/ MarkConfirmed(r)
      BY <3>3, IdleIsNone DEF Audit, Expire, MarkConfirmed
    <3>4. QED
      BY <1>5, <3>1, <3>2, <3>3
  <2>3. AboutToStore' \subseteq AboutToStore
    BY <1>t, <2>2, StoringMoves
  <2>4. QED
    BY <1>0, <2>1, <2>3
<1>6. ASSUME NEW r \in Request, Apply(r) PROVE TapsCover'
  <2> DEFINE d == req[r].draft
             next == IF kind[d] \in Mission THEN "occur" ELSE "mark"
  <2>1. req[r].pc = "apply" /\ UNCHANGED taps
    BY <1>6, <1>b, Zenon DEF Apply
  <2>2. \/ Become(r, Idle) /\ UNCHANGED outcome
        \/ /\ effects' = [effects EXCEPT ![d] = @ + 1]
           /\ Become(r, [req[r] EXCEPT !.pc = next])
    BY <1>6, Zenon DEF Apply
  <2>3. req[r] \in [pc: {"expire", "apply", "occur", "mark"}, user: User, draft: Draft] /\ d \in Draft
    BY <1>t, <2>1, ReqShape
  <2>4. next # "apply"
    OBVIOUS
  <2> HIDE DEF next, d
  <2>5. CASE Become(r, Idle) /\ UNCHANGED outcome
    BY <1>1, <2>1, <2>5, IdleIsNone
  <2>6. CASE /\ effects' = [effects EXCEPT ![d] = @ + 1]
             /\ Become(r, [req[r] EXCEPT !.pc = next])
    <3>1. [req[r] EXCEPT !.pc = next].pc # "apply"
      BY <2>3, <2>4
    <3>2. AboutToStore' = AboutToStore \ {r} /\ r \in AboutToStore
      BY <1>t, <2>1, <2>6, <3>1, StoringMoves DEF AboutToStore
    <3>3. /\ IsFiniteSet(AboutToStore')
          /\ Cardinality(AboutToStore') = Cardinality(AboutToStore) - 1
      BY <3>2, FS_RemoveElement DEF TapsCover
    <3> DEFINE new == <<d, effects[d] + 1>>
    <3>4. StoredSoFar' = StoredSoFar \cup {new}
      <4>1. \A e \in Draft : effects[e] \in Nat /\ effects'[e] = IF e = d THEN effects[d] + 1 ELSE effects[e]
        BY <1>t, <2>6 DEF TypeOK
      <4>2. \A s : s \in StoredSoFar <=> \E e \in Draft : \E n \in 1..effects[e] : s = <<e, n>>
        BY DEF StoredSoFar
      <4>3. \A s : s \in StoredSoFar' <=> \E e \in Draft : \E n \in 1..effects'[e] : s = <<e, n>>
        BY DEF StoredSoFar
      <4>4. new \in StoredSoFar'
        BY <2>3, <4>1, <4>3
      <4>5. \A s : s \in StoredSoFar => s \in StoredSoFar'
        BY <4>1, <4>2, <4>3
      <4>6. \A s : s \in StoredSoFar' => s \in StoredSoFar \/ s = new
        BY <2>3, <4>1, <4>2, <4>3
      <4>7. QED
        BY <4>4, <4>5, <4>6
    <3>5. /\ IsFiniteSet(StoredSoFar')
          /\ Cardinality(StoredSoFar') <= Cardinality(StoredSoFar) + 1
      <4> HIDE DEF new
      <4>1. IsFiniteSet(StoredSoFar)
        BY DEF TapsCover
      <4>2. Cardinality(StoredSoFar) \in Nat
        BY <4>1, CountsAreNat
      <4>3. /\ IsFiniteSet(StoredSoFar \cup {new})
            /\ Cardinality(StoredSoFar \cup {new}) \in {Cardinality(StoredSoFar), Cardinality(StoredSoFar) + 1}
        BY <4>1, FS_AddElement
      <4>4. QED
        BY <3>4, <4>2, <4>3
    <3>6. /\ Cardinality(StoredSoFar) \in Nat /\ Cardinality(AboutToStore) \in Nat
          /\ Cardinality(StoredSoFar') \in Nat
      BY <3>5, CountsAreNat DEF TapsCover
    <3>7. Cardinality(StoredSoFar) + Cardinality(AboutToStore) <= taps
      BY DEF TapsCover
    <3>8. Cardinality(StoredSoFar') + Cardinality(AboutToStore') <= taps'
      BY <1>t, <2>1, <3>3, <3>5, <3>6, <3>7
    <3>9. QED
      BY <3>3, <3>5, <3>8 DEF TapsCover
  <2>7. QED
    BY <2>2, <2>5, <2>6
<1>7. ASSUME NEW r \in Request, FirstOccurrence(r) PROVE TapsCover'
  <2>1. /\ req[r].pc = "occur" /\ UNCHANGED <<taps, effects>>
        /\ Become(r, Idle) \/ Become(r, [req[r] EXCEPT !.pc = "mark"])
    BY <1>7, <1>b, <1>e DEF FirstOccurrence
  <2>2. [req[r] EXCEPT !.pc = "mark"].pc = "mark"
    BY <1>t, <2>1, ReqShape
  <2>3. AboutToStore' \subseteq AboutToStore
    BY <1>t, <2>1, <2>2, StoringMoves, IdleIsNone
  <2>4. QED
    BY <1>0, <2>1, <2>3
<1>8. ASSUME NEW r \in Request, RequestDies(r) PROVE TapsCover'
  BY <1>1, <1>8, IdleIsNone DEF RequestDies
<1>9. CASE Tick \/ UNCHANGED vars
  <2>1. UNCHANGED <<taps, effects, req>>
    BY <1>9, <1>e DEF Tick, vars
  <2>2. AboutToStore' = AboutToStore
    BY <2>1 DEF AboutToStore
  <2>3. QED
    BY <1>0, <2>1, <2>2
<1>10. QED
  BY <1>2, <1>3, <1>4, <1>5, <1>6, <1>7, <1>8, <1>9 DEF Next, Handler

(* A draft may be applied more than once, but never without a tap for each      *)
(* time: over all drafts, what was stored and what is about to be are no more   *)
(* than the taps, for any family and any overlap of requests.                   *)
THEOREM EveryEffectWasTapped == Spec => []TapsCover
<1>1. Init => TapsCover
  <2>1. SUFFICES ASSUME Init PROVE TapsCover
    OBVIOUS
  <2>2. StoredSoFar = {} /\ AboutToStore = {} /\ taps = 0
    BY <2>1, IdleIsNone DEF Init, StoredSoFar, AboutToStore
  <2>3. QED
    BY <2>2, FS_EmptySet DEF TapsCover
<1>2. DraftsInv /\ TapsCover /\ [Next]_vars => TapsCover'
  BY TapsStep
<1>3. QED
  BY <1>1, <1>2, DraftsInvariant, PTL DEF Spec

-----------------------------------------------------------------------------
(***************************************************************************)
(* Messages.  A request counts for one of its message while it asks or     *)
(* replies, and for one of its answer until it has logged it.              *)
(***************************************************************************)
Bit(b) == IF b THEN 1 ELSE 0

(* A set that one element joins, leaves or neither.                            *)
LEMMA OneMore ==
  ASSUME NEW S, NEW R, IsFiniteSet(S), NEW x, NEW in \in BOOLEAN,
         R = IF in THEN S \cup {x} ELSE S \ {x}
  PROVE  /\ IsFiniteSet(R) /\ Cardinality(S) \in Nat
         /\ Cardinality(R) = Cardinality(S) + Bit(in) - Bit(x \in S)
<1>1. Cardinality(S) \in Nat
  BY CountsAreNat
<1>2. CASE in
  <2>1. R = S \cup {x}
    BY <1>2
  <2>2. IsFiniteSet(R) /\ Cardinality(R) = IF x \in S THEN Cardinality(S) ELSE Cardinality(S) + 1
    BY <2>1, FS_AddElement
  <2>3. QED
    BY <1>1, <1>2, <2>2 DEF Bit
<1>3. CASE ~in
  <2>1. R = S \ {x}
    BY <1>3
  <2>2. IsFiniteSet(R) /\ Cardinality(R) = IF x \in S THEN Cardinality(S) - 1 ELSE Cardinality(S)
    BY <2>1, FS_RemoveElement
  <2>3. QED
    BY <1>1, <1>3, <2>2 DEF Bit
<1>4. QED
  BY <1>2, <1>3

LEMMA CountsMove ==
  ASSUME TypeOK, NothingLost, NEW r \in Request, NEW local, Become(r, local)
  PROVE  /\ IsFiniteSet(Answering') /\ IsFiniteSet(Logging')
         /\ Cardinality(Answering) \in Nat /\ Cardinality(Logging) \in Nat
         /\ Cardinality(Answering') = Cardinality(Answering)
              + Bit(local.pc \in {"ask", "reply"}) - Bit(req[r].pc \in {"ask", "reply"})
         /\ Cardinality(Logging') = Cardinality(Logging)
              + Bit(local.pc = "audit") - Bit(req[r].pc = "audit")
<1>1. \A q \in Request : req'[q] = IF q = r THEN local ELSE req[q]
  BY DEF Become, TypeOK
<1>2. Answering' = IF local.pc \in {"ask", "reply"} THEN Answering \cup {r} ELSE Answering \ {r}
  BY <1>1 DEF Answering
<1>3. Logging' = IF local.pc = "audit" THEN Logging \cup {r} ELSE Logging \ {r}
  BY <1>1 DEF Logging
<1>4. /\ r \in Answering <=> req[r].pc \in {"ask", "reply"}
      /\ r \in Logging <=> req[r].pc = "audit"
  BY DEF Answering, Logging
<1>5. IsFiniteSet(Answering) /\ IsFiniteSet(Logging)
  BY DEF NothingLost
<1>6. /\ IsFiniteSet(Answering') /\ Cardinality(Answering) \in Nat
      /\ Cardinality(Answering') = Cardinality(Answering)
           + Bit(local.pc \in {"ask", "reply"}) - Bit(r \in Answering)
  <2> DEFINE stays == local.pc \in {"ask", "reply"}
  <2>1. stays \in BOOLEAN /\ Answering' = IF stays THEN Answering \cup {r} ELSE Answering \ {r}
    BY <1>2
  <2> HIDE DEF stays
  <2>2. /\ IsFiniteSet(Answering') /\ Cardinality(Answering) \in Nat
        /\ Cardinality(Answering') = Cardinality(Answering) + Bit(stays) - Bit(r \in Answering)
    BY <1>5, <2>1, OneMore
  <2>3. QED
    BY <2>2 DEF stays
<1>7. /\ IsFiniteSet(Logging') /\ Cardinality(Logging) \in Nat
      /\ Cardinality(Logging') = Cardinality(Logging)
           + Bit(local.pc = "audit") - Bit(r \in Logging)
  BY <1>3, <1>5, OneMore
<1>8. QED
  BY <1>4, <1>6, <1>7 DEF Bit

LEMMA NothingLostStep ==
  ASSUME TypeOK, NothingLost, [Next]_vars PROVE NothingLost'
<1>t. said \in Nat /\ answered \in Nat /\ audited \in Nat /\ faults \in Nat
  BY DEF TypeOK
<1>i. /\ said <= answered + Cardinality(Answering) + faults
      /\ answered <= audited + Cardinality(Logging) + faults
  BY DEF NothingLost
<1>0. ASSUME UNCHANGED <<said, answered, audited, faults, req>> PROVE NothingLost'
  <2>1. Answering' = Answering /\ Logging' = Logging
    BY <1>0 DEF Answering, Logging
  <2>2. QED
    BY <1>0, <2>1 DEF NothingLost
(* A request whose step is neither of sendMessage's first nor of its last.      *)
<1>1. ASSUME NEW r \in Request, NEW local, Become(r, local),
             UNCHANGED <<said, answered, audited, faults>>,
             Bit(local.pc \in {"ask", "reply"}) = Bit(req[r].pc \in {"ask", "reply"}),
             Bit(local.pc = "audit") = Bit(req[r].pc = "audit")
      PROVE  NothingLost'
  <2>1. /\ IsFiniteSet(Answering') /\ IsFiniteSet(Logging')
        /\ Cardinality(Answering') = Cardinality(Answering)
        /\ Cardinality(Logging') = Cardinality(Logging)
    <3>1. Bit(req[r].pc \in {"ask", "reply"}) \in Nat /\ Bit(req[r].pc = "audit") \in Nat
      BY DEF Bit
    <3>2. QED
      BY <1>1, <3>1, CountsMove
  <2>2. QED
    BY <1>1, <1>i, <2>1 DEF NothingLost
<1>2. ASSUME NEW r \in Request, NEW u \in User, SendMessage(r, u) PROVE NothingLost'
  <2>1. /\ Become(r, [pc |-> "ask", user |-> u]) /\ req[r].pc = "idle"
        /\ said' = said + 1 /\ UNCHANGED <<answered, audited, faults>>
    BY <1>2, IdleIsNone DEF SendMessage, bounds
  <2>2. [pc |-> "ask", user |-> u].pc = "ask"
    OBVIOUS
  <2>3. /\ IsFiniteSet(Answering') /\ IsFiniteSet(Logging')
        /\ Cardinality(Answering') = Cardinality(Answering) + 1
        /\ Cardinality(Logging') = Cardinality(Logging)
        /\ Cardinality(Answering) \in Nat
    BY <2>1, <2>2, CountsMove DEF Bit
  <2>4. said' <= answered' + Cardinality(Answering') + faults'
    BY <1>t, <1>i, <2>1, <2>3
  <2>5. QED
    BY <1>i, <2>1, <2>3, <2>4 DEF NothingLost
<1>3. ASSUME NEW r \in Request, NEW u \in User, NEW d \in Draft, ConfirmDraft(r, u, d)
      PROVE  NothingLost'
  <2> DEFINE local == [pc |-> IF expiresAt[d] < now THEN "expire" ELSE FirstStep,
                       user |-> u, draft |-> d]
  <2>1. /\ req[r].pc = "idle" /\ Become(r, local)
        /\ UNCHANGED <<said, answered, audited, faults>>
    BY <1>3, IdleIsNone DEF ConfirmDraft, chat
  <2>2. local.pc \in {"expire", "apply"}
    BY DEF FirstStep
  <2> HIDE DEF local
  <2>3. QED
    BY <1>1, <2>1, <2>2 DEF Bit
<1>4. ASSUME NEW u \in User, NEW d \in Draft, RejectDraft(u, d) PROVE NothingLost'
  BY <1>0, <1>4 DEF RejectDraft, chat
<1>5. ASSUME NEW r \in Request, Ask(r) PROVE NothingLost'
  <2>1. UNCHANGED <<said, answered, audited, faults>> /\ req[r].pc = "ask"
    BY <1>5 DEF Ask, chat, bounds
  <2>2. PICK draft : Become(r, [pc |-> "reply", user |-> req[r].user, draft |-> draft])
    BY <1>5 DEF Ask, StoreDraft
  <2>3. [pc |-> "reply", user |-> req[r].user, draft |-> draft].pc = "reply"
    OBVIOUS
  <2>4. QED
    BY <1>1, <2>1, <2>2, <2>3 DEF Bit
<1>6. ASSUME NEW r \in Request, Reply(r) PROVE NothingLost'
  <2>1. /\ req[r].pc = "reply" /\ Become(r, [pc |-> "audit"])
        /\ answered' = answered + 1 /\ UNCHANGED <<said, audited, faults>>
    BY <1>6 DEF Reply, bounds
  <2>2. [pc |-> "audit"].pc = "audit"
    OBVIOUS
  <2>3. /\ IsFiniteSet(Answering') /\ IsFiniteSet(Logging')
        /\ Cardinality(Answering') = Cardinality(Answering) - 1
        /\ Cardinality(Logging') = Cardinality(Logging) + 1
        /\ Cardinality(Answering) \in Nat /\ Cardinality(Logging) \in Nat
    BY <2>1, <2>2, CountsMove DEF Bit
  <2>4. /\ said' <= answered' + Cardinality(Answering') + faults'
        /\ answered' <= audited' + Cardinality(Logging') + faults'
    BY <1>t, <1>i, <2>1, <2>3
  <2>5. QED
    BY <2>3, <2>4 DEF NothingLost
<1>7. ASSUME NEW r \in Request, Audit(r) PROVE NothingLost'
  <2>1. /\ req[r].pc = "audit" /\ Become(r, Idle)
        /\ audited' = audited + 1 /\ UNCHANGED <<said, answered, faults>>
    BY <1>7 DEF Audit, bounds
  <2>2. /\ IsFiniteSet(Answering') /\ IsFiniteSet(Logging')
        /\ Cardinality(Answering') = Cardinality(Answering)
        /\ Cardinality(Logging') = Cardinality(Logging) - 1
        /\ Cardinality(Answering) \in Nat /\ Cardinality(Logging) \in Nat
    BY <2>1, IdleIsNone, CountsMove DEF Bit
  <2>3. answered' <= audited' + Cardinality(Logging') + faults'
    BY <1>t, <1>i, <2>1, <2>2
  <2>4. QED
    BY <1>i, <2>1, <2>2, <2>3 DEF NothingLost
<1>8. ASSUME NEW r \in Request, Expire(r) \/ MarkConfirmed(r) PROVE NothingLost'
  <2>1. /\ UNCHANGED <<said, answered, audited, faults>>
        /\ req[r].pc \in {"expire", "mark"} /\ Become(r, Idle)
    BY <1>8 DEF Expire, MarkConfirmed, chat, bounds
  <2>2. QED
    BY <1>1, <2>1, IdleIsNone DEF Bit
<1>9. ASSUME NEW r \in Request, Apply(r) \/ FirstOccurrence(r) PROVE NothingLost'
  <2>1. UNCHANGED chat /\ UNCHANGED bounds /\ req[r].pc \in {"apply", "occur"}
    BY <1>9, Zenon DEF Apply, FirstOccurrence
  <2>2. PICK next \in {"occur", "mark"} :
          Become(r, Idle) \/ Become(r, [req[r] EXCEPT !.pc = next])
    BY <1>9, Zenon DEF Apply, FirstOccurrence
  <2>3. [req[r] EXCEPT !.pc = next].pc = next
    BY <2>1, ReqShape
  <2>4. QED
    BY <1>1, <2>1, <2>2, <2>3, IdleIsNone DEF Bit, chat, bounds
<1>10. ASSUME NEW r \in Request, RequestDies(r) PROVE NothingLost'
  <2>1. /\ Become(r, Idle) /\ faults' = faults + 1 /\ UNCHANGED <<said, answered, audited>>
    BY <1>10 DEF RequestDies, chat
  <2>2. /\ IsFiniteSet(Answering') /\ IsFiniteSet(Logging')
        /\ Cardinality(Answering') >= Cardinality(Answering) - 1
        /\ Cardinality(Logging') >= Cardinality(Logging) - 1
        /\ Cardinality(Answering) \in Nat /\ Cardinality(Logging) \in Nat
        /\ Cardinality(Answering') \in Int /\ Cardinality(Logging') \in Int
    BY <2>1, IdleIsNone, CountsMove DEF Bit
  <2>3. /\ said' <= answered' + Cardinality(Answering') + faults'
        /\ answered' <= audited' + Cardinality(Logging') + faults'
    BY <1>t, <1>i, <2>1, <2>2
  <2>4. QED
    BY <2>2, <2>3 DEF NothingLost
<1>11. CASE Tick \/ UNCHANGED vars
  BY <1>0, <1>11 DEF Tick, vars, chat
<1>12. QED
  BY <1>2, <1>3, <1>4, <1>5, <1>6, <1>7, <1>8, <1>9, <1>10, <1>11 DEF Next, Handler

(* What MessagesAnswered rests on, for any number of overlapping requests: no   *)
(* message and no answer is lost but by a crash or a failed query, one each.    *)
THEOREM MessagesAreKept == Spec => []NothingLost
<1>1. Init => NothingLost
  <2>1. SUFFICES ASSUME Init PROVE NothingLost
    OBVIOUS
  <2>2. Answering = {} /\ Logging = {}
    BY <2>1, IdleIsNone DEF Init, Answering, Logging
  <2>3. said = 0 /\ answered = 0 /\ audited = 0 /\ faults = 0
    BY <2>1 DEF Init
  <2>4. QED
    BY <2>2, <2>3, FS_EmptySet DEF NothingLost
<1>2. TypeOK /\ NothingLost /\ [Next]_vars => NothingLost'
  BY NothingLostStep
<1>3. QED
  BY <1>1, <1>2, DraftsTypeCorrect, PTL DEF Spec
=============================================================================
