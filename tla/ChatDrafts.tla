------------------------------ MODULE ChatDrafts ------------------------------
(***************************************************************************)
(* Chat with the assistant and the action drafts it proposes               *)
(* (chat.service.ts, openclaw.service.ts, the adapter's fallback.ts).      *)
(*                                                                         *)
(* A message is stored, put to OpenClaw, and answered; a proposal becomes  *)
(* a draft that a user confirms or rejects later.  Every handler is a      *)
(* request that takes its database steps one at a time, so two of them may *)
(* overlap: a tap whose answer times out frees the card while the API is   *)
(* still at work, and a parent may decide a child's draft.  One family.    *)
(***************************************************************************)
EXTENDS Integers, FiniteSets

CONSTANTS
  Parent, Child,   (* the users of the family; a child's device is paired      *)
  Draft,           (* rows of chat_action_drafts                               *)
  Request,         (* HTTP requests that may be under way at once              *)
  Proposals,       (* the kinds of proposal OpenClaw makes in this instance    *)
  TTL,             (* a draft may be confirmed for ten minutes; in ticks       *)
  MaxTime,         (* bound: the clock stops here                              *)
  MaxMessages,     (* bound: messages sent                                     *)
  MaxTaps,         (* bound: Confirm and Reject taps                           *)
  MaxFaults        (* bound: requests cut short by a crash or a failed query   *)

User == Parent \cup Child

(***************************************************************************)
(* What a proposal may be: a mission that can be created; one for a time   *)
(* such as 9:00 or 25:00, which the fallback's pattern lets through and    *)
(* parseScheduledTime refuses; a protected one; one that names no child;   *)
(* a reading of the device; anything else, "unsupported".                  *)
(***************************************************************************)
Mission == {"mission", "untimely", "protected", "nameless"}
Kind == Mission \cup {"device", "unsupported"}

ASSUME DraftsAssumption ==
  /\ Parent \cap Child = {} /\ Proposals \subseteq Kind
  /\ TTL \in Nat /\ MaxTime \in Nat /\ MaxMessages \in Nat /\ MaxTaps \in Nat /\ MaxFaults \in Nat

VARIABLES
  now,
  status,      (* ChatActionDraft.status, "none" before the row exists         *)
  kind,        (* what its payload asks for                                    *)
  owner,       (* ChatActionDraft.userId                                       *)
  expiresAt,   (* ChatActionDraft.expiresAt                                    *)
  offered,     (* drafts whose id a stored answer carries                      *)
  effects,     (* templates and device commands stored on a draft's account    *)
  deciders,    (* the users whose confirmation stored them                     *)
  said, answered, audited,   (* user messages, answers and audit rows          *)
  req,         (* the local state of each request                              *)
  taps, faults

rows == <<status, kind, owner, expiresAt, offered>>
outcome == <<effects, deciders>>
chat == <<said, answered, audited>>
bounds == <<now, taps, faults>>
vars == <<now, status, kind, owner, expiresAt, offered, effects, deciders,
          said, answered, audited, req, taps, faults>>

Status == {"none", "drafted", "confirmed", "rejected", "expired", "invalid"}
Idle == [pc |-> "idle"]
NoDraft == "none"
Local ==
  {Idle}
  \cup [pc: {"ask"}, user: User]
  \cup [pc: {"reply"}, user: User, draft: Draft \cup {NoDraft}]
  \cup [pc: {"audit"}]
  \cup [pc: {"expire", "apply", "occur", "mark"}, user: User, draft: Draft]

Become(r, local) == req' = [req EXCEPT ![r] = local]

(***************************************************************************)
(* sendMessage: store the message, ask, store the draft if one came back,  *)
(* store the answer, store the audit row.                                  *)
(***************************************************************************)
SendMessage(r, u) ==
  /\ req[r] = Idle
  /\ said < MaxMessages
  /\ said' = said + 1
  /\ Become(r, [pc |-> "ask", user |-> u])
  /\ UNCHANGED <<bounds, rows, outcome, answered, audited>>

(* validateDraft: what it leaves without an error.  A child's draft that       *)
(* names no child is given the child's own profile.                            *)
ValidIfProtected(u, k) ==   \* mutant: a child may draft a protected mission
  \/ k \in {"mission", "untimely", "device", "protected"}
  \/ k = "nameless" /\ u \in Child
Valid(u, k) ==
  \/ k \in {"mission", "untimely", "device"}
  \/ k = "protected" /\ u \in Parent
  \/ k = "nameless" /\ u \in Child

(* storeActionDraft: only a valid draft's id goes back to the user.            *)
StoreDraft(r, u, d, k) ==
  /\ status[d] = "none"
  /\ status' = [status EXCEPT ![d] = IF Valid(u, k) THEN "drafted" ELSE "invalid"]
  /\ kind' = [kind EXCEPT ![d] = k]
  /\ owner' = [owner EXCEPT ![d] = u]
  /\ expiresAt' = [expiresAt EXCEPT ![d] = now + TTL]
  /\ Become(r, [pc |-> "reply", user |-> u, draft |-> IF Valid(u, k) THEN d ELSE NoDraft])

(* mutant: a refusal of the adapter is passed on as an error                    *)
AskAdapterOnly(r) ==
  /\ req[r].pc = "ask"
  /\ \/ Become(r, Idle) /\ UNCHANGED rows
     \/ \E d \in Draft, k \in Proposals :
          StoreDraft(r, req[r].user, d, k) /\ UNCHANGED offered
  /\ UNCHANGED <<bounds, outcome, chat>>

(* OpenClaw's answer, or the local fallback's when the adapter cannot be       *)
(* reached or refuses.                                                         *)
Ask(r) ==
  /\ req[r].pc = "ask"
  /\ \/ /\ Become(r, [pc |-> "reply", user |-> req[r].user, draft |-> NoDraft])
        /\ UNCHANGED rows
     \/ \E d \in Draft, k \in Proposals :
          StoreDraft(r, req[r].user, d, k) /\ UNCHANGED offered
  /\ UNCHANGED <<bounds, outcome, chat>>

OfferedAlways(draft) == {draft}   \* mutant: the answer carries an id, draft or none
Offered(draft) == {draft} \ {NoDraft}
Reply(r) ==
  /\ req[r].pc = "reply"
  /\ answered' = answered + 1
  /\ offered' = offered \cup Offered(req[r].draft)
  /\ Become(r, [pc |-> "audit"])
  /\ UNCHANGED <<bounds, status, kind, owner, expiresAt, outcome, said, audited>>

Audit(r) ==
  /\ req[r].pc = "audit"
  /\ audited' = audited + 1
  /\ Become(r, Idle)
  /\ UNCHANGED <<bounds, rows, outcome, said, answered>>

(***************************************************************************)
(* confirmDraft: read the row, apply it, mark it confirmed.  The last two  *)
(* steps look at nothing but the id.                                       *)
(***************************************************************************)
MayDecideAny(u, d) == d \in offered   \* mutant: a child decides for its siblings
MayDecide(u, d) == d \in offered /\ (u \in Parent \/ owner[d] = u)

(* mutant: the row is marked confirmed before the draft is applied              *)
FirstStepMark == "mark"
FirstStep == "apply"

ConfirmDraft(r, u, d) ==
  /\ taps < MaxTaps
  /\ req[r] = Idle
  /\ MayDecide(u, d) /\ status[d] = "drafted"
  /\ taps' = taps + 1
  /\ Become(r, [pc |-> IF expiresAt[d] < now THEN "expire" ELSE FirstStep,
                user |-> u, draft |-> d])
  /\ UNCHANGED <<now, faults, rows, outcome, chat>>

Expire(r) ==
  /\ req[r].pc = "expire"
  /\ status' = [status EXCEPT ![req[r].draft] = "expired"]
  /\ Become(r, Idle)
  /\ UNCHANGED <<bounds, kind, owner, expiresAt, offered, outcome, chat>>

(* applyDraft refuses: a reading asked for by a parent, or of a capability      *)
(* that is disabled; a template for a protected mission asked for by a child.   *)
Refused(u, k) ==
  \/ k = "device"
  \/ k = "protected" /\ u \in Child

(* A template is stored on its own, its first occurrence after it; a command    *)
(* is stored at once.                                                           *)
Apply(r) ==
  LET u == req[r].user
      d == req[r].draft
      k == kind[d]
  IN /\ req[r].pc = "apply"
     /\ \/ /\ Refused(u, k)
           /\ Become(r, Idle)
           /\ UNCHANGED outcome
        \/ /\ ~(k = "protected" /\ u \in Child)
           /\ k = "device" => u \in Child
           /\ effects' = [effects EXCEPT ![d] = @ + 1]
           /\ deciders' = [deciders EXCEPT ![d] = @ \cup {u}]
           /\ Become(r, [req[r] EXCEPT !.pc = IF k \in Mission THEN "occur" ELSE "mark"])
     /\ UNCHANGED <<bounds, rows, chat>>

(* createNextOccurrence: it throws on a time it cannot parse, and when the      *)
(* worker expanded the new template first; the template stays.                  *)
FirstOccurrence(r) ==
  /\ req[r].pc = "occur"
  /\ \/ Become(r, Idle)
     \/ /\ kind[req[r].draft] # "untimely"
        /\ Become(r, [req[r] EXCEPT !.pc = "mark"])
  /\ UNCHANGED <<bounds, rows, outcome, chat>>

MarkConfirmed(r) ==
  /\ req[r].pc = "mark"
  /\ status' = [status EXCEPT ![req[r].draft] = "confirmed"]
  /\ Become(r, Idle)
  /\ UNCHANGED <<bounds, kind, owner, expiresAt, offered, outcome, chat>>

(* rejectDraft looks for the row and writes it, whatever its status is.         *)
RejectDraft(u, d) ==
  /\ taps < MaxTaps
  /\ MayDecide(u, d)
  /\ taps' = taps + 1
  /\ status' = [status EXCEPT ![d] = "rejected"]
  /\ UNCHANGED <<now, faults, kind, owner, expiresAt, offered, outcome, chat, req>>

(* A query fails or the API dies: what a request has stored stays stored.       *)
RequestDies(r) ==
  /\ faults < MaxFaults
  /\ req[r] # Idle
  /\ Become(r, Idle)
  /\ faults' = faults + 1
  /\ UNCHANGED <<now, taps, rows, outcome, chat>>

Tick ==
  /\ now < MaxTime
  /\ now' = now + 1
  /\ UNCHANGED <<taps, faults, rows, outcome, chat, req>>

Handler(r) ==
  \/ Ask(r) \/ Reply(r) \/ Audit(r)
  \/ Expire(r) \/ Apply(r) \/ FirstOccurrence(r) \/ MarkConfirmed(r)

Init ==
  /\ now = 0 /\ taps = 0 /\ faults = 0
  /\ status = [d \in Draft |-> "none"]
  /\ kind \in [Draft -> {"unsupported"}]
  /\ owner \in [Draft -> {NoDraft}]
  /\ expiresAt = [d \in Draft |-> 0]
  /\ offered = {}
  /\ effects = [d \in Draft |-> 0]
  /\ deciders = [d \in Draft |-> {}]
  /\ said = 0 /\ answered = 0 /\ audited = 0
  /\ req = [r \in Request |-> Idle]

Next ==
  \/ \E r \in Request, u \in User : SendMessage(r, u)
  \/ \E r \in Request, u \in User, d \in Draft : ConfirmDraft(r, u, d)
  \/ \E u \in User, d \in Draft : RejectDraft(u, d)
  \/ \E r \in Request : Handler(r)
  \/ \E r \in Request : RequestDies(r)
  \/ Tick

Spec == Init /\ [][Next]_vars

(* The event loop runs a handler on while its queries are answered; taps and    *)
(* the clock owe nothing.                                                       *)
FairSpec == Spec /\ \A r \in Request : WF_vars(Handler(r))

-----------------------------------------------------------------------------
(* Types, the relation of a request's step to what it holds left aside.        *)
TypeOK ==
  /\ now \in Nat /\ taps \in Nat /\ faults \in Nat
  /\ status \in [Draft -> Status]
  /\ kind \in [Draft -> Kind]
  /\ owner \in [Draft -> User \cup {NoDraft}]
  /\ expiresAt \in [Draft -> Nat]
  /\ offered \subseteq Draft
  /\ effects \in [Draft -> Nat]
  /\ deciders \in [Draft -> SUBSET User]
  /\ said \in Nat /\ answered \in Nat /\ audited \in Nat
  /\ req \in [Request -> Local]

(* A draft marked confirmed has had its effect: the update that marks it runs   *)
(* after the template and its occurrence, or the command, are stored, whatever  *)
(* other taps on the same draft do meanwhile.                                   *)
ConfirmedIsApplied ==
  \A d \in Draft : status[d] = "confirmed" => effects[d] > 0

(* What a draft stores was offered in an answer, is within the rules for the    *)
(* user it was drafted for, and was confirmed by that user or a parent; a child *)
(* never confirms a protected mission.  The rows are checked when the draft is  *)
(* stored and by another user's request minutes later.                          *)
AppliedWasAgreed ==
  \A d \in Draft : effects[d] > 0 \/ deciders[d] # {} =>
    /\ d \in offered /\ Valid(owner[d], kind[d])
    /\ \A u \in deciders[d] : u \in Parent \/ (u = owner[d] /\ kind[d] # "protected")

(* Nothing happens without a confirmation, in time and by somebody who may, of  *)
(* a draft that is not decided yet; each confirmation stores one template or     *)
(* command at most, although drafts are confirmed and rejected in overlapping    *)
(* requests and a request goes on by what it has read; and a confirmed draft     *)
(* has had its effect.                                                         *)
OfferOf ==
  [d \in Draft |-> IF d \in offered THEN [to |-> owner[d], kind |-> kind[d], until |-> expiresAt[d]]
                  ELSE Idle]
StateOf ==
  [d \in Draft |-> CASE status[d] = "confirmed" -> "confirmed"
                    [] status[d] \in {"rejected", "expired"} -> "closed"
                    [] OTHER -> "open"]
AboutToAct ==
  [r \in Request |-> IF req[r].pc = "apply" THEN [by |-> req[r].user, draft |-> req[r].draft] ELSE Idle]
Agreement == INSTANCE DraftAgreement WITH
  offer <- OfferOf, status <- StateOf, open <- AboutToAct, None <- Idle
ImplementsAgreement == Agreement!Spec

(* Why the three hold: what a request carries from one of its steps to the next,  *)
(* while other requests write the same rows.                                    *)
Stored(d) ==
  d \in Draft /\ status[d] # "none" /\ owner[d] \in User /\ Valid(owner[d], kind[d])
InOrder(local) ==
  /\ local.pc = "reply" /\ local.draft # NoDraft => Stored(local.draft)
  /\ local.pc \in {"expire", "apply", "occur", "mark"} =>
       /\ local.draft \in offered
       /\ local.user \in Parent \/ local.user = owner[local.draft]
  /\ local.pc \in {"occur", "mark"} => effects[local.draft] > 0
DraftsInv ==
  /\ TypeOK /\ ConfirmedIsApplied /\ AppliedWasAgreed
  /\ \A d \in offered : Stored(d)
  /\ \A r \in Request : InOrder(req[r])
  /\ \A d \in Draft : expiresAt[d] <= now + TTL

(* Drafts may store more than once, but each tap stores one template or command *)
(* at most: all that was stored, and all that is about to be, was tapped for.   *)
StoredSoFar == UNION {{d} \X (1..effects[d]) : d \in Draft}
AboutToStore == {r \in Request : req[r].pc = "apply"}
TapsCover ==
  /\ IsFiniteSet(StoredSoFar) /\ IsFiniteSet(AboutToStore)
  /\ Cardinality(StoredSoFar) + Cardinality(AboutToStore) <= taps

(* No message is lost but by a fault: what was said was answered or a request    *)
(* still works on the answer, and what was answered was logged or is about to   *)
(* be; each exception took a crash or a failed query.                           *)
Answering == {r \in Request : req[r].pc \in {"ask", "reply"}}
Logging == {r \in Request : req[r].pc = "audit"}
NothingLost ==
  /\ IsFiniteSet(Answering) /\ IsFiniteSet(Logging)
  /\ said <= answered + Cardinality(Answering) + faults
  /\ answered <= audited + Cardinality(Logging) + faults

(* Without faults every message is answered and logged in the end, OpenClaw     *)
(* within reach or not: ask falls back to the local parser.                     *)
MessagesAnswered == <>[](faults = 0 => answered = said /\ audited = said)

(* docs/guides/using-the-assistant.md:15, "If you tap Reject, nothing happens": *)
(* a rejected draft has no further effect.                                      *)
NoEffectOnceRejected ==
  [][\A d \in Draft : status[d] = "rejected" => effects'[d] = effects[d]]_vars

(* docs/features/chat-and-drafts.md:18, "confirm a draft (creates the mission   *)
(* template ...)": a draft stores one template, or one command.                 *)
OneEffectPerDraft == \A d \in Draft : effects[d] <= 1
=============================================================================
