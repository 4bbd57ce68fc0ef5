----------------------------- MODULE CommandInbox ----------------------------
(***************************************************************************)
(* What the command bus promises whoever asked: a command is asked once    *)
(* and answered at most once, and the answer and its audit entry appear    *)
(* together (docs/features/device-action-bridge.md, "results are           *)
(* idempotent by commandId").                                              *)
(***************************************************************************)
EXTENDS Integers

CONSTANTS Command, Outcome, NoResult

VARIABLES
  asked,    (* the commands that were created                               *)
  answer,   (* the answer of each command, NoResult while there is none     *)
  audits    (* the audit entries about each command's answer                *)

inboxVars == <<asked, answer, audits>>

InboxInit ==
  /\ asked = {}
  /\ answer = [c \in Command |-> NoResult]
  /\ audits = [c \in Command |-> 0]

Ask(c) ==
  /\ asked' = asked \cup {c}
  /\ UNCHANGED <<answer, audits>>

Answer(c) ==
  /\ c \in asked /\ answer[c] = NoResult
  /\ \E outcome \in Outcome : answer' = [answer EXCEPT ![c] = outcome]
  /\ audits' = [audits EXCEPT ![c] = @ + 1]
  /\ UNCHANGED asked

InboxNext == \E c \in Command : Ask(c) \/ Answer(c)
InboxSpec == InboxInit /\ [][InboxNext]_inboxVars

(* What a reader of the audit log may conclude: there is one entry about every *)
(* answer and none without one, and only what was asked is answered.           *)
AuditsTell ==
  \A c \in Command :
    /\ audits[c] = IF answer[c] = NoResult THEN 0 ELSE 1
    /\ answer[c] # NoResult => c \in asked

(* An answer stands: nothing that is posted later replaces it or adds to its   *)
(* audit entry.                                                                *)
AnswersStand ==
  [][\A c \in Command : answer[c] # NoResult =>
       answer'[c] = answer[c] /\ audits'[c] = audits[c]]_inboxVars
=============================================================================
