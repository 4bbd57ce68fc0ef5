------------------------ MODULE TelegramCodexProofs -------------------------
(***************************************************************************)
(* Theorems about TelegramCodex, for every number of chats, runs, updates, *)
(* failed messages and ends of the process; and about CodexOutput, which   *)
(* looks into one of those runs, for every output of codex, every way to   *)
(* cut it into chunks and every amount of stderr that is kept.  The two    *)
(* share no name, and no theorem is about both.                            *)
(***************************************************************************)
EXTENDS TelegramCodex, CodexOutput, SequenceTheorems, WellFoundedInduction, TLAPS

Update == [chat: Chat, cmd: Command]

LEMMA SendTypes ==
  ASSUME inbox \in Seq(Update), NEW c \in Chat, NEW cmd \in Commands, Send(c, cmd)
  PROVE  inbox' \in Seq(Update) /\ Len(inbox') = Len(inbox) + 1
<1> DEFINE u == [chat |-> c, cmd |-> cmd]
<1>1. u \in Update
  BY BridgeAssumption DEF Update
<1>2. inbox' = Append(inbox, u)
  BY DEF Send
<1> HIDE DEF u
<1>3. QED
  BY <1>1, <1>2

(* Steps that leave the poll loop where it is or end it.                       *)
LEMMA OffsetsKept ==
  ASSUME OffsetsFollow, UNCHANGED telegram,
         \/ UNCHANGED <<cur, nextOffset>> /\ (last' = last \/ last' = cur)
         \/ cur' = 0 /\ last' = 0 /\ nextOffset' = 0
  PROVE  OffsetsFollow'
<1>1. UNCHANGED <<inbox, taken, forgotten>>
  BY DEF telegram
<1>2. cur' \in Nat /\ nextOffset' \in Nat /\ last' \in Nat
  BY DEF OffsetsFollow
<1>3. 1..cur' \subseteq taken /\ 1..(nextOffset' - 1) \subseteq taken
  BY DEF OffsetsFollow
<1>4. cur' <= Len(inbox)
  <2>1. cur' = 0 \/ cur' \in 1..cur'
    BY <1>2
  <2>2. Len(inbox) \in Nat
    BY DEF OffsetsFollow
  <2>3. QED
    BY <1>3, <2>1, <2>2 DEF OffsetsFollow
<1>5. last' <= Len(inbox) /\ (cur' < last' => forgotten <= cur')
  <2>1. CASE cur' = cur /\ last' = last
    BY <2>1 DEF OffsetsFollow
  <2>2. CASE last' = cur'
    BY <1>2, <1>4, <2>2
  <2>3. QED
    BY <2>1, <2>2
<1>6. QED
  BY <1>1, <1>2, <1>3, <1>5 DEF OffsetsFollow
LEMMA TakeStep ==
  ASSUME OffsetsFollow, TakeUpdate
  PROVE  OffsetsFollow' /\ Queue!Take(cur + 1) /\ cur + 1 \in 1..Len(inbox)
<1>1. /\ cur < last /\ cur' = cur + 1 /\ nextOffset' = OffsetAfter(cur + 1)
      /\ taken' = taken \cup {cur + 1} /\ UNCHANGED <<inbox, forgotten, last>>
  BY Zenon DEF TakeUpdate
<1>2. /\ cur \in Nat /\ last \in Nat /\ nextOffset \in Nat /\ last <= Len(inbox) /\ Len(inbox) \in Nat
      /\ forgotten \in Nat /\ forgotten <= cur
  BY <1>1 DEF OffsetsFollow
<1>3. nextOffset' = IF nextOffset > cur + 2 THEN nextOffset ELSE cur + 2
  BY <1>1, <1>2 DEF OffsetAfter, Larger
<1>4. 1..cur \subseteq taken /\ 1..(nextOffset - 1) \subseteq taken /\ 1..forgotten \subseteq taken
  BY DEF OffsetsFollow
<1>5. 1..(cur + 1) \subseteq taken'
  BY <1>1, <1>2, <1>4
<1>6. 1..(nextOffset' - 1) \subseteq taken'
  BY <1>1, <1>2, <1>3, <1>4, <1>5
<1>7. taken' \subseteq 1..Len(inbox)
  BY <1>1, <1>2 DEF OffsetsFollow
<1>8. cur + 1 \in 1..Len(inbox) /\ cur + 1 > forgotten
  BY <1>1, <1>2
<1>9. OffsetsFollow'
  BY <1>1, <1>2, <1>3, <1>4, <1>5, <1>6, <1>7 DEF OffsetsFollow
<1>10. (cur + 1) - 1 = cur
  BY <1>2
<1>11. QED
  BY <1>1, <1>4, <1>8, <1>9, <1>10 DEF Queue!Take

LEMMA GetStep ==
  ASSUME OffsetsFollow, GetUpdates
  PROVE  /\ OffsetsFollow'
         /\ UNCHANGED telegram \/ \E n \in 1..Len(inbox) : Queue!Forget(n)
<1>1. /\ forgotten' = Larger(forgotten, nextOffset - 1) /\ cur' = forgotten' /\ last' = Len(inbox)
      /\ UNCHANGED <<inbox, taken, nextOffset>>
  BY DEF GetUpdates
<1>2. Len(inbox) \in Nat /\ forgotten \in Nat /\ nextOffset \in Nat
  BY DEF OffsetsFollow
<1>3. forgotten' \in Nat /\ 1..forgotten' \subseteq taken /\ (forgotten' = forgotten \/ forgotten' > forgotten)
  BY <1>1, <1>2 DEF Larger, OffsetsFollow
<1>4. OffsetsFollow'
  BY <1>1, <1>2, <1>3 DEF OffsetsFollow
<1>5. CASE forgotten' = forgotten
  BY <1>1, <1>4, <1>5 DEF telegram
<1>6. CASE forgotten' > forgotten
  <2>1. forgotten' \in 1..forgotten'
    BY <1>2, <1>3, <1>6
  <2>2. forgotten' \in 1..Len(inbox)
    BY <1>3, <2>1 DEF OffsetsFollow
  <2>3. Queue!Forget(forgotten')
    BY <1>1, <1>3, <1>6 DEF Queue!Forget
  <2>4. QED
    BY <1>4, <2>2, <2>3
<1>7. QED
  BY <1>3, <1>5, <1>6

(* Every step of the bridge is one of the queue, or none.                      *)
LEMMA QueueStep ==
  ASSUME OffsetsFollow, [Next]_vars
  PROVE  OffsetsFollow' /\ [Queue!Next]_(Queue!vars)
<1>1. ASSUME UNCHANGED telegram PROVE UNCHANGED Queue!vars
  BY <1>1 DEF telegram, Queue!vars
<1>2. ASSUME UNCHANGED telegram, UNCHANGED <<cur, nextOffset, last>> PROVE OffsetsFollow'
  BY <1>2, OffsetsKept
<1>3. ASSUME NEW c \in Chat, NEW cmd \in Commands, Send(c, cmd)
      PROVE  OffsetsFollow' /\ Queue!Next
  <2> DEFINE u == [chat |-> c, cmd |-> cmd]
  <2>1. inbox \in Seq(Update) /\ UNCHANGED <<forgotten, taken, cur, last, nextOffset>>
    BY <1>3 DEF Send, loop, OffsetsFollow, Update
  <2>2. inbox' \in Seq(Update) /\ Len(inbox') = Len(inbox) + 1 /\ Len(inbox) \in Nat
    BY <1>3, <2>1, SendTypes
  <2>3. OffsetsFollow'
    BY <2>1, <2>2 DEF OffsetsFollow, Update
  <2>4. u \in Update
    BY BridgeAssumption DEF Update
  <2>5. inbox' = Append(inbox, u) /\ UNCHANGED <<taken, forgotten>>
    BY <1>3 DEF Send
  <2> HIDE DEF u
  <2>6. Queue!Send(u)
    BY <2>5 DEF Queue!Send
  <2>7. QED
    BY <2>3, <2>4, <2>6 DEF Queue!Next, Update
<1>4. CASE GetUpdates
  BY <1>1, <1>4, GetStep DEF Queue!Next
<1>5. CASE TakeUpdate
  BY <1>5, TakeStep DEF Queue!Next
<1>6. CASE SayFails
  <2>1. UNCHANGED telegram /\ UNCHANGED <<cur, nextOffset>> /\ last' = cur
    BY <1>6 DEF SayFails, DropBatch
  <2>2. QED
    BY <1>1, <2>1, OffsetsKept
<1>7. CASE Crash \/ Shutdown
  <2>1. UNCHANGED telegram /\ cur' = 0 /\ last' = 0 /\ nextOffset' = 0
    BY <1>7 DEF Crash, Shutdown, Ended
  <2>2. QED
    BY <1>1, <2>1, OffsetsKept
<1>8. ASSUME NEW k \in Run, Announced(k) \/ TimeOut(k) \/ Report(k)
      PROVE  UNCHANGED telegram /\ UNCHANGED <<cur, nextOffset, last>>
  BY <1>8 DEF Announced, TimeOut, Report, loop
<1>9. ASSUME NEW k \in Run, Retry(k)
      PROVE  UNCHANGED telegram /\ UNCHANGED <<cur, nextOffset, last>>
  <2>1. UNCHANGED <<telegram, loop>>
    BY <1>9, Zenon DEF Retry
  <2>2. QED
    BY <2>1 DEF loop
<1>10. ASSUME NEW k \in Run, NEW code \in Codes, CodexEnds(k, code)
       PROVE  UNCHANGED telegram /\ UNCHANGED <<cur, nextOffset, last>>
  <2>1. UNCHANGED <<telegram, loop>>
    BY <1>10, Zenon DEF CodexEnds
  <2>2. QED
    BY <2>1 DEF loop
<1>11. Said \/ Restart => UNCHANGED telegram /\ UNCHANGED <<cur, nextOffset, last>>
  BY DEF Said, Restart
<1>12. UNCHANGED vars => UNCHANGED telegram /\ UNCHANGED <<cur, nextOffset, last>>
  BY DEF vars, telegram
<1>13. QED
  BY <1>1, <1>2, <1>3, <1>4, <1>5, <1>6, <1>7, <1>8, <1>9, <1>10, <1>11, <1>12 DEF Next, Loop

(* The bridge is a queue that forgets no message before it is handled and       *)
(* takes none for the first time before an earlier one.                        *)
THEOREM BridgeIsAQueue == Spec => ImplementsQueue
<1>1. Init => OffsetsFollow /\ Queue!Init
  BY DEF Init, OffsetsFollow, Queue!Init
<1>2. OffsetsFollow /\ [Next]_vars => OffsetsFollow' /\ [Queue!Next]_(Queue!vars)
  BY QueueStep
<1>3. QED
  BY <1>1, <1>2, PTL DEF Spec, ImplementsQueue, Queue!Spec

(* Whatever fails and whenever the process ends, what Telegram has forgotten    *)
(* was begun, and so was everything sent before a message that was begun.       *)
THEOREM MessagesInTurn == Spec => []Queue!InTurn
<1>1. Queue!Init => Queue!InTurn
  BY DEF Queue!Init, Queue!InTurn
<1>2. Queue!InTurn /\ [Queue!Next]_(Queue!vars) => Queue!InTurn'
  <2>1. SUFFICES ASSUME Queue!InTurn, [Queue!Next]_(Queue!vars) PROVE Queue!InTurn'
    OBVIOUS
  <2>2. CASE UNCHANGED <<taken, forgotten>>
    BY <2>1, <2>2 DEF Queue!InTurn
  <2>3. ASSUME NEW i \in 1..Len(inbox), Queue!Take(i) PROVE Queue!InTurn'
    <3>1. 1..i \subseteq taken' /\ taken \subseteq taken' /\ forgotten' = forgotten
      BY <2>3 DEF Queue!Take
    <3>2. \A k \in taken' : k = i \/ k \in taken
      BY <2>3 DEF Queue!Take
    <3>3. QED
      BY <2>1, <3>1, <3>2 DEF Queue!InTurn
  <2>4. ASSUME NEW n \in 1..Len(inbox), Queue!Forget(n) PROVE Queue!InTurn'
    BY <2>1, <2>4 DEF Queue!Forget, Queue!InTurn
  <2>5. QED
    BY <2>1, <2>2, <2>3, <2>4 DEF Queue!Next, Queue!Send, Queue!vars
<1>3. QED
  BY <1>1, <1>2, BridgeIsAQueue, PTL DEF ImplementsQueue, Queue!Spec
-----------------------------------------------------------------------------
Steps == {"none", "announce", "hooked", "unheard", "apologise", "report", "told"}

LEMMA StartTypes ==
  ASSUME TypeOK, NEW k \in Run, NEW c \in Chat, NEW stored \in Run \cup {None},
         StartRun(k, c, stored)
  PROVE  /\ sessions' \in [Chat -> Run \cup {None}] /\ resumes' \in [Run -> Run \cup {None}]
         /\ child' \in [Run -> {"unborn", "live"} \cup Code] /\ chat' \in [Run -> Chat \cup {None}]
         /\ active' \in Run
<1>1. PICK old \in {stored, None} :
        sessions' = [sessions EXCEPT ![c] = old] /\ resumes' = [resumes EXCEPT ![k] = old]
  BY DEF StartRun, Found
<1>2. /\ child' = [child EXCEPT ![k] = "live"] /\ chat' = [chat EXCEPT ![k] = c] /\ active' = k
  BY DEF StartRun
<1>3. QED
  BY <1>1, <1>2 DEF TypeOK

LEMMA HandleTypes ==
  ASSUME TypeOK, NEW c \in Chat, NEW cmd, Handle(c, cmd)
  PROVE  /\ pc' \in {"down", "work", "say", "announce"} /\ active' \in Run \cup {None}
         /\ sessions' \in [Chat -> Run \cup {None}] /\ resumes' \in [Run -> Run \cup {None}]
         /\ child' \in [Run -> {"unborn", "live"} \cup Code] /\ chat' \in [Run -> Chat \cup {None}]
         /\ step' \in [Run -> Steps] /\ starter' \in [Run -> {"poll", "close"}]
         /\ signalled' \subseteq Run
<1> USE DEF TypeOK
<1>1. CASE KeepRuns /\ (Say \/ UNCHANGED pc)
  BY <1>1 DEF KeepRuns, Say, runs, Steps
<1>2. CASE Cancel
  BY <1>2 DEF Cancel, Say, Stopped, Steps
<1>3. CASE ForgetSession(c)
  BY <1>3 DEF ForgetSession, Say, runs, Steps
<1>4. ASSUME NEW stored \in Run \cup {None}, StartFromChat(c, stored)
      PROVE  /\ pc' = "announce" /\ active' \in Run
             /\ sessions' \in [Chat -> Run \cup {None}] /\ resumes' \in [Run -> Run \cup {None}]
             /\ child' \in [Run -> {"unborn", "live"} \cup Code] /\ chat' \in [Run -> Chat \cup {None}]
             /\ step' \in [Run -> Steps] /\ starter' \in [Run -> {"poll", "close"}]
             /\ signalled' = signalled
  <2>1. PICK k \in Run : /\ StartRun(k, c, stored) /\ step' = [step EXCEPT ![k] = "announce"]
                         /\ starter' = [starter EXCEPT ![k] = "poll"] /\ pc' = "announce"
                         /\ UNCHANGED signalled
    BY <1>4 DEF StartFromChat
  <2>2. step' \in [Run -> Steps] /\ starter' \in [Run -> {"poll", "close"}]
    BY <2>1 DEF Steps
  <2>3. QED
    BY <2>1, <2>2, StartTypes
<1>5. sessions[c] \in Run \cup {None} /\ None \in Run \cup {None}
  OBVIOUS
<1>6. \/ KeepRuns /\ (Say \/ UNCHANGED pc)
      \/ Cancel \/ ForgetSession(c)
      \/ \E stored \in Run \cup {None} : StartFromChat(c, stored)
  BY <1>5, Zenon DEF Handle
<1>7. CASE \E stored \in Run \cup {None} : StartFromChat(c, stored)
  BY <1>4, <1>7
<1>8. QED
  BY <1>1, <1>2, <1>3, <1>6, <1>7

LEMMA TypeStep ==
  ASSUME TypeOK, OffsetsFollow, ResumesOwn, [Next]_vars PROVE TypeOK'
<1>1. ASSUME NEW c \in Chat, NEW cmd \in Commands, Send(c, cmd) PROVE TypeOK'
  <2>1. inbox' \in Seq(Update)
    BY <1>1, SendTypes DEF TypeOK, Update
  <2>2. UNCHANGED <<forgotten, taken, pc, cur, last, nextOffset, active, sessions, child, chat,
                    resumes, step, starter, signalled, sayFails, crashes>>
    BY <1>1 DEF Send, loop, runs, bounds
  <2>3. QED
    BY <2>1, <2>2 DEF TypeOK, Update
<1>2. CASE GetUpdates
  <2>1. Len(inbox) \in Nat
    BY DEF TypeOK
  <2>2. /\ forgotten' = Larger(forgotten, nextOffset - 1) /\ cur' = forgotten' /\ last' = Len(inbox)
        /\ UNCHANGED <<inbox, taken, pc, nextOffset, active, sessions, child, chat,
                       resumes, step, starter, signalled, sayFails, crashes>>
    BY <1>2 DEF GetUpdates, runs, bounds
  <2>3. forgotten' \in Nat
    BY <2>2 DEF TypeOK, Larger
  <2>4. QED
    BY <2>1, <2>2, <2>3 DEF TypeOK
<1>3. CASE TakeUpdate
  <2> DEFINE u == inbox[cur + 1]
  <2>1. /\ cur' = cur + 1 /\ nextOffset' = OffsetAfter(cur + 1)
        /\ taken' = taken \cup {cur + 1} /\ UNCHANGED <<inbox, forgotten, last, sayFails, crashes>>
    BY <1>3, Zenon DEF TakeUpdate, bounds
  <2>2. u \in Update
    <3>1. cur + 1 \in 1..Len(inbox)
      BY <1>3, TakeStep
    <3>2. inbox \in Seq(Update)
      BY DEF TypeOK, Update
    <3>3. QED
      BY <3>1, <3>2
  <2>3. u.chat \in Chat /\ Handle(u.chat, u.cmd)
    BY <1>3, <2>2, Zenon DEF TakeUpdate, Update
  <2>4. nextOffset' \in Nat
    BY <2>1 DEF TypeOK, OffsetAfter, Larger
  <2> HIDE DEF u
  <2>5. QED
    BY <2>1, <2>3, <2>4, HandleTypes DEF TypeOK, Steps
<1>4. CASE Said \/ Restart
  BY <1>4 DEF Said, Restart, TypeOK, telegram, runs, bounds
<1>5. CASE SayFails
  BY <1>5 DEF SayFails, DropBatch, TypeOK, telegram
<1>6. ASSUME NEW k \in Run, Announced(k) PROVE TypeOK'
  BY <1>6 DEF Announced, TypeOK, telegram, bounds
<1>7. ASSUME NEW k \in Run, TimeOut(k) PROVE TypeOK'
  BY <1>7 DEF TimeOut, TypeOK, telegram, loop, bounds
<1>8. ASSUME NEW k \in Run, Report(k) PROVE TypeOK'
  BY <1>8 DEF Report, TypeOK, telegram, loop, bounds
<1>9. ASSUME NEW k \in Run, Retry(k) PROVE TypeOK'
  <2>1. PICK q \in Run :
          /\ StartRun(q, chat[k], sessions[chat[k]])
          /\ step' = [step EXCEPT ![k] = "told", ![q] = "announce"]
          /\ starter' = [starter EXCEPT ![q] = "close"]
    BY <1>9 DEF Retry
  <2>2. UNCHANGED <<telegram, loop, signalled, bounds>>
    BY <1>9, Zenon DEF Retry
  <2>3. chat[k] \in Chat
    BY <1>9, Zenon DEF Retry, ResumesOwn
  <2>4. sessions[chat[k]] \in Run \cup {None} /\ step' \in [Run -> Steps] /\ starter' \in [Run -> {"poll", "close"}]
    BY <2>1, <2>3 DEF TypeOK, Steps
  <2>5. QED
    BY <2>1, <2>2, <2>3, <2>4, StartTypes DEF TypeOK, Steps, telegram, loop, bounds
<1>10. ASSUME NEW k \in Run, NEW code \in Codes, CodexEnds(k, code) PROVE TypeOK'
  <2>1. /\ child' = [child EXCEPT ![k] = code] /\ code \in Code
        /\ UNCHANGED <<telegram, loop, chat, resumes, starter, signalled, bounds>>
    BY <1>10, BridgeAssumption, Zenon DEF CodexEnds
  <2>2. active' \in Run \cup {None} /\ sessions' \in [Chat -> Run \cup {None}] /\ step' \in [Run -> Steps]
    <3>1. CASE AfterClose(k, code)
      <4>1. Thread(k) \in Run
        BY DEF Thread, TypeOK
      <4>2. QED
        BY <3>1, <4>1 DEF AfterClose, TypeOK, Steps
    <3>2. CASE UNCHANGED <<active, sessions, step>>
      BY <3>2 DEF TypeOK, Steps
    <3>3. QED
      BY <1>10, <3>1, <3>2, Zenon DEF CodexEnds
  <2>3. QED
    BY <2>1, <2>2 DEF TypeOK, Steps, telegram, loop, bounds
<1>11. ASSUME Ended, child' \in [Run -> {"unborn", "live"} \cup Code], signalled' \subseteq Run
       PROVE  TypeOK'
  <2>1. /\ UNCHANGED <<inbox, forgotten, taken, sessions, chat, resumes, starter, sayFails>>
        /\ pc' = "down" /\ active' = None /\ cur' = 0 /\ last' = 0 /\ nextOffset' = 0
        /\ step' = [k \in Run |-> IF step[k] = "none" THEN "none" ELSE "unheard"]
        /\ crashes' = crashes + 1
    BY <1>11 DEF Ended, telegram
  <2>2. step' \in [Run -> Steps] /\ crashes' \in Nat
    BY <2>1 DEF TypeOK, Steps
  <2>3. QED
    BY <1>11, <2>1, <2>2 DEF TypeOK, Steps
<1>12. CASE Crash
  <2>1. child' \in [Run -> {"unborn", "live"} \cup Code] /\ signalled' = signalled /\ Ended
    BY <1>12 DEF Crash, TypeOK, Code
  <2>2. signalled \subseteq Run
    BY DEF TypeOK
  <2>3. QED
    BY <1>11, <2>1, <2>2
<1>13. CASE Shutdown
  <2>1. child' = child /\ signalled' \subseteq Run /\ Ended
    BY <1>13 DEF Shutdown, TypeOK, Stopped
  <2>2. child \in [Run -> {"unborn", "live"} \cup Code]
    BY DEF TypeOK
  <2>3. QED
    BY <1>11, <2>1, <2>2
<1>14. CASE UNCHANGED vars
  BY <1>14 DEF vars, TypeOK
<1>15. QED
  BY <1>1, <1>2, <1>3, <1>4, <1>5, <1>6, <1>7, <1>8, <1>9, <1>10, <1>12, <1>13, <1>14 DEF Next, Loop
(* A run is begun once, for one chat and one session; it ends well once.       *)
RunsKept ==
  \A k \in Run :
    /\ child[k] # "unborn" => child'[k] # "unborn" /\ chat'[k] = chat[k] /\ resumes'[k] = resumes[k]
    /\ child[k] = "ok" => child'[k] = "ok"

LEMMA OwnedKept ==
  ASSUME RunsKept, NEW c, NEW s \in Run, Owned(c, s) PROVE Owned(c, s)'
<1>1. PICK k \in Run : child[k] = "ok" /\ chat[k] = c /\ Thread(k) = s
  BY DEF Owned
<1>2. child'[k] = "ok" /\ chat'[k] = c /\ Thread(k)' = s
  BY <1>1 DEF RunsKept, Thread
<1>3. child'[s] # "unborn" /\ chat'[s] = c
  BY DEF Owned, RunsKept
<1>4. QED
  BY <1>2, <1>3 DEF Owned

LEMMA OwnKept ==
  ASSUME TypeOK, SessionIsOwn, ResumesOwn, RunsKept,
         \A c \in Chat : sessions'[c] \in {sessions[c], None},
         \A k \in Run : child'[k] # "unborn" => child[k] # "unborn",
         \A k \in Run : step'[k] # "none" => step[k] # "none",
         UNCHANGED <<chat, resumes>>
  PROVE  SessionIsOwn' /\ ResumesOwn'
<1>1. ASSUME NEW c \in Chat, NEW s \in Run, sessions'[c] = s PROVE Owned(c, s)'
  <2>1. sessions[c] = s
    BY <1>1, BridgeAssumption
  <2>2. Owned(c, s)
    BY <2>1, BridgeAssumption DEF SessionIsOwn
  <2>3. QED
    BY <2>2, OwnedKept
<1>2. \A c \in Chat : sessions'[c] \in Run \cup {None}
  BY DEF TypeOK
<1>3. SessionIsOwn'
  <2>1. SUFFICES ASSUME NEW c \in Chat, sessions'[c] # None PROVE Owned(c, sessions[c])'
    BY DEF SessionIsOwn
  <2>2. PICK s \in Run : sessions'[c] = s
    BY <1>2, <2>1
  <2>3. Owned(c, s)'
    BY <1>1, <2>2
  <2>4. QED
    BY <2>2, <2>3 DEF Owned
<1>4. ASSUME NEW k \in Run, resumes'[k] # None PROVE child'[k] # "unborn" /\ Owned(chat[k], resumes[k])'
  <2>1. PICK s \in Run, c \in Chat : resumes[k] = s /\ chat[k] = c /\ child[k] # "unborn"
    BY <1>4 DEF TypeOK, ResumesOwn
  <2>2. Owned(c, s)
    BY <1>4, <2>1 DEF ResumesOwn
  <2>3. Owned(c, s)'
    BY <2>2, OwnedKept
  <2>4. resumes'[k] = s /\ chat'[k] = c /\ child'[k] # "unborn"
    BY <2>1 DEF RunsKept
  <2>5. QED
    BY <2>3, <2>4 DEF Owned
<1>5. ResumesOwn'
  BY <1>4 DEF ResumesOwn, RunsKept
<1>6. QED
  BY <1>3, <1>5

(* A run that starts resumes nothing or the session of its chat.               *)
LEMMA OwnStart ==
  ASSUME TypeOK, SessionIsOwn, ResumesOwn, NEW k \in Run, NEW c \in Chat, NEW stored \in {sessions[c], None},
         StartRun(k, c, stored),
         \A q \in Run : step'[q] # "none" => q = k \/ step[q] # "none"
  PROVE  SessionIsOwn' /\ ResumesOwn'
<1>1. PICK r \in {stored, None} :
        sessions' = [sessions EXCEPT ![c] = r] /\ resumes' = [resumes EXCEPT ![k] = r]
  BY DEF StartRun, Found
<1>2. /\ child[k] = "unborn" /\ child' = [child EXCEPT ![k] = "live"] /\ chat' = [chat EXCEPT ![k] = c]
  BY DEF StartRun, NextRun
<1>3. RunsKept
  BY <1>1, <1>2 DEF RunsKept, TypeOK
<1>4. r \in {sessions[c], None}
  OBVIOUS
<1>5. \A d \in Chat : sessions'[d] \in {sessions[d], None}
  BY <1>1, <1>4 DEF TypeOK
<1>6. SessionIsOwn'
  <2>1. SUFFICES ASSUME NEW d \in Chat, sessions'[d] # None PROVE Owned(d, sessions[d])'
    BY DEF SessionIsOwn
  <2>2. PICK s \in Run : sessions'[d] = s /\ sessions[d] = s
    BY <1>5, <2>1 DEF TypeOK
  <2>3. Owned(d, s)
    BY <2>2, BridgeAssumption DEF SessionIsOwn
  <2>4. Owned(d, s)'
    BY <1>3, <2>3, OwnedKept
  <2>5. QED
    BY <2>2, <2>4 DEF Owned
<1>7. ASSUME NEW q \in Run, resumes'[q] # None PROVE child'[q] # "unborn" /\ Owned(chat[q], resumes[q])'
  <2>1. CASE q = k
    <3>1. PICK s \in Run : resumes'[k] = s /\ sessions[c] = s
      BY <1>1, <1>4, <1>7, <2>1 DEF TypeOK
    <3>2. Owned(c, s)
      BY <3>1, BridgeAssumption DEF SessionIsOwn
    <3>3. Owned(c, s)'
      BY <1>3, <3>2, OwnedKept
    <3>4. chat'[k] = c /\ child'[k] # "unborn"
      BY <1>2 DEF TypeOK
    <3>5. QED
      BY <2>1, <3>1, <3>3, <3>4 DEF Owned
  <2>2. CASE q # k
    <3>1. resumes[q] # None /\ resumes'[q] = resumes[q]
      BY <1>1, <1>7, <2>2 DEF TypeOK
    <3>2. PICK s \in Run, d \in Chat : resumes[q] = s /\ chat[q] = d /\ child[q] # "unborn"
      BY <3>1 DEF TypeOK, ResumesOwn
    <3>3. Owned(d, s)
      BY <3>1, <3>2 DEF ResumesOwn
    <3>4. Owned(d, s)'
      BY <1>3, <3>3, OwnedKept
    <3>5. resumes'[q] = s /\ chat'[q] = d /\ child'[q] # "unborn"
      BY <1>3, <3>2 DEF RunsKept
    <3>6. QED
      BY <3>4, <3>5 DEF Owned
  <2>3. QED
    BY <2>1, <2>2
<1>8. \A q \in Run : child'[q] # "unborn" => chat'[q] \in Chat
  BY <1>2 DEF TypeOK, ResumesOwn
<1>9. \A q \in Run : step'[q] # "none" => child'[q] # "unborn"
  BY <1>2 DEF TypeOK, ResumesOwn
<1>10. QED
  BY <1>6, <1>7, <1>8, <1>9 DEF ResumesOwn
(* A run that ends well leaves its chat the session it began or resumed.       *)
LEMMA OwnEnds ==
  ASSUME OwnInv, NEW k \in Run, NEW code \in Codes, CodexEnds(k, code)
  PROVE  SessionIsOwn' /\ ResumesOwn'
<1> USE DEF OwnInv
<1>1. /\ child[k] = "live" /\ child' = [child EXCEPT ![k] = code] /\ code \in Code
      /\ UNCHANGED <<chat, resumes>> /\ (AfterClose(k, code) \/ UNCHANGED <<sessions, step>>)
  BY BridgeAssumption, Zenon DEF CodexEnds
<1>2. RunsKept
  BY <1>1 DEF RunsKept, TypeOK, Code
<1>3. \A q \in Run : child'[q] # "unborn" => child[q] # "unborn"
  BY <1>1 DEF TypeOK
<1>4. \A q \in Run : step'[q] # "none" => step[q] # "none" \/ q = k
  BY <1>1 DEF AfterClose, TypeOK
<1>5. CASE (\A c \in Chat : sessions'[c] \in {sessions[c], None}) /\ \A q \in Run : step'[q] # "none" => step[q] # "none"
  BY <1>1, <1>2, <1>3, <1>5, OwnKept
<1>6. CASE AfterClose(k, code)
  <2>1. chat[k] \in Chat
    BY <1>1 DEF ResumesOwn
  <2>2. PICK c \in Chat : chat[k] = c
    BY <2>1
  <2>3. PICK s \in Run : Thread(k) = s
    BY DEF Thread, TypeOK
  <2>4. \A d \in Chat \ {c} : sessions'[d] = sessions[d]
    BY <1>1, <1>6, <2>2 DEF AfterClose, Owner, TypeOK, Code
  <2>5. sessions'[c] \in {sessions[c], None} \/ (code = "ok" /\ sessions'[c] = s)
    BY <1>1, <1>6, <2>2, <2>3 DEF AfterClose, Owner, TypeOK, Code
  <2>6. ASSUME code = "ok" PROVE Owned(c, s)'
    <3>1. child'[k] = "ok" /\ chat'[k] = c /\ Thread(k)' = s
      BY <1>1, <2>2, <2>3, <2>6 DEF Thread, TypeOK
    <3>2. chat[s] = c /\ child[s] # "unborn"
      <4>1. CASE resumes[k] = None
        BY <1>1, <2>2, <2>3, <4>1 DEF Thread
      <4>2. CASE resumes[k] # None
        BY <2>2, <2>3, <4>2 DEF Thread, ResumesOwn, Owned
      <4>3. QED
        BY <4>1, <4>2
    <3>3. chat'[s] = c /\ child'[s] # "unborn"
      BY <1>2, <3>2 DEF RunsKept
    <3>4. QED
      BY <3>1, <3>3 DEF Owned
  <2>7. SessionIsOwn'
    <3>1. SUFFICES ASSUME NEW d \in Chat, sessions'[d] # None PROVE Owned(d, sessions[d])'
      BY DEF SessionIsOwn
    <3>2. CASE d = c /\ code = "ok" /\ sessions'[c] = s
      BY <2>6, <3>2 DEF Owned
    <3>3. CASE sessions'[d] = sessions[d]
      <4>1. PICK z \in Run : sessions[d] = z /\ sessions'[d] = z
        BY <3>1, <3>3 DEF TypeOK
      <4>2. Owned(d, z)
        BY <4>1, BridgeAssumption DEF SessionIsOwn
      <4>3. Owned(d, z)'
        BY <1>2, <4>2, OwnedKept
      <4>4. QED
        BY <4>1, <4>3 DEF Owned
    <3>4. QED
      BY <2>4, <2>5, <3>1, <3>2, <3>3
  <2>8. ASSUME NEW q \in Run, resumes'[q] # None PROVE child'[q] # "unborn" /\ Owned(chat[q], resumes[q])'
    <3>1. PICK z \in Run, d \in Chat : resumes[q] = z /\ chat[q] = d /\ child[q] # "unborn"
      BY <1>1, <2>8 DEF TypeOK, ResumesOwn
    <3>2. Owned(d, z)
      BY <1>1, <2>8, <3>1 DEF ResumesOwn
    <3>3. Owned(d, z)'
      BY <1>2, <3>2, OwnedKept
    <3>4. resumes'[q] = z /\ chat'[q] = d /\ child'[q] # "unborn"
      BY <1>2, <3>1 DEF RunsKept
    <3>5. QED
      BY <3>3, <3>4 DEF Owned
  <2>9. \A q \in Run : child'[q] # "unborn" => chat'[q] \in Chat
    BY <1>1, <1>3 DEF ResumesOwn
  <2>10. \A q \in Run : step'[q] # "none" => child'[q] # "unborn"
    BY <1>1, <1>2, <1>4 DEF ResumesOwn, RunsKept
  <2>11. QED
    BY <2>7, <2>8, <2>9, <2>10 DEF ResumesOwn
<1>7. QED
  BY <1>1, <1>5, <1>6

LEMMA OwnStep ==
  ASSUME OwnInv, [Next]_vars PROVE OwnInv'
<1> USE DEF OwnInv
<1>1. TypeOK' /\ OffsetsFollow'
  BY TypeStep, QueueStep
<1>2. ASSUME UNCHANGED <<sessions, child, chat, resumes>>, \A k \in Run : step'[k] # "none" => step[k] # "none"
      PROVE  SessionIsOwn' /\ ResumesOwn'
  <2>1. RunsKept
    BY <1>2 DEF RunsKept
  <2>2. QED
    BY <1>2, <2>1, OwnKept
<1>3. CASE TakeUpdate
  <2> DEFINE u == inbox[cur + 1]
  <2>1. u \in Update
    <3>1. cur + 1 \in 1..Len(inbox)
      BY <1>3, TakeStep
    <3>2. inbox \in Seq(Update)
      BY DEF TypeOK, Update
    <3>3. QED
      BY <3>1, <3>2
  <2>2. u.chat \in Chat /\ Handle(u.chat, u.cmd)
    BY <1>3, <2>1, Zenon DEF TakeUpdate, Update
  <2> HIDE DEF u
  <2>3. PICK c \in Chat : Handle(c, u.cmd)
    BY <2>2
  <2>4. CASE KeepRuns \/ Cancel
    BY <1>1, <1>2, <2>4 DEF KeepRuns, Cancel, runs
  <2>5. CASE ForgetSession(c)
    <3>1. sessions' = [sessions EXCEPT ![c] = None] /\ UNCHANGED <<child, chat, resumes, step>>
      BY <2>5 DEF ForgetSession, runs
    <3>2. RunsKept /\ \A d \in Chat : sessions'[d] \in {sessions[d], None}
      BY <3>1 DEF RunsKept, TypeOK
    <3>3. QED
      BY <1>1, <3>1, <3>2, OwnKept
  <2>6. ASSUME NEW stored \in {sessions[c], None}, StartFromChat(c, stored)
        PROVE  SessionIsOwn' /\ ResumesOwn'
    <3>1. PICK k \in Run : StartRun(k, c, stored) /\ step' = [step EXCEPT ![k] = "announce"]
      BY <2>6 DEF StartFromChat
    <3>2. \A q \in Run : step'[q] # "none" => q = k \/ step[q] # "none"
      BY <3>1 DEF TypeOK
    <3>3. QED
      BY <3>1, <3>2, OwnStart
  <2>7. KeepRuns \/ Cancel \/ ForgetSession(c) \/ \E stored \in {sessions[c], None} : StartFromChat(c, stored)
    BY <2>3, Zenon DEF Handle
  <2>8. QED
    BY <1>1, <2>4, <2>5, <2>6, <2>7
<1>4. ASSUME NEW k \in Run, Retry(k) PROVE SessionIsOwn' /\ ResumesOwn'
  <2>1. PICK q \in Run :
          StartRun(q, chat[k], sessions[chat[k]]) /\ step' = [step EXCEPT ![k] = "told", ![q] = "announce"]
    BY <1>4 DEF Retry
  <2>2. step[k] = "apologise"
    BY <1>4, Zenon DEF Retry
  <2>3. chat[k] \in Chat
    BY <2>2 DEF ResumesOwn
  <2>4. \A j \in Run : step'[j] # "none" => j = q \/ step[j] # "none"
    BY <2>1, <2>2 DEF TypeOK
  <2>5. QED
    BY <2>1, <2>3, <2>4, OwnStart
<1>5. CASE SayFails
  BY <1>1, <1>2, <1>5 DEF SayFails, TypeOK
<1>6. ASSUME NEW k \in Run, Announced(k) \/ TimeOut(k) \/ Report(k) PROVE SessionIsOwn' /\ ResumesOwn'
  BY <1>2, <1>6 DEF Announced, TimeOut, Report, TypeOK
<1>7. CASE Crash \/ Shutdown
  <2>1. /\ UNCHANGED <<sessions, chat, resumes>>
        /\ \A k \in Run : step'[k] # "none" => step[k] # "none"
    BY <1>7 DEF Crash, Shutdown, Ended
  <2>2. child' = child \/ \E k \in Run : child[k] = "live" /\ child' = [child EXCEPT ![k] = "fail"]
    BY <1>7 DEF Crash, Shutdown
  <2>3. RunsKept /\ \A k \in Run : child'[k] # "unborn" => child[k] # "unborn"
    BY <2>1, <2>2 DEF RunsKept, TypeOK
  <2>4. QED
    BY <1>1, <2>1, <2>3, OwnKept
<1>8. ASSUME NEW c \in Chat, NEW cmd \in Commands, Send(c, cmd)
      PROVE  UNCHANGED <<sessions, child, chat, resumes, step>>
  BY <1>8 DEF Send, runs
<1>9. GetUpdates \/ Said \/ Restart \/ UNCHANGED vars => UNCHANGED <<sessions, child, chat, resumes, step>>
  BY DEF GetUpdates, Said, Restart, runs, vars
<1>10. QED
  BY <1>1, <1>2, <1>3, <1>4, <1>5, <1>6, <1>7, <1>8, <1>9, OwnEnds DEF Next, Loop

(* Types, offsets and owners hold together.                                    *)
THEOREM BridgeInvariant == Spec => []OwnInv
<1>1. Init => OwnInv
  <2>1. SUFFICES ASSUME Init PROVE OwnInv
    OBVIOUS
  <2>2. TypeOK
    BY <2>1 DEF Init, TypeOK
  <2>3. OffsetsFollow /\ SessionIsOwn /\ ResumesOwn
    BY <2>1 DEF Init, OffsetsFollow, SessionIsOwn, ResumesOwn
  <2>4. QED
    BY <2>2, <2>3 DEF OwnInv
<1>2. OwnInv /\ [Next]_vars => OwnInv'
  BY OwnStep
<1>3. QED
  BY <1>1, <1>2, PTL DEF Spec

(* No chat gets the session of another, in whatever order runs are cancelled   *)
(* and end and however often the process does.                                *)
THEOREM SessionsAreOwn == Spec => [](TypeOK /\ SessionIsOwn)
<1>1. OwnInv => TypeOK /\ SessionIsOwn
  BY DEF OwnInv
<1>2. QED
  BY <1>1, BridgeInvariant, PTL
-----------------------------------------------------------------------------
(* One run.  A retry follows a stale session, and that is for good.            *)
AfterStale == \A k \in Run : crashes = 0 /\ step[k] = "apologise" => child[k] = "stale"
OneInv == OneRun /\ AfterStale

LEMMA OneStep ==
  ASSUME OwnInv, OneInv, [Next]_vars PROVE OneInv'
<1>0. /\ TypeOK /\ taken \subseteq 1..Len(inbox) /\ Len(inbox) \in Nat
      /\ \A k \in Run : child[k] = "unborn" => step[k] = "none"
  BY DEF OwnInv, TypeOK, OffsetsFollow, ResumesOwn
<1>1. ASSUME UNCHANGED <<inbox, taken, active, child, crashes>>,
             \A k \in Run : step'[k] = "apologise" => step[k] = "apologise"
      PROVE  OneInv'
  BY <1>1 DEF OneInv, OneRun, Undisturbed, AfterStale
<1>2. ASSUME crashes' = crashes + 1 PROVE OneInv'
  BY <1>0, <1>2 DEF OneInv, OneRun, Undisturbed, AfterStale, TypeOK
<1>3. ASSUME NEW k \in Run, child[k] = "unborn", child' = [child EXCEPT ![k] = "live"], active' = k,
             crashes' = crashes, Undisturbed' => \A q \in Run : child[q] # "live",
             \A q \in Run : step'[q] = "apologise" => step[q] = "apologise"
      PROVE  OneInv'
  <2>1. child \in [Run -> {"unborn", "live"} \cup Code]
    BY <1>0 DEF TypeOK
  <2>2. AfterStale'
    BY <1>0, <1>3, <2>1 DEF OneInv, AfterStale
  <2>3. OneRun'
    BY <1>3, <2>1 DEF OneRun
  <2>4. QED
    BY <2>2, <2>3 DEF OneInv
<1>4. ASSUME NEW c \in Chat, NEW cmd \in Commands, Send(c, cmd) PROVE OneInv'
  <2>1. /\ inbox' = Append(inbox, [chat |-> c, cmd |-> cmd])
        /\ UNCHANGED <<taken, active, child, step, crashes>>
    BY <1>4 DEF Send, runs, bounds
  <2>2. \A i \in taken : inbox'[i] = inbox[i]
    BY <1>0, <2>1 DEF TypeOK
  <2>3. QED
    BY <2>1, <2>2 DEF OneInv, OneRun, Undisturbed, AfterStale
<1>5. CASE TakeUpdate
  <2> DEFINE u == inbox[cur + 1]
  <2>1. /\ taken' = taken \cup {cur + 1} /\ UNCHANGED <<inbox, crashes>> /\ Handle(u.chat, u.cmd)
    BY <1>5, Zenon DEF TakeUpdate, bounds
  <2>2. Undisturbed' => u.cmd # "cancel"
    BY <2>1 DEF Undisturbed
  <2> HIDE DEF u
  <2>3. CASE KeepRuns \/ ForgetSession(u.chat)
    <3>1. UNCHANGED <<active, child, step>>
      BY <2>3 DEF KeepRuns, ForgetSession, runs
    <3>2. QED
      BY <2>1, <3>1 DEF OneInv, OneRun, Undisturbed, AfterStale
  <2>4. CASE u.cmd = "cancel" /\ Cancel
    <3>1. UNCHANGED <<child, step>>
      BY <2>4 DEF Cancel
    <3>2. QED
      BY <2>1, <2>2, <2>4, <3>1 DEF OneInv, OneRun, AfterStale
  <2>5. ASSUME NEW stored, StartFromChat(u.chat, stored), active = None PROVE OneInv'
    <3>1. PICK k \in Run : StartRun(k, u.chat, stored) /\ step' = [step EXCEPT ![k] = "announce"]
      BY <2>5 DEF StartFromChat
    <3>2. child[k] = "unborn" /\ child' = [child EXCEPT ![k] = "live"] /\ active' = k
      BY <3>1 DEF StartRun, NextRun
    <3>3. \A q \in Run : step'[q] = "apologise" => step[q] = "apologise"
      BY <1>0, <3>1 DEF TypeOK
    <3>4. Undisturbed' => Undisturbed
      BY <1>0, <2>1, <3>2 DEF Undisturbed, TypeOK
    <3>5. Undisturbed => \A q \in Run : child[q] # "live"
      BY <2>5, BridgeAssumption DEF OneInv, OneRun
    <3>6. QED
      BY <1>3, <2>1, <3>2, <3>3, <3>4, <3>5
  <2>6. \/ KeepRuns \/ ForgetSession(u.chat)
        \/ u.cmd = "cancel" /\ Cancel
        \/ active = None /\ \E stored \in {None, sessions[u.chat]} : StartFromChat(u.chat, stored)
    <3>1. ~Busy(u.cmd) /\ u.cmd \in {"prompt", "new_prompt"} => active = None
      BY DEF Busy
    <3>2. QED
      BY <2>1, <3>1, Zenon DEF Handle
  <2>7. QED
    BY <2>3, <2>4, <2>5, <2>6
<1>6. ASSUME NEW k \in Run, NEW code \in Codes, CodexEnds(k, code) PROVE OneInv'
  <2>1. /\ child[k] = "live" /\ child' = [child EXCEPT ![k] = code] /\ code \in Code
        /\ UNCHANGED <<inbox, taken, crashes>>
        /\ AfterClose(k, code) \/ UNCHANGED <<active, step>>
    BY <1>6, BridgeAssumption, Zenon DEF CodexEnds, telegram, bounds
  <2>2. child'[k] = code /\ \A q \in Run \ {k} : child'[q] = child[q]
    BY <1>0, <2>1 DEF TypeOK
  <2>3. Undisturbed' => Undisturbed
    BY <2>1, <2>2 DEF Undisturbed
  <2>4. OneRun'
    <3>1. SUFFICES ASSUME Undisturbed', NEW q \in Run, child'[q] = "live" PROVE active' = q
      BY DEF OneRun
    <3>2. q # k /\ child[q] = "live"
      BY <2>1, <2>2, <3>1 DEF Code
    <3>3. active = q /\ active = k
      BY <2>1, <2>3, <3>1, <3>2 DEF OneInv, OneRun
    <3>4. QED
      BY <3>2, <3>3
  <2>5. \A q \in Run : step'[q] = "apologise" => step[q] = "apologise" \/ (q = k /\ code = "stale")
    BY <1>0, <2>1 DEF AfterClose, TypeOK
  <2>6. AfterStale'
    BY <2>1, <2>2, <2>5 DEF OneInv, AfterStale
  <2>7. QED
    BY <2>4, <2>6 DEF OneInv
<1>7. ASSUME NEW k \in Run, Retry(k) PROVE OneInv'
  <2>1. step[k] = "apologise" /\ UNCHANGED <<inbox, taken, crashes>>
    BY <1>7, Zenon DEF Retry, telegram, bounds
  <2>2. PICK q \in Run :
          StartRun(q, chat[k], sessions[chat[k]]) /\ step' = [step EXCEPT ![k] = "told", ![q] = "announce"]
    BY <1>7 DEF Retry
  <2>3. child[q] = "unborn" /\ child' = [child EXCEPT ![q] = "live"] /\ active' = q
    BY <2>2 DEF StartRun, NextRun
  <2>4. \A j \in Run : step'[j] = "apologise" => step[j] = "apologise"
    BY <1>0, <2>2 DEF TypeOK
  <2>5. crashes = 0 => child[k] = "stale" /\ child'[k] = "stale"
    BY <1>0, <2>1, <2>3 DEF OneInv, AfterStale, TypeOK
  <2>6. ~Undisturbed'
    BY <2>1, <2>5 DEF Undisturbed
  <2>7. QED
    BY <1>3, <2>1, <2>3, <2>4, <2>6
<1>8. CASE SayFails
  <2>1. /\ UNCHANGED <<inbox, taken, active, child, crashes>>
        /\ \A k \in Run : step'[k] = "apologise" => step[k] = "apologise"
    BY <1>8 DEF SayFails, telegram
  <2>2. QED
    BY <1>1, <2>1
<1>9. ASSUME NEW k \in Run, Announced(k) \/ TimeOut(k) \/ Report(k) PROVE OneInv'
  <2>1. UNCHANGED <<inbox, taken, active, child, crashes>>
    BY <1>9 DEF Announced, TimeOut, Report, telegram, bounds
  <2>2. \A q \in Run : step'[q] = "apologise" => step[q] = "apologise"
    BY <1>0, <1>9 DEF Announced, TimeOut, Report, TypeOK
  <2>3. QED
    BY <1>1, <2>1, <2>2
<1>10. CASE Crash \/ Shutdown
  BY <1>2, <1>10 DEF Crash, Shutdown, Ended
<1>11. CASE GetUpdates \/ Said \/ Restart \/ UNCHANGED vars
  <2>1. UNCHANGED <<inbox, taken, active, child, step, crashes>>
    BY <1>11 DEF GetUpdates, Said, Restart, vars, runs, bounds, telegram
  <2>2. QED
    BY <1>1, <2>1
<1>12. QED
  BY <1>4, <1>5, <1>6, <1>7, <1>8, <1>9, <1>10, <1>11 DEF Next, Loop

(* As long as nobody cancels, no session is stale and the process stays up,    *)
(* one codex works at a time and activeRun names it: the check of a prompt     *)
(* and the close handlers never let a second one in.                          *)
THEOREM OneCodexAtATime == Spec => []OneRun
<1>1. Init => OneInv
  BY DEF Init, OneInv, OneRun, AfterStale
<1>2. OwnInv /\ OneInv /\ [Next]_vars => OneInv'
  BY OneStep
<1>3. OneInv => OneRun
  BY DEF OneInv
<1>4. QED
  BY <1>1, <1>2, <1>3, BridgeInvariant, PTL DEF Spec

-----------------------------------------------------------------------------
(* CodexOutput: the last of several lines, the end of a text.                  *)

(* The least-number principle.                                                *)
LEMMA LeastOf ==
  ASSUME NEW T \in SUBSET Nat, T # {}
  PROVE  \E m \in T : \A k \in T : m <= k
<1>1. PICK m \in T : \A k \in T : <<k, m>> \notin OpToRel(<, Nat)
  BY NatLessThanWellFounded, WFMin
<1>2. ASSUME NEW k \in T PROVE m <= k
  <2>1. \A ss \in Nat \X Nat : ss \in OpToRel(<, Nat) <=> ss[1] < ss[2]
    BY DEF OpToRel
  <2>2. <<k, m>> \in Nat \X Nat /\ <<k, m>>[1] = k /\ <<k, m>>[2] = m
    OBVIOUS
  <2>3. ~(k < m)
    BY <1>1, <2>1, <2>2
  <2>4. k \in Nat /\ m \in Nat
    OBVIOUS
  <2>5. QED
    BY <2>3, <2>4
<1>3. QED
  BY <1>2

(* Of several lines one is the last.                                           *)
LEMMA LastOf ==
  ASSUME NEW n \in Nat, NEW T \in SUBSET (1..n), T # {}
  PROVE  \E m \in T : \A k \in T : k <= m
<1> DEFINE S == {x \in Nat : \E i \in T : x = n - i}
<1>1. S # {}
  <2>1. PICK i \in T : TRUE
    OBVIOUS
  <2>2. n - i \in S
    OBVIOUS
  <2>3. QED
    BY <2>2
<1>2. PICK l \in S : \A k \in S : l <= k
  BY <1>1, LeastOf
<1>3. PICK m \in T : l = n - m
  BY <1>2
<1>4. ASSUME NEW k \in T PROVE k <= m
  <2>1. n - k \in S
    OBVIOUS
  <2>2. l <= n - k
    BY <1>2, <2>1
  <2>3. QED
    BY <1>3, <2>2
<1>5. QED
  BY <1>4

(* How much of a text tail leaves out, and what it keeps.                       *)
Over(s) == IF Len(s) > Kept THEN Len(s) - Kept ELSE 0

LEMMA TailKeeps ==
  ASSUME NEW S, NEW s \in Seq(S)
  PROVE  /\ Over(s) \in 0..Len(s) /\ Len(s) \in Nat
         /\ tail(s) \in Seq(S) /\ Len(tail(s)) = Len(s) - Over(s)
         /\ \A i \in 1..(Len(s) - Over(s)) : tail(s)[i] = s[Over(s) + i]
<1>1. Kept \in Nat /\ Len(s) \in Nat
  BY OutputAssumption, LenProperties DEF OutputAssumption
<1>2. Over(s) \in 0..Len(s) /\ tail(s) = SubSeq(s, Over(s) + 1, Len(s))
  BY <1>1 DEF Over, tail
<1>3. \A i \in (Over(s) + 1)..Len(s) : s[i] \in S
  BY <1>1, <1>2, ElementOfSeq
<1>4. Over(s) + 1 \in Int /\ Len(s) \in Int
  BY <1>1, <1>2
<1>5. /\ SubSeq(s, Over(s) + 1, Len(s)) \in Seq(S)
      /\ Len(SubSeq(s, Over(s) + 1, Len(s))) =
           IF Over(s) + 1 <= Len(s) THEN Len(s) - (Over(s) + 1) + 1 ELSE 0
      /\ \A i \in 1..(Len(s) - (Over(s) + 1) + 1) :
           SubSeq(s, Over(s) + 1, Len(s))[i] = s[(Over(s) + 1) + i - 1]
  BY <1>3, <1>4, SubSeqProperties
<1>6. \A i \in 1..(Len(s) - Over(s)) : tail(s)[i] = s[Over(s) + i]
  <2>1. ASSUME NEW i \in 1..(Len(s) - Over(s)) PROVE tail(s)[i] = s[Over(s) + i]
    <3>1. i \in 1..(Len(s) - (Over(s) + 1) + 1) /\ (Over(s) + 1) + i - 1 = Over(s) + i
      BY <1>1, <1>2
    <3>2. QED
      BY <1>2, <1>5, <3>1
  <2>2. QED
    BY <2>1
<1>7. Len(tail(s)) = Len(s) - Over(s)
  BY <1>1, <1>2, <1>5
<1>8. QED
  BY <1>1, <1>2, <1>5, <1>6, <1>7

(* The end of the end of a text with more behind it is the end of the whole.   *)
LEMMA TailOfTail ==
  ASSUME NEW S, NEW s \in Seq(S), NEW c \in Seq(S)
  PROVE  tail(tail(s) \o c) = tail(s \o c)
<1> DEFINE t == tail(s)
           x == t \o c
           y == s \o c
<1>1. Kept \in Nat /\ Len(s) \in Nat /\ Len(c) \in Nat
  BY OutputAssumption, LenProperties DEF OutputAssumption
<1>2. /\ Over(s) \in 0..Len(s) /\ t \in Seq(S) /\ Len(t) = Len(s) - Over(s)
      /\ \A i \in 1..(Len(s) - Over(s)) : t[i] = s[Over(s) + i]
  BY TailKeeps
<1> HIDE DEF t
<1>3. /\ x \in Seq(S) /\ Len(x) = Len(t) + Len(c)
      /\ \A i \in 1..(Len(t) + Len(c)) : x[i] = IF i <= Len(t) THEN t[i] ELSE c[i - Len(t)]
  BY <1>2, ConcatProperties
<1>4. /\ y \in Seq(S) /\ Len(y) = Len(s) + Len(c)
      /\ \A i \in 1..(Len(s) + Len(c)) : y[i] = IF i <= Len(s) THEN s[i] ELSE c[i - Len(s)]
  BY ConcatProperties
<1> HIDE DEF x, y
<1>5. ASSUME NEW i \in 1..Len(x) PROVE x[i] = y[Over(s) + i]
  <2>1. Over(s) + i \in 1..(Len(s) + Len(c)) /\ i \in 1..(Len(t) + Len(c))
    BY <1>1, <1>2, <1>3
  <2>2. CASE i <= Len(t)
    <3>1. i \in 1..(Len(s) - Over(s)) /\ Over(s) + i <= Len(s)
      BY <1>1, <1>2, <1>3, <2>2
    <3>2. QED
      BY <1>2, <1>3, <1>4, <2>1, <2>2, <3>1
  <2>3. CASE ~(i <= Len(t))
    <3>1. Over(s) + i - Len(s) = i - Len(t) /\ ~(Over(s) + i <= Len(s))
      BY <1>1, <1>2, <1>3, <2>3
    <3>2. \A k \in 1..(Len(s) + Len(c)) : ~(k <= Len(s)) => y[k] = c[k - Len(s)]
      BY <1>4
    <3>3. y[Over(s) + i] = c[i - Len(t)]
      <4>1. Over(s) \in Int /\ Len(s) \in Int /\ i \in Int /\ Len(t) \in Int
        BY <1>1, <1>2, <2>1
      <4>2. QED
        BY <2>1, <3>1, <3>2, <4>1
    <3>4. QED
      BY <1>3, <2>1, <2>3, <3>3
  <2>4. QED
    BY <2>2, <2>3
<1>6. /\ Over(x) \in 0..Len(x) /\ Len(x) \in Nat
      /\ tail(x) \in Seq(S) /\ Len(tail(x)) = Len(x) - Over(x)
      /\ \A i \in 1..(Len(x) - Over(x)) : tail(x)[i] = x[Over(x) + i]
  BY <1>3, TailKeeps
<1>7. /\ Over(y) \in 0..Len(y) /\ Len(y) \in Nat
      /\ tail(y) \in Seq(S) /\ Len(tail(y)) = Len(y) - Over(y)
      /\ \A i \in 1..(Len(y) - Over(y)) : tail(y)[i] = y[Over(y) + i]
  BY <1>4, TailKeeps
<1>8. Over(y) = Over(s) + Over(x) /\ Len(y) = Over(s) + Len(x)
  <2>1. Len(y) = Over(s) + Len(x)
    BY <1>1, <1>2, <1>3, <1>4
  <2>2. /\ Over(s) = IF Len(s) > Kept THEN Len(s) - Kept ELSE 0
        /\ Over(x) = IF Len(x) > Kept THEN Len(x) - Kept ELSE 0
        /\ Over(y) = IF Len(y) > Kept THEN Len(y) - Kept ELSE 0
    BY DEF Over
  <2>3. QED
    BY <1>1, <1>2, <1>3, <1>4, <2>1, <2>2
<1>9. ASSUME NEW i \in 1..(Len(x) - Over(x)) PROVE tail(x)[i] = tail(y)[i]
  <2>1. tail(x)[i] = x[Over(x) + i] /\ Over(x) + i \in 1..Len(x)
    BY <1>6
  <2>2. x[Over(x) + i] = y[Over(s) + (Over(x) + i)]
    BY <1>5, <2>1
  <2>3. i \in 1..(Len(y) - Over(y)) /\ Over(s) + (Over(x) + i) = Over(y) + i
    <3>1. Over(s) \in Nat /\ Over(x) \in Nat /\ Over(y) \in Nat /\ Len(x) \in Nat /\ Len(y) \in Nat
      BY <1>1, <1>2, <1>6, <1>7
    <3>2. QED
      BY <1>8, <3>1
  <2>4. QED
    BY <1>7, <2>1, <2>2, <2>3
<1>10. Len(tail(x)) = Len(tail(y))
  BY <1>1, <1>2, <1>6, <1>7, <1>8
<1>11. tail(x) = tail(y)
  BY <1>6, <1>7, <1>9, <1>10, SeqEqual
<1>12. QED
  BY <1>11 DEF x, y, t

(* The bridge keeps of stderr the end of all that arrived, chunk by chunk.      *)
LEMMA KeptIsTail ==
  ASSUME NEW s \in Seq(ErrorHalf), NEW a \in 0..Len(s), NEW b \in a..Len(s), NEW c \in b..Len(s)
  PROVE  KeptOf(tail(SubSeq(s, a + 1, b)), SubSeq(s, b + 1, c)) = tail(SubSeq(s, a + 1, c))
<1>1. Len(s) \in Nat
  BY LenProperties
<1>2. \A i \in 1..Len(s) : s[i] \in ErrorHalf
  BY ElementOfSeq
<1>3. SubSeq(s, a + 1, b) \in Seq(ErrorHalf)
  <2>1. \A i \in (a + 1)..b : s[i] \in ErrorHalf
    BY <1>1, <1>2
  <2>2. QED
    BY <1>1, <2>1, SubSeqProperties
<1>4. SubSeq(s, b + 1, c) \in Seq(ErrorHalf)
  <2>1. \A i \in (b + 1)..c : s[i] \in ErrorHalf
    BY <1>1, <1>2
  <2>2. QED
    BY <1>1, <2>1, SubSeqProperties
<1>5. SubSeq(s, a + 1, b) \o SubSeq(s, b + 1, c) = SubSeq(s, a + 1, c)
  <2>1. a + 1 \in 1..(Len(s) + 1) /\ b \in ((a + 1) - 1)..Len(s)
    BY <1>1
  <2>2. QED
    BY <2>1, ConcatAdjacentSubSeq
<1>6. QED
  BY <1>3, <1>4, <1>5, TailOfTail DEF KeptOf

(* What was the last text before more lines came is that of all the lines if   *)
(* the new ones have none.                                                    *)
LEMMA LastOfMore ==
  ASSUME NEW L, NEW M, L \subseteq M, NEW kind, NEW default
  PROVE  LastText(M, kind, {}, LastText(L, kind, {}, default)) = LastText(M, kind, {}, default)
  BY DEF LastText

(* The text of a line is one of codex, if one of the lines has a text.          *)
LEMMA LastIsText ==
  ASSUME out \in Seq(Event), NEW L \in SUBSET (DOMAIN out), NEW kind, NEW default,
         \E i \in L : out[i].kind = kind /\ out[i].text # Empty
  PROVE  LastText(L, kind, {}, default) # Empty
<1> DEFINE T == {i \in L : out[i].kind = kind /\ out[i].text # Empty}
           latest == CHOOSE i \in T : \A j \in T : j <= i
<1>1. Len(out) \in Nat /\ DOMAIN out = 1..Len(out)
  BY LenProperties
<1>2. T \in SUBSET (1..Len(out)) /\ T # {}
  BY <1>1
<1>3. \E i \in T : \A j \in T : j <= i
  BY <1>1, <1>2, LastOf
<1>4. latest \in T
  BY <1>3
<1>5. LastText(L, kind, {}, default) = out[latest].text
  BY <1>2 DEF LastText
<1>6. QED
  BY <1>4, <1>5

LEMMA InputsAreLists ==
  ASSUME NEW n \in Nat, NEW S PROVE UpTo(n, S) \subseteq Seq(S)
  BY SeqDef DEF UpTo

LEMMA OutputStarts == OutputInit => OutputInv
<1> SUFFICES ASSUME OutputInit PROVE OutputInv
  OBVIOUS
<1>1. out \in Seq(Event) /\ err \in Seq(ErrorHalf)
  BY InputsAreLists, OutputAssumption DEF OutputInit, OutputAssumption
<1>2. Len(out) \in Nat /\ Len(err) \in Nat
  BY <1>1, LenProperties
<1>3. OutputTypes
  BY <1>1, <1>2 DEF OutputInit, OutputTypes
<1>4. Arrived = {}
  BY DEF OutputInit, Arrived
<1>5. /\ LastText({}, "thread.started", {}, resumed) = resumed
      /\ LastText({}, "agent_message", {}, Empty) = Empty
  BY DEF LastText
<1>6. tail(SubSeq(err, errMissed + 1, errRead)) = <<>>
  <2>1. SubSeq(err, errMissed + 1, errRead) = <<>>
    BY SubSeqEmpty DEF OutputInit
  <2>2. <<>> \in Seq(ErrorHalf) /\ Len(<<>>) = 0
    BY EmptySeq
  <2>3. ASSUME NEW s \in Seq(ErrorHalf), Len(s) = 0 PROVE tail(s) = <<>>
    <3>1. /\ tail(s) \in Seq(ErrorHalf) /\ Over(s) \in 0..Len(s)
          /\ Len(tail(s)) = Len(s) - Over(s)
      BY TailKeeps
    <3>2. Len(tail(s)) = 0
      BY <2>3, <3>1
    <3>3. QED
      BY <3>1, <3>2, EmptySeq
  <2>4. QED
    BY <2>1, <2>2, <2>3
<1>7. QED
  BY <1>3, <1>4, <1>5, <1>6 DEF OutputInit, OutputInv, SessionIsLast, AnswerIsLast, StaleIsSeen

LEMMA OutputSteps == OutputInv /\ [OutputNext]_outputVars => OutputInv'
<1> SUFFICES ASSUME OutputInv, [OutputNext]_outputVars PROVE OutputInv'
  OBVIOUS
<1>1. OutputTypes
  BY DEF OutputInv
<1>2. Len(out) \in Nat /\ Len(err) \in Nat /\ DOMAIN out = 1..Len(out)
  BY <1>1, LenProperties DEF OutputTypes
<1>3. CASE UNCHANGED outputVars
  <2>1. /\ UNCHANGED <<out, err, exitCode, file, resumed, phase, read, errRead, missed, errMissed, cut>>
        /\ UNCHANGED <<stderr, threadId, lastAgentMessage, session, answer>>
    BY <1>3 DEF outputVars, codex, pipes, heard, result
  <2>2. LastSaid' = LastSaid /\ Arrived' = Arrived
    BY <2>1 DEF LastSaid, LastText, Arrived
  <2>3. OutputTypes'
    BY <1>1, <2>1, <2>2 DEF OutputTypes
  <2>4. /\ threadId' = LastText(Arrived, "thread.started", {}, resumed)'
        /\ cut' = {} => lastAgentMessage' = LastText(Arrived, "agent_message", {}, Empty)'
        /\ stderr' = tail(SubSeq(err, errMissed + 1, errRead))'
    BY <2>1, <2>2 DEF OutputInv, LastText, tail
  <2>5. /\ (phase = "announce" => missed = read /\ errMissed = errRead)'
        /\ (phase \in {"announce", "hooked"} => session = resumed)'
        /\ (phase \in {"unheard", "closed", "retry"} => Drained)'
    BY <2>1 DEF OutputInv, Drained
  <2>6. SessionIsLast' /\ AnswerIsLast' /\ StaleIsSeen'
    <3>1. SessionIsLast'
      BY <2>1 DEF OutputInv, SessionIsLast, LastText
    <3>2. AnswerIsLast'
      BY <2>1, <2>2 DEF OutputInv, AnswerIsLast
    <3>3. StaleIsSeen'
      BY <2>1 DEF OutputInv, StaleIsSeen, NamesStale, tail
    <3>4. QED
      BY <3>1, <3>2, <3>3
  <2>7. QED
    BY <2>3, <2>4, <2>5, <2>6 DEF OutputInv
<1>4. ASSUME NEW c \in {"ok", "failed"}, CodexExits(c) PROVE OutputInv'
  <2>1. /\ exitCode = "running" /\ exitCode' = c /\ file' \in {Empty, LastSaid}
        /\ UNCHANGED <<out, err, resumed, phase, read, errRead, missed, errMissed, cut>>
        /\ UNCHANGED <<stderr, threadId, lastAgentMessage, session, answer>>
    BY <1>4 DEF CodexExits, pipes, heard, result
  <2>2. phase \in {"announce", "hooked"}
    BY <1>1, <2>1 DEF OutputInv, OutputTypes, Drained
  <2>3. LastSaid' = LastSaid /\ Arrived' = Arrived
    BY <2>1 DEF LastSaid, LastText, Arrived
  <2>4. OutputTypes'
    BY <1>1, <2>1, <2>3 DEF OutputTypes
  <2>5. /\ threadId' = LastText(Arrived, "thread.started", {}, resumed)'
        /\ cut' = {} => lastAgentMessage' = LastText(Arrived, "agent_message", {}, Empty)'
        /\ stderr' = tail(SubSeq(err, errMissed + 1, errRead))'
    BY <2>1, <2>3 DEF OutputInv, LastText, tail
  <2>6. QED
    BY <2>1, <2>2, <2>4, <2>5 DEF OutputInv, SessionIsLast, AnswerIsLast, StaleIsSeen
<1>5. CASE HandlersThere
  <2>1. /\ phase = "announce" /\ phase' = "hooked"
        /\ UNCHANGED <<out, err, exitCode, file, resumed, read, errRead, missed, errMissed, cut>>
        /\ UNCHANGED <<stderr, threadId, lastAgentMessage, session, answer>>
    BY <1>5 DEF HandlersThere, codex, pipes, heard, result
  <2>3. LastSaid' = LastSaid /\ Arrived' = Arrived
    BY <2>1 DEF LastSaid, LastText, Arrived
  <2>4. OutputTypes'
    BY <1>1, <2>1, <2>3 DEF OutputTypes
  <2>5. /\ threadId' = LastText(Arrived, "thread.started", {}, resumed)'
        /\ cut' = {} => lastAgentMessage' = LastText(Arrived, "agent_message", {}, Empty)'
        /\ stderr' = tail(SubSeq(err, errMissed + 1, errRead))'
    BY <2>1, <2>3 DEF OutputInv, LastText, tail
  <2>6. QED
    BY <2>1, <2>4, <2>5 DEF OutputInv, SessionIsLast, AnswerIsLast, StaleIsSeen
<1>6. CASE Discard
  <2>1. /\ phase = "announce"
        /\ UNCHANGED <<out, err, exitCode, file, resumed, phase, cut>>
        /\ UNCHANGED <<stderr, threadId, lastAgentMessage, session, answer>>
        /\ read' \in 0..(2 * Len(out)) /\ missed' = read'
        /\ errRead' \in 0..Len(err) /\ errMissed' = errRead'
    BY <1>1, <1>2, <1>6 DEF Discard, codex, heard, result, OutputInv, OutputTypes
  <2>2. Arrived = {} /\ Arrived' = {}
    BY <1>1, <1>2, <2>1 DEF Arrived, OutputInv, OutputTypes
  <2>3. LastSaid' = LastSaid
    BY <2>1 DEF LastSaid, LastText
  <2>4. OutputTypes'
    BY <1>1, <1>2, <2>1, <2>3 DEF OutputTypes
  <2>5. /\ threadId' = LastText(Arrived, "thread.started", {}, resumed)'
        /\ cut' = {} => lastAgentMessage' = LastText(Arrived, "agent_message", {}, Empty)'
    BY <2>1, <2>2 DEF OutputInv, LastText
  <2>6. SubSeq(err, errMissed + 1, errRead) = <<>> /\ SubSeq(err', errMissed' + 1, errRead') = <<>>
    <3>1. errMissed = errRead /\ errRead \in Int
      BY <1>1, <1>2, <2>1 DEF OutputInv, OutputTypes
    <3>2. errRead' \in Int /\ errMissed' = errRead'
      BY <1>2, <2>1
    <3>3. ASSUME NEW s, NEW n \in Int PROVE SubSeq(s, n + 1, n) = <<>>
      BY SubSeqEmpty
    <3>4. QED
      BY <3>1, <3>2, <3>3
  <2>7. stderr' = tail(SubSeq(err, errMissed + 1, errRead))'
    BY <2>1, <2>6 DEF OutputInv, tail
  <2>8. QED
    BY <2>1, <2>4, <2>5, <2>7 DEF OutputInv, SessionIsLast, AnswerIsLast, StaleIsSeen
<1>7. CASE ReadOut
  <2>1. /\ phase = "hooked" /\ read' \in (read + 1)..(2 * Len(out))
        /\ cut' \in {cut, cut \cup {(read' + 1) \div 2}}
        /\ threadId' = LastText(Lines, "thread.started", {}, threadId)
        /\ lastAgentMessage' = LastText(Lines, "agent_message", cut', lastAgentMessage)
        /\ UNCHANGED <<out, err, exitCode, file, resumed, phase, errRead, missed, errMissed>>
        /\ UNCHANGED <<stderr, session, answer>>
    BY <1>7 DEF ReadOut, codex, result
  <2>2. Arrived' = Lines /\ Arrived \subseteq Lines /\ Lines \subseteq DOMAIN out
    BY <1>1, <1>2, <2>1 DEF Arrived, Lines, OutputTypes
  <2>3. LastSaid' = LastSaid
    BY <2>1 DEF LastSaid, LastText
  <2>4. OutputTypes'
    BY <1>1, <1>2, <2>1, <2>3 DEF OutputTypes
  <2>5. threadId' = LastText(Lines, "thread.started", {}, resumed)
    BY <2>1, <2>2, LastOfMore DEF OutputInv
  <2>6. cut' = {} => lastAgentMessage' = LastText(Lines, "agent_message", {}, Empty)
    <3>1. cut' = {} => cut = {}
      BY <2>1
    <3>2. QED
      BY <2>1, <2>2, <3>1, LastOfMore DEF OutputInv
  <2>7. /\ threadId' = LastText(Arrived, "thread.started", {}, resumed)'
        /\ cut' = {} => lastAgentMessage' = LastText(Arrived, "agent_message", {}, Empty)'
    BY <2>1, <2>2, <2>5, <2>6 DEF LastText
  <2>8. stderr' = tail(SubSeq(err, errMissed + 1, errRead))'
    BY <2>1 DEF OutputInv, tail
  <2>9. QED
    BY <2>1, <2>4, <2>7, <2>8 DEF OutputInv, SessionIsLast, AnswerIsLast, StaleIsSeen
<1>8. CASE ReadErr
  <2>1. /\ phase = "hooked" /\ errRead' \in (errRead + 1)..Len(err)
        /\ stderr' = KeptOf(stderr, SubSeq(err, errRead + 1, errRead'))
        /\ UNCHANGED <<out, err, exitCode, file, resumed, phase, read, missed, errMissed, cut>>
        /\ UNCHANGED <<threadId, lastAgentMessage, session, answer>>
    BY <1>8 DEF ReadErr, codex, result
  <2>2. LastSaid' = LastSaid /\ Arrived' = Arrived
    BY <2>1 DEF LastSaid, LastText, Arrived
  <2>3. OutputTypes'
    BY <1>1, <1>2, <2>1, <2>2 DEF OutputTypes
  <2>4. /\ threadId' = LastText(Arrived, "thread.started", {}, resumed)'
        /\ cut' = {} => lastAgentMessage' = LastText(Arrived, "agent_message", {}, Empty)'
    BY <2>1, <2>2 DEF OutputInv, LastText
  <2>5. stderr' = tail(SubSeq(err, errMissed + 1, errRead'))
    <3>1. /\ err \in Seq(ErrorHalf) /\ errMissed \in 0..Len(err) /\ errRead \in errMissed..Len(err)
          /\ errRead' \in errRead..Len(err)
      BY <1>1, <1>2, <2>1 DEF OutputTypes
    <3>2. stderr = tail(SubSeq(err, errMissed + 1, errRead))
      BY DEF OutputInv
    <3>3. QED
      BY <2>1, <3>1, <3>2, KeptIsTail
  <2>6. stderr' = tail(SubSeq(err, errMissed + 1, errRead))'
    BY <2>1, <2>5 DEF tail
  <2>7. QED
    BY <2>1, <2>3, <2>4, <2>6 DEF OutputInv, SessionIsLast, AnswerIsLast, StaleIsSeen
<1>9. CASE Close
  <2>1. /\ phase = "hooked" /\ Drained
        /\ UNCHANGED <<out, err, exitCode, file, resumed, read, errRead, missed, errMissed, cut>>
        /\ UNCHANGED <<stderr, threadId, lastAgentMessage>>
    BY <1>9 DEF Close, codex, pipes, heard
  <2>2. IF Stale
        THEN phase' = "retry" /\ session' = Empty /\ UNCHANGED answer
        ELSE /\ phase' = "closed" /\ answer' = Told(Message)
             /\ session' = IF exitCode = "ok" /\ threadId # Empty THEN threadId ELSE session
    BY <1>9 DEF Close
  <2>3. LastSaid' = LastSaid /\ Arrived' = Arrived /\ Drained'
    BY <2>1 DEF LastSaid, LastText, Arrived, Drained
  <2>4. OutputTypes' /\ phase' \in {"closed", "retry"}
    BY <1>1, <2>1, <2>2, <2>3 DEF OutputTypes
  <2>5. /\ threadId' = LastText(Arrived, "thread.started", {}, resumed)'
        /\ cut' = {} => lastAgentMessage' = LastText(Arrived, "agent_message", {}, Empty)'
        /\ stderr' = tail(SubSeq(err, errMissed + 1, errRead))'
    BY <2>1, <2>3 DEF OutputInv, LastText, tail
  <2>6. missed = 0 => Arrived = DOMAIN out
    BY <1>1, <1>2, <2>1 DEF Arrived, Drained, OutputTypes
  <2>7. SessionIsLast'
    <3>1. SUFFICES ASSUME phase' = "closed", exitCode = "ok", missed = 0
                   PROVE  session' = LastText(DOMAIN out, "thread.started", {}, resumed)
      BY <2>1 DEF SessionIsLast, LastText
    <3>2. threadId = LastText(DOMAIN out, "thread.started", {}, resumed) /\ session = resumed
      BY <2>1, <2>6, <3>1 DEF OutputInv
    <3>3. CASE threadId # Empty
      BY <2>2, <3>1, <3>2, <3>3
    <3>4. CASE threadId = Empty
      <4>1. ~\E i \in DOMAIN out : out[i].kind = "thread.started" /\ out[i].text # Empty
        BY <1>1, <3>2, <3>4, LastIsText DEF OutputTypes
      <4>2. LastText(DOMAIN out, "thread.started", {}, resumed) = resumed
        BY <4>1 DEF LastText
      <4>3. QED
        BY <2>2, <3>1, <3>2, <3>4, <4>2
    <3>5. QED
      BY <3>3, <3>4
  <2>8. AnswerIsLast'
    <3>1. SUFFICES ASSUME phase' = "closed", file # Empty \/ (missed = 0 /\ cut = {})
                   PROVE  IF LastSaid # Empty THEN answer' = LastSaid
                          ELSE answer' \in {"recent stderr", "no output"}
      BY <2>1, <2>3 DEF AnswerIsLast
    <3>2. file \in {Empty, LastSaid}
      BY <1>1 DEF OutputTypes
    <3>3. file = Empty => lastAgentMessage = LastSaid
      BY <2>6, <3>1 DEF OutputInv, LastSaid
    <3>4. Message = LastSaid
      BY <3>2, <3>3 DEF Message
    <3>5. answer' = Told(LastSaid)
      BY <2>2, <3>1, <3>4
    <3>6. QED
      BY <3>5 DEF Told
  <2>9. StaleIsSeen'
    <3>1. errMissed = 0 => SubSeq(err, errMissed + 1, errRead) = err
      BY <1>1, <2>1, SubSeqFull DEF OutputTypes, Drained
    <3>2. errMissed = 0 => stderr = tail(err)
      BY <3>1 DEF OutputInv
    <3>3. phase' = "retry" <=> exitCode # "ok" /\ resumed # Empty /\ NamesStale(stderr)
      BY <2>2 DEF Stale
    <3>4. phase' = "retry" => session' = Empty
      BY <2>2
    <3>5. QED
      BY <2>1, <3>2, <3>3, <3>4 DEF StaleIsSeen, NamesStale, tail
  <2>10. QED
    BY <2>3, <2>4, <2>5, <2>7, <2>8, <2>9 DEF OutputInv
<1>10. CASE CloseUnheard
  <2>1. /\ phase = "announce" /\ Drained /\ phase' = "unheard"
        /\ UNCHANGED <<out, err, exitCode, file, resumed, read, errRead, missed, errMissed, cut>>
        /\ UNCHANGED <<stderr, threadId, lastAgentMessage, session, answer>>
    BY <1>10 DEF CloseUnheard, codex, pipes, heard, result
  <2>2. LastSaid' = LastSaid /\ Arrived' = Arrived /\ Drained'
    BY <2>1 DEF LastSaid, LastText, Arrived, Drained
  <2>3. OutputTypes'
    BY <1>1, <2>1, <2>2 DEF OutputTypes
  <2>4. /\ threadId' = LastText(Arrived, "thread.started", {}, resumed)'
        /\ cut' = {} => lastAgentMessage' = LastText(Arrived, "agent_message", {}, Empty)'
        /\ stderr' = tail(SubSeq(err, errMissed + 1, errRead))'
    BY <2>1, <2>2 DEF OutputInv, LastText, tail
  <2>5. QED
    BY <2>1, <2>2, <2>3, <2>4 DEF OutputInv, SessionIsLast, AnswerIsLast, StaleIsSeen
<1>11. QED
  BY <1>3, <1>4, <1>5, <1>6, <1>7, <1>8, <1>9, <1>10 DEF OutputNext

(* The invariant of one run.                                                   *)
THEOREM OutputInvariant == OutputSpec => []OutputInv
<1>1. QED
  BY OutputStarts, OutputSteps, PTL DEF OutputSpec

(* The session that is stored is the thread codex began last, or the resumed   *)
(* one, wherever the chunks ended (parseJsonlEvents and the close handler of   *)
(* runCodex), if there were handlers in time.                                  *)
THEOREM StoredSessionIsLast == OutputSpec => []SessionIsLast
<1>1. OutputInv => SessionIsLast
  BY DEF OutputInv
<1>2. QED
  BY <1>1, OutputInvariant, PTL

(* The chat is told the last thing codex said, from the file or from stdout    *)
(* (readOutputFile, formatCodexResult).                                        *)
THEOREM AnswerIsLastSaid == OutputSpec => []AnswerIsLast
<1>1. OutputInv => AnswerIsLast
  BY DEF OutputInv
<1>2. QED
  BY <1>1, OutputInvariant, PTL

(* A failed run is repeated without its session exactly if the end of stderr    *)
(* says that this is stale, in whatever chunks it came (tail,                   *)
(* isStaleCodexSessionError).                                                  *)
THEOREM StaleSessionIsSeen == OutputSpec => []StaleIsSeen
<1>1. OutputInv => StaleIsSeen
  BY DEF OutputInv
<1>2. QED
  BY <1>1, OutputInvariant, PTL
=============================================================================
