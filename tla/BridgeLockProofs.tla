--------------------------- MODULE BridgeLockProofs ---------------------------
(***************************************************************************)
(* Proofs about BridgeLock, for any number of processes, kills and changes  *)
(* of the sessions.                                                        *)
(***************************************************************************)
EXTENDS BridgeLock, TLAPS

USE LockAssumption DEF NoPid, Torn

(* A step of one process.                                                     *)
Step(p) ==
  \/ Start(p) \/ LookForLock(p) \/ ReadLock(p) \/ CheckHolder(p) \/ Open(p) \/ Write(p) \/ Fill(p)
  \/ Change(p) \/ Save(p) \/ Shutdown(p) \/ Release(p) \/ LookAgain(p) \/ ReadAgain(p)
  \/ Unlink(p) \/ Exit(p) \/ Kill(p)

Places == {"off", "load", "read", "check", "open", "write", "fill", "run", "save",
           "release", "look", "reread", "unlink", "exit", "gone"}

(* A step moves the process itself and no other, to a place of its own; it      *)
(* never returns to where it was before it was started.                        *)
LEMMA OthersStay ==
  ASSUME TypeOK, NEW p \in Pid, Step(p)
  PROVE  /\ \A q \in Pid \ {p} : /\ pc'[q] = pc[q] /\ seen'[q] = seen[q]
                                 /\ exits'[q] = exits[q] /\ sessions'[q] = sessions[q]
         /\ pc'[p] # "off"
         /\ pc[p] # "gone"
<1>1. CASE Start(p)
  BY <1>1 DEF Start, Goto, TypeOK, lockVars
<1>2. CASE LookForLock(p) \/ ReadLock(p)
  BY <1>2 DEF LookForLock, ReadLock, Fail, Leave, Goto, TypeOK, sessionVars
<1>3. CASE CheckHolder(p) \/ Open(p)
  BY <1>3 DEF CheckHolder, Open, Fail, Leave, Goto, TypeOK, sessionVars
<1>4. CASE Write(p) \/ Fill(p) \/ Unlink(p)
  BY <1>4 DEF Write, Fill, Unlink, AfterRelease, Goto, TypeOK, sessionVars
<1>5. CASE Release(p) \/ LookAgain(p) \/ ReadAgain(p)
  BY <1>5 DEF Release, LookAgain, ReadAgain, AfterRelease, Goto, TypeOK, lockVars, sessionVars
<1>6. CASE Shutdown(p) \/ Exit(p) \/ Kill(p)
  BY <1>6 DEF Shutdown, Exit, Kill, Leave, Goto, Alive, TypeOK, sessionVars
<1>7. CASE Change(p) \/ Save(p)
  BY <1>7 DEF Change, Save, Saved, Goto, TypeOK, lockVars
<1>8. QED
  BY <1>1, <1>2, <1>3, <1>4, <1>5, <1>6, <1>7 DEF Step

(* How often releaseLock still runs: never for a process that stays, and once   *)
(* more at least for one that is about to exit.                                *)
Staying == {"off", "load", "read", "check", "open", "write", "fill", "run", "save"}
ExitsAgree ==
  \A p \in Pid : /\ pc[p] = "exit" => exits[p] > 0
                 /\ pc[p] \in Staying => exits[p] = 0

LEMMA TypeStep ==
  ASSUME TypeOK, ExitsAgree, NEW p \in Pid, Step(p) PROVE TypeOK' /\ ExitsAgree'
<1>0. /\ pc \in [Pid -> Places] /\ exits \in [Pid -> 0..2] /\ file \in Content
      /\ seen \in [Pid -> Pid \cup {NoPid}]
  BY DEF TypeOK, Places
<1>1. ASSUME NEW l \in Places, Goto(p, l), file' \in Content, seen' \in [Pid -> Pid \cup {NoPid}],
             linked' \subseteq Pid, met' \subseteq Pid, kills' \in Nat, UNCHANGED <<exits, sessionVars>>,
             l = "exit" => exits[p] > 0, l \in Staying => exits[p] = 0
      PROVE  TypeOK' /\ ExitsAgree'
  <2>1. TypeOK'
    BY <1>1 DEF Goto, TypeOK, sessionVars, Places
  <2>2. \A q \in Pid : pc'[q] = IF q = p THEN l ELSE pc[q]
    BY <1>0, <1>1 DEF Goto
  <2>3. QED
    BY <1>1, <2>1, <2>2 DEF ExitsAgree
<1>2. ASSUME NEW l \in Places, NEW n \in 0..2, Leave(p, l, n), UNCHANGED <<file, seen, linked, met, kills, sessionVars>>,
             l = "exit" => n > 0, l \in Staying => n = 0
      PROVE  TypeOK' /\ ExitsAgree'
  <2>1. \A q \in Pid : /\ pc'[q] = (IF q = p THEN l ELSE pc[q])
                       /\ exits'[q] = (IF q = p THEN n ELSE exits[q])
    BY <1>0, <1>2 DEF Leave, Goto
  <2>2. pc' \in [Pid -> Places] /\ exits' \in [Pid -> 0..2]
    BY <1>0, <1>2 DEF Leave, Goto
  <2>3. TypeOK'
    BY <1>2, <2>2 DEF TypeOK, sessionVars, Places
  <2>4. QED
    BY <1>2, <2>1, <2>3 DEF ExitsAgree
<1>3. AfterRelease(p) \in Places
      /\ (AfterRelease(p) = "exit" => exits[p] > 0) /\ (AfterRelease(p) \in Staying => exits[p] = 0)
  BY <1>0 DEF AfterRelease, Places, Staying
<1>4. linked \subseteq Pid /\ met \subseteq Pid /\ kills \in Nat
  BY DEF TypeOK
<1>5. CASE Start(p)
  <2>1. exits[p] = 0
    BY <1>5 DEF Start, ExitsAgree, Staying
  <2>2. TypeOK'
    BY <1>5 DEF Start, Goto, TypeOK, lockVars
  <2>3. QED
    BY <1>0, <1>5, <2>1, <2>2 DEF Start, Goto, ExitsAgree, lockVars
<1>6. CASE LookForLock(p)
  <2>1. exits[p] = 0
    BY <1>6 DEF LookForLock, ExitsAgree, Staying
  <2>2. QED
    BY <1>0, <1>1, <1>4, <1>6, <2>1 DEF LookForLock, Places
<1>7. CASE ReadLock(p)
  <2>1. exits[p] = 0
    BY <1>7 DEF ReadLock, ExitsAgree, Staying
  <2>2. CASE Fail(p) /\ UNCHANGED seen
    BY <1>2, <1>7, <2>2 DEF ReadLock, Fail, Places, Staying
  <2>3. CASE seen' = [seen EXCEPT ![p] = IF file \in Pid THEN file ELSE NoPid] /\ Goto(p, "check") /\ UNCHANGED exits
    <3>1. seen' \in [Pid -> Pid \cup {NoPid}]
      BY <1>0, <2>3
    <3>2. QED
      BY <1>0, <1>1, <1>4, <1>7, <2>1, <2>3, <3>1 DEF ReadLock, Places
  <2>4. QED
    BY <1>7, <2>2, <2>3 DEF ReadLock
<1>8. CASE CheckHolder(p) \/ Open(p)
  <2>1. exits[p] = 0
    BY <1>8 DEF CheckHolder, Open, ExitsAgree, Staying
  <2>2. CASE Fail(p)
    <3>1. UNCHANGED <<file, seen, linked, met, kills, sessionVars>>
      BY <1>0, <1>8, <2>2 DEF CheckHolder, Open, Fail, Leave, Goto
    <3>2. QED
      BY <1>2, <2>2, <3>1 DEF Fail, Places, Staying
  <2>3. CASE CheckHolder(p) /\ ~Fail(p)
    <3>1. \E l \in {"release", "open"} : Goto(p, l)
      BY <2>3 DEF CheckHolder
    <3>2. UNCHANGED <<file, seen, linked, met, kills, exits, sessionVars>>
      BY <2>3 DEF CheckHolder
    <3>3. QED
      BY <1>0, <1>1, <1>4, <2>1, <3>1, <3>2 DEF Places
  <2>4. CASE Open(p) /\ ~Fail(p)
    BY <1>0, <1>1, <1>4, <2>1, <2>4 DEF Open, Places, Content
  <2>5. QED
    BY <1>8, <2>2, <2>3, <2>4
<1>9. CASE Write(p) \/ Fill(p)
  <2>1. exits[p] = 0
    BY <1>9 DEF Write, Fill, ExitsAgree, Staying
  <2>2. QED
    BY <1>0, <1>1, <1>4, <1>9, <2>1 DEF Write, Fill, Places, Content
<1>10. CASE Release(p)
  BY <1>0, <1>1, <1>3, <1>4, <1>10 DEF Release, Places, Staying, lockVars
<1>11. CASE LookAgain(p)
  BY <1>0, <1>1, <1>4, <1>11 DEF LookAgain, Places, Staying, lockVars
<1>12. CASE ReadAgain(p)
  BY <1>0, <1>1, <1>3, <1>4, <1>12 DEF ReadAgain, Places, Staying, lockVars
<1>13. CASE Unlink(p)
  BY <1>0, <1>1, <1>3, <1>4, <1>13 DEF Unlink, Content
<1>14. CASE Shutdown(p)
  BY <1>2, <1>14 DEF Shutdown, Places, Staying
<1>15. CASE Exit(p)
  <2>1. exits[p] \in 1..2
    BY <1>0, <1>15 DEF Exit, ExitsAgree
  <2>2. exits[p] - 1 \in 0..2
    BY <2>1
  <2>3. QED
    BY <1>2, <1>15, <2>2 DEF Exit, Places, Staying
<1>16. CASE Kill(p)
  BY <1>0, <1>1, <1>4, <1>16 DEF Kill, Places, Staying
<1>17. CASE Change(p) \/ Save(p)
  <2>1. exits[p] = 0
    BY <1>17 DEF Change, Save, ExitsAgree, Staying
  <2>2. store' \in SUBSET Nat /\ sessions' \in [Pid -> SUBSET Nat] /\ saves' \in Nat
    BY <1>17 DEF Change, Save, Saved, Torn, TypeOK
  <2>3. beside' = beside /\ overlap' \in BOOLEAN
    BY <1>17 DEF Change, Save, TypeOK
  <2>4. TypeOK'
    BY <1>17, <2>2, <2>3 DEF Change, Save, Goto, TypeOK, lockVars
  <2>5. QED
    BY <1>0, <1>17, <2>1, <2>4 DEF Change, Save, Goto, ExitsAgree, lockVars
<1>18. QED
  BY <1>5, <1>6, <1>7, <1>8, <1>9, <1>10, <1>11, <1>12, <1>13, <1>14, <1>15, <1>16, <1>17 DEF Step

(* Only the creation, the write and the unlink touch the lock file.            *)
LEMMA FileStays ==
  ASSUME NEW p \in Pid, Step(p)
  PROVE  \/ (Open(p) /\ Creatable) \/ Write(p) \/ Fill(p) \/ Unlink(p)
         \/ file' = file /\ (linked' = linked \/ Kill(p))
BY DEF Step, Start, LookForLock, ReadLock, CheckHolder, Open, Change, Save, Shutdown, Release,
   LookAgain, ReadAgain, Exit, Kill, lockVars

LEMMA KillsCounted ==
  ASSUME TypeOK, NEW p \in Pid, Step(p) PROVE kills' = kills \/ (kills' > 0 /\ Kill(p))
BY DEF TypeOK, Step, Start, LookForLock, ReadLock, CheckHolder, Open, Write, Fill, Change, Save,
   Shutdown, Release, LookAgain, ReadAgain, Unlink, Exit, Kill, lockVars
-----------------------------------------------------------------------------
(***************************************************************************)
(* The lock.  The process whose pid the file holds has filled it and not    *)
(* released it since; an empty file is about to be filled; a pid that was   *)
(* read is that of another process that was started; and who has found a    *)
(* file has found its owner with it: all four but for a kill.              *)
(***************************************************************************)
OwnerHolds ==
  \A p \in Pid : file = p =>
    pc[p] \in {"run", "save", "look", "reread", "unlink"} \/ (kills > 0 /\ pc[p] = "gone")
Filling(p) == pc[p] = "write" \/ (pc[p] = "fill" /\ p \in linked)
EmptyIsFilled == file = "empty" /\ kills = 0 => \E p \in Pid : Filling(p)
SeenAnother ==
  \A p, q \in Pid : pc[p] = "check" /\ seen[p] = q => p # q /\ pc[q] # "off"
FoundIsMet == kills = 0 => \A p \in Pid : pc[p] = "read" => p \in met
LockInv == TypeOK /\ ExitsAgree /\ OwnerHolds /\ EmptyIsFilled /\ SeenAnother /\ FoundIsMet

LEMMA OwnerStep ==
  ASSUME LockInv, NEW p \in Pid, Step(p) PROVE OwnerHolds'
<1>1. TypeOK /\ OwnerHolds
  BY DEF LockInv
<1>2. \A q \in Pid \ {p} : pc'[q] = pc[q]
  BY <1>1, OthersStay
<1>3. kills > 0 => kills' > 0
  BY <1>1, KillsCounted
<1>4. CASE Fill(p) /\ file' = p
  <2>1. pc'[p] = "run"
    BY <1>1, <1>4 DEF Fill, Goto, TypeOK
  <2>2. QED
    BY <1>4, <2>1 DEF OwnerHolds
<1>5. CASE file' \notin Pid
  BY <1>5 DEF OwnerHolds
<1>6. CASE file' = file /\ file \in Pid \ {p}
  BY <1>1, <1>2, <1>3, <1>6 DEF OwnerHolds
<1>7. CASE file' = file /\ file = p
  <2>1. pc[p] \in {"run", "save", "look", "reread", "unlink"}
    BY <1>1, <1>7, OthersStay DEF OwnerHolds
  <2>2. pc'[p] \in {"run", "save", "look", "reread", "unlink"} \/ (kills' > 0 /\ pc'[p] = "gone")
    <3>1. CASE Shutdown(p) \/ Change(p) \/ Save(p)
      BY <1>1, <2>1, <3>1 DEF Shutdown, Leave, Goto, Change, Save, TypeOK
    <3>2. CASE LookAgain(p) \/ ReadAgain(p)
      BY <1>1, <1>7, <2>1, <3>2 DEF LookAgain, ReadAgain, MayUnlink, Goto, TypeOK
    <3>3. CASE Kill(p)
      BY <1>1, <2>1, <3>3 DEF Kill, Goto, TypeOK
    <3>4. CASE Unlink(p)
      BY <1>7, <3>4 DEF Unlink
    <3>5. QED
      BY <2>1, <3>1, <3>2, <3>3, <3>4
         DEF Step, Start, LookForLock, ReadLock, CheckHolder, Open, Write, Fill, Release, Exit
  <2>3. QED
    BY <1>7, <2>2 DEF OwnerHolds
<1>8. file' = file \/ file' \in {"absent", "empty"} \/ (file' = p /\ Fill(p))
  BY FileStays DEF Open, Write, Fill, Unlink, Creatable, Fail
<1>9. file' \in Pid => file' = file \/ (file' = p /\ Fill(p))
  BY <1>8
<1>10. QED
  BY <1>4, <1>5, <1>6, <1>7, <1>9

LEMMA EmptyStep ==
  ASSUME LockInv, NEW p \in Pid, Step(p) PROVE EmptyIsFilled'
<1>1. TypeOK /\ EmptyIsFilled
  BY DEF LockInv
<1>2. SUFFICES ASSUME file' = "empty", kills' = 0 PROVE \E q \in Pid : Filling(q)'
  BY DEF EmptyIsFilled
<1>3. kills = 0 /\ ~Kill(p)
  BY <1>1, <1>2, KillsCounted DEF Kill, TypeOK
<1>4. CASE (Open(p) /\ Creatable) \/ Write(p)
  <2>1. Filling(p)'
    BY <1>1, <1>4 DEF Open, Write, Goto, TypeOK, Creatable, Filling
  <2>2. QED
    BY <2>1
<1>5. CASE file' = file /\ linked' = linked
  <2>1. PICK q \in Pid : Filling(q)
    BY <1>1, <1>2, <1>3, <1>5 DEF EmptyIsFilled
  <2>2. CASE p # q
    <3>1. Filling(q)'
      BY <1>1, <1>5, <2>1, <2>2, OthersStay DEF Filling
    <3>2. QED
      BY <3>1
  <2>3. CASE p = q /\ pc[p] \in {"write", "fill"}
    BY <1>2, <1>3, <1>4, <1>5, <2>1, <2>3 DEF Filling, Step, Start, LookForLock, ReadLock, CheckHolder, Open, Fill,
       Change, Save, Shutdown, Release, LookAgain, ReadAgain, Unlink, Exit
  <2>4. QED
    BY <2>1, <2>2, <2>3 DEF Filling
<1>6. CASE Fill(p)
  <2>1. file = "empty" /\ p \notin linked /\ linked' = linked
    BY <1>1, <1>2, <1>6 DEF Fill, TypeOK
  <2>2. QED
    BY <1>2, <1>5, <2>1
<1>7. QED
  BY <1>2, <1>3, <1>4, <1>5, <1>6, FileStays DEF Unlink

LEMMA SeenStep ==
  ASSUME LockInv, NEW p \in Pid, Step(p) PROVE SeenAnother'
<1>1. TypeOK /\ SeenAnother /\ OwnerHolds
  BY DEF LockInv
<1>2. \A q \in Pid : pc[q] # "off" => pc'[q] # "off"
  BY <1>1, OthersStay
<1>3. ASSUME NEW r \in Pid, NEW q \in Pid, pc'[r] = "check", seen'[r] = q
      PROVE  r # q /\ pc'[q] # "off"
  <2>1. CASE r = p
    <3>1. ReadLock(p)
      BY <1>1, <1>3, <2>1 DEF Step, TypeOK, Start, LookForLock, CheckHolder, Open, Write, Fill, Change, Save,
         Shutdown, Fail, Leave, Release, LookAgain, ReadAgain, AfterRelease, Unlink, Exit, Kill, Goto
    <3>2. file = q /\ pc[p] = "read"
      BY <1>1, <1>3, <2>1, <3>1 DEF ReadLock, Fail, Leave, Goto, TypeOK
    <3>3. pc[q] # "read" /\ pc[q] # "off"
      BY <1>1, <3>2 DEF OwnerHolds
    <3>4. QED
      BY <1>2, <2>1, <3>2, <3>3
  <2>2. CASE r # p
    BY <1>1, <1>2, <1>3, <2>2, OthersStay DEF SeenAnother
  <2>3. QED
    BY <2>1, <2>2
<1>4. QED
  BY <1>3 DEF SeenAnother

(* Without a kill a file that is there has a living process behind it.         *)
LEMMA FileHasOwner ==
  ASSUME LockInv, kills = 0, file # "absent", NEW p \in Pid,
         pc[p] \in {"load", "read", "check", "open"}
  PROVE  Others(p)
<1>1. CASE file = "empty"
  BY <1>1 DEF LockInv, EmptyIsFilled, Filling, Others, Alive
<1>2. CASE file \in Pid
  <2>1. pc[file] \in {"run", "save", "look", "reread", "unlink"}
    BY <1>2 DEF LockInv, OwnerHolds
  <2>2. file # p /\ Alive(file)
    BY <2>1 DEF Alive
  <2>3. QED
    BY <1>2, <2>2 DEF Others
<1>3. QED
  BY <1>1, <1>2 DEF LockInv, TypeOK, Content

LEMMA MetStep ==
  ASSUME LockInv, NEW p \in Pid, Step(p) PROVE FoundIsMet'
<1>1. TypeOK /\ FoundIsMet
  BY DEF LockInv
<1>2. SUFFICES ASSUME kills' = 0, NEW q \in Pid, pc'[q] = "read" PROVE q \in met'
  BY DEF FoundIsMet
<1>3. kills = 0
  BY <1>1, <1>2, KillsCounted
<1>4. CASE LookForLock(p) /\ q = p
  <2>1. file # "absent" /\ pc[p] = "load"
    BY <1>1, <1>2, <1>4 DEF LookForLock, Goto, TypeOK
  <2>2. QED
    BY <1>3, <1>4, <2>1, FileHasOwner DEF LookForLock
<1>5. CASE pc[q] = "read"
  <2>1. met \subseteq met'
    BY DEF Step, Start, LookForLock, ReadLock, CheckHolder, Open, Write, Fill, Change, Save,
       Shutdown, Release, LookAgain, ReadAgain, Unlink, Exit, Kill, lockVars
  <2>2. QED
    BY <1>1, <1>3, <1>5, <2>1 DEF FoundIsMet
<1>6. pc[q] # "read" /\ q = p => LookForLock(p)
  BY <1>1, <1>2 DEF Step, TypeOK, Start, ReadLock, CheckHolder, Open, Write, Fill, Change, Save, Shutdown,
     Fail, Leave, Release, LookAgain, ReadAgain, AfterRelease, Unlink, Exit, Kill, Goto
<1>7. QED
  BY <1>1, <1>2, <1>4, <1>5, <1>6, OthersStay

(* Types, and the marks of processes and file agree with where each process is.  *)
THEOREM LockInvariant == Spec => []LockInv
<1>1. Init => LockInv
  <2>1. ASSUME Init PROVE TypeOK
    <3>1. store \in SUBSET Nat /\ sessions \in [Pid -> SUBSET Nat]
      BY <2>1 DEF Init
    <3>2. file \in Content /\ seen \in [Pid -> Pid \cup {NoPid}] /\ exits \in [Pid -> 0..2]
      BY <2>1 DEF Init, Content
    <3>3. kills \in Nat /\ saves \in Nat /\ beside = {} /\ overlap \in BOOLEAN /\ linked = {} /\ met = {}
      BY <2>1 DEF Init
    <3>4. pc \in [Pid -> {"off", "load", "read", "check", "open", "write", "fill", "run", "save",
                          "release", "look", "reread", "unlink", "exit", "gone"}]
      BY <2>1 DEF Init
    <3>5. QED
      BY <3>1, <3>2, <3>3, <3>4 DEF TypeOK
  <2>2. Init => ExitsAgree /\ OwnerHolds /\ EmptyIsFilled /\ SeenAnother /\ FoundIsMet
    BY DEF Init, ExitsAgree, OwnerHolds, EmptyIsFilled, SeenAnother, FoundIsMet
  <2>3. QED
    BY <2>1, <2>2 DEF LockInv
<1>2. LockInv /\ [Next]_vars => LockInv'
  <2>1. CASE UNCHANGED vars
    BY <2>1 DEF LockInv, TypeOK, ExitsAgree, OwnerHolds, EmptyIsFilled, Filling, SeenAnother, FoundIsMet,
       vars, lockVars, sessionVars
  <2>2. ASSUME LockInv, NEW p \in Pid, Step(p) PROVE LockInv'
    BY <2>2, TypeStep, OwnerStep, EmptyStep, SeenStep, MetStep DEF LockInv
  <2>3. QED
    BY <2>1, <2>2 DEF Next, Step
<1>3. QED
  BY <1>1, <1>2, PTL DEF Spec

(* While no process was killed, a start fails only beside another bridge that   *)
(* is starting, running or on its way out, or because one that was there as the *)
(* start looked for the lock has removed it before it was read.                *)
THEOREM RefusalsAreJustified == Spec => RefusedOnlyIfTaken
<1>1. ASSUME LockInv, Next, NEW p \in Pid, kills = 0, Failing(p)
      PROVE  Others(p) \/ (pc[p] = "read" /\ p \in met)
  <2>1. PICK r \in Pid : Step(r)
    BY <1>1 DEF Next, Step
  <2>2. exits[p] = 0 /\ exits'[p] > 0
    BY <1>1 DEF LockInv, ExitsAgree, Staying, Failing
  <2>3. r = p
    BY <1>1, <2>1, <2>2, OthersStay DEF LockInv
  <2>4. CASE ReadLock(p)
    BY <1>1, <2>4 DEF ReadLock, LockInv, FoundIsMet
  <2>5. CASE CheckHolder(p)
    <3>1. seen[p] \in Pid /\ Alive(seen[p]) /\ pc[p] = "check"
      BY <1>1, <2>2, <2>5 DEF LockInv, TypeOK, CheckHolder
    <3>2. seen[p] # p
      BY <1>1, <3>1 DEF LockInv, SeenAnother
    <3>3. QED
      BY <3>1, <3>2 DEF Others
  <2>6. CASE Open(p)
    <3>1. file # "absent" /\ pc[p] = "open"
      BY <1>1, <2>2, <2>6 DEF LockInv, TypeOK, Open, Creatable
    <3>2. QED
      BY <1>1, <3>1, FileHasOwner
  <2>7. QED
    BY <1>1, <2>1, <2>3, <2>4, <2>5, <2>6 DEF Failing, Step, Start, LookForLock, Write, Fill, Change, Save,
       Shutdown, Release, LookAgain, ReadAgain, Unlink, Exit, Kill, LockInv, TypeOK, Goto, lockVars, ExitsAgree, Staying
<1>2. LockInv /\ [Next]_vars =>
        [\A p \in Pid : kills = 0 /\ Failing(p) => Others(p) \/ (pc[p] = "read" /\ p \in met)]_vars
  BY <1>1
<1>3. QED
  BY <1>2, LockInvariant, PTL DEF Spec, RefusedOnlyIfTaken
-----------------------------------------------------------------------------
(***************************************************************************)
(* Two processes.  As long as no third was started, one that created the    *)
(* lock file keeps it until the other is on its way out, and only takes     *)
(* for stale the lock of a process that is gone.                           *)
(***************************************************************************)
Holds(p) == pc[p] \in {"write", "fill", "run", "save"}
Leaving(p) == exits[p] > 0 \/ pc[p] = "gone"
Clearing(p) == exits[p] = 0 /\ pc[p] \in {"release", "look", "reread", "unlink"}
Alone(p, q) == \A r \in Pid \ {p, q} : pc[r] = "off"
Apart(p, q) ==
  /\ Holds(p) => ~Holds(q) /\ (file # "absent" \/ Leaving(q))
  /\ Clearing(p) => pc[q] = "gone"
Pairs == \A p, q \in Pid : p # q /\ Alone(p, q) => Apart(p, q)

LEMMA PairStep ==
  ASSUME LockInv, Pairs, NEW r \in Pid, Step(r) PROVE Pairs'
<1>1. SUFFICES ASSUME NEW p \in Pid, NEW q \in Pid, p # q, Alone(p, q)'
               PROVE  Apart(p, q)'
  BY DEF Pairs
<1>2. TypeOK /\ ExitsAgree /\ TypeOK' /\ ExitsAgree'
  BY TypeStep DEF LockInv
<1>3. r \in {p, q}
  BY <1>1, <1>2, OthersStay DEF Alone
<1>4. Alone(p, q) /\ Alone(q, p)
  BY <1>1, <1>2, <1>3, OthersStay DEF Alone
<1>5. Apart(p, q) /\ Apart(q, p)
  BY <1>1, <1>4 DEF Pairs
<1>6. /\ \A s \in Pid \ {r} : pc'[s] = pc[s] /\ exits'[s] = exits[s]
      /\ pc[r] # "gone"
  BY <1>2, OthersStay
<1>7. \A s \in {p, q} \ {r} : ~Clearing(s) /\ ~Clearing(s)'
  BY <1>1, <1>3, <1>5, <1>6 DEF Apart, Clearing
<1>8. ASSUME file' = file \/ file' # "absent", Holds(r)' => Holds(r), Leaving(r) => Leaving(r)',
             Clearing(r)' => \A s \in {p, q} \ {r} : pc[s] = "gone"
      PROVE  Apart(p, q)'
  BY <1>1, <1>3, <1>5, <1>6, <1>7, <1>8 DEF Apart, Holds, Leaving
<1>9. CASE Open(r) /\ Creatable
  <2>1. pc'[r] = "write" /\ file' = "empty" /\ pc[r] = "open" /\ file = "absent" /\ exits'[r] = exits[r]
    BY <1>2, <1>9 DEF Open, Goto, TypeOK, Creatable
  <2>2. ~Leaving(r) /\ ~Clearing(r)'
    BY <1>2, <2>1 DEF Leaving, Clearing, ExitsAgree, Staying
  <2>3. \A s \in {p, q} \ {r} : ~Holds(s)
    BY <1>1, <1>3, <1>5, <2>1, <2>2 DEF Apart
  <2>4. QED
    BY <1>1, <1>3, <1>6, <1>7, <2>1, <2>2, <2>3 DEF Apart, Holds
<1>10. CASE Write(r) \/ Fill(r) \/ Change(r) \/ Save(r)
  <2>1. /\ Holds(r) /\ Holds(r)'
        /\ file' = file \/ file' \in {"empty", r}
    BY <1>2, <1>10 DEF Write, Fill, Change, Save, Goto, TypeOK, Holds
  <2>2. ~Clearing(r)' /\ ~Leaving(r)
    BY <1>2, <2>1 DEF Clearing, Holds, Leaving, ExitsAgree, Staying
  <2>3. r # "absent"
    OBVIOUS
  <2>4. QED
    BY <1>8, <2>1, <2>2, <2>3
<1>11. CASE Unlink(r)
  <2>1. pc[r] = "unlink" /\ exits' = exits /\ ~Holds(r)' /\ ~Clearing(r)'
    BY <1>2, <1>11 DEF Unlink, Goto, TypeOK, AfterRelease, Holds, Clearing
  <2>2. CASE exits[r] = 0
    <3>1. \A s \in {p, q} \ {r} : pc'[s] = "gone"
      BY <1>1, <1>3, <1>5, <1>6, <2>1, <2>2 DEF Apart, Clearing
    <3>2. QED
      BY <1>1, <1>3, <1>7, <2>1, <3>1 DEF Apart, Holds
  <2>3. CASE exits[r] > 0
    BY <1>1, <1>3, <1>7, <2>1, <2>3 DEF Apart, Leaving
  <2>4. QED
    BY <1>2, <2>2, <2>3 DEF TypeOK
<1>12. CASE CheckHolder(r) /\ pc'[r] = "release" /\ exits'[r] = 0
  <2>1. seen[r] \in Pid /\ ~Alive(seen[r]) /\ file' = file /\ pc[r] = "check" /\ exits' = exits
    BY <1>2, <1>12 DEF CheckHolder, Fail, Leave, Goto, TypeOK
  <2>2. seen[r] # r /\ pc[seen[r]] = "gone"
    BY <2>1 DEF LockInv, SeenAnother, Alive
  <2>3. seen[r] \in {p, q}
    BY <1>4, <2>1, <2>2 DEF Alone
  <2>4. QED
    BY <1>1, <1>3, <1>8, <1>12, <2>1, <2>2, <2>3 DEF Holds, Leaving
<1>13. CASE Release(r) \/ LookAgain(r) \/ ReadAgain(r)
  <2>1. /\ file' = file /\ exits' = exits
        /\ pc[r] \in {"release", "look", "reread"}
        /\ pc'[r] \in {"open", "exit", "look", "reread", "unlink"}
    BY <1>2, <1>13 DEF Release, LookAgain, ReadAgain, AfterRelease, Goto, TypeOK, lockVars
  <2>2. Clearing(r)' => Clearing(r)
    BY <2>1 DEF Clearing
  <2>3. QED
    BY <1>1, <1>3, <1>5, <1>8, <2>1, <2>2 DEF Apart, Holds, Leaving
<1>14. CASE \/ Start(r) \/ LookForLock(r) \/ ReadLock(r)
            \/ (Open(r) /\ ~Creatable)
            \/ (CheckHolder(r) /\ ~(pc'[r] = "release" /\ exits'[r] = 0))
  <2>1. /\ file' = file /\ pc[r] \in {"off", "load", "read", "check", "open"}
        /\ \/ pc'[r] \in {"gone", "load", "open", "read", "check"}
           \/ exits'[r] > 0 /\ pc'[r] = "release"
    <3>1. CASE Start(r) \/ LookForLock(r) \/ ReadLock(r)
      BY <1>2, <3>1 DEF Start, LookForLock, ReadLock, Fail, Leave, Goto, TypeOK
    <3>2. CASE (Open(r) /\ ~Creatable) \/ (CheckHolder(r) /\ ~(pc'[r] = "release" /\ exits'[r] = 0))
      BY <1>2, <3>2 DEF Open, CheckHolder, Fail, Leave, Goto, TypeOK
    <3>3. QED
      BY <1>14, <3>1, <3>2
  <2>2. ~Holds(r)' /\ ~Clearing(r)' /\ ~Leaving(r)
    BY <1>2, <2>1 DEF Holds, Clearing, Leaving, ExitsAgree, Staying
  <2>3. QED
    BY <1>8, <2>1, <2>2
<1>15. CASE Shutdown(r) \/ Exit(r) \/ Kill(r)
  <2>1. file' = file /\ Leaving(r)'
    <3>1. exits[r] \in 0..2 /\ (Exit(r) => exits[r] > 0)
      BY <1>2 DEF TypeOK, ExitsAgree, Exit
    <3>2. QED
      BY <1>2, <1>15, <3>1 DEF Shutdown, Exit, Kill, Leave, Goto, TypeOK, Leaving
  <2>2. ~Holds(r)' /\ ~Clearing(r)'
    BY <1>2, <2>1 DEF Leaving, Holds, Clearing, ExitsAgree, Staying, TypeOK
  <2>3. QED
    BY <1>8, <2>1, <2>2
<1>16. QED
  BY <1>9, <1>10, <1>11, <1>12, <1>13, <1>14, <1>15 DEF Step

(* Of two bridges only one runs, however their starts and exits overlap, and    *)
(* although one of them may be killed.                                         *)
THEOREM OnlyOneBridgeRuns == Spec => []OneBridge
<1>1. Init => Pairs
  BY DEF Init, Pairs, Apart, Holds, Clearing
<1>2. LockInv /\ Pairs /\ [Next]_vars => Pairs'
  <2>1. CASE UNCHANGED vars
    BY <2>1 DEF Pairs, Apart, Alone, Holds, Leaving, Clearing, vars, lockVars
  <2>2. QED
    BY <2>1, PairStep DEF Next, Step
<1>3. Pairs => OneBridge
  BY DEF Pairs, Apart, Alone, Holds, OneBridge
<1>4. QED
  BY <1>1, <1>2, <1>3, LockInvariant, PTL DEF Spec
-----------------------------------------------------------------------------
(***************************************************************************)
(* The sessions.  Two processes that are up were started one beside the     *)
(* other; so as long as only such change the sessions that were started    *)
(* alone, the one of them that is up has all changes, and the file has them *)
(* unless it is being written, or a kill has torn it.                      *)
(***************************************************************************)
OneAlone == \A p, q \in Pid \ beside : Alive(p) /\ Alive(q) => p = q
HasAll == \A p \in Pid \ beside : Alive(p) => sessions[p] = 1..saves
SaversAlone == \A p \in Pid : pc[p] = "save" => p \notin beside /\ store = Torn
StoreHasAll ==
  \/ store = 1..saves
  \/ store = Torn /\ (kills > 0 \/ \E p \in Pid : pc[p] = "save")
AllThere == ~overlap => OneAlone /\ HasAll /\ SaversAlone /\ StoreHasAll

LEMMA AllThereStep ==
  ASSUME TypeOK, AllThere, NEW p \in Pid, Step(p) PROVE AllThere'
<1>1. SUFFICES ASSUME ~overlap' PROVE (OneAlone /\ HasAll /\ SaversAlone /\ StoreHasAll)'
  BY DEF AllThere
<1>2. ~overlap
  BY <1>1 DEF Step, TypeOK, Start, LookForLock, ReadLock, CheckHolder, Open, Write,
     Fill, Change, Save, Shutdown, Release, LookAgain, ReadAgain, Unlink, Exit, Kill, sessionVars
<1>3. OneAlone /\ HasAll /\ SaversAlone /\ StoreHasAll
  BY <1>2 DEF AllThere
<1>4. /\ \A q \in Pid \ {p} : pc'[q] = pc[q] /\ sessions'[q] = sessions[q]
      /\ pc[p] # "gone"
  BY OthersStay
<1>5. CASE Start(p)
  <2>1. /\ pc[p] = "off" /\ pc'[p] = IF store = Torn THEN "gone" ELSE "load"
        /\ sessions'[p] = store /\ store' = store /\ saves' = saves /\ kills' = kills
        /\ beside' = IF Others(p) THEN beside \cup {p} ELSE beside
    BY <1>5 DEF Start, Goto, TypeOK, lockVars
  <2>2. \A q \in Pid : pc'[q] = "save" <=> pc[q] = "save"
    BY <1>4, <2>1
  <2>3. SaversAlone'
    BY <1>3, <1>4, <2>1, <2>2 DEF SaversAlone
  <2>4. StoreHasAll'
    BY <1>3, <2>1, <2>2 DEF StoreHasAll, Torn
  <2>5. CASE Others(p)
    <3>1. OneAlone'
      BY <1>3, <1>4, <2>1, <2>5 DEF OneAlone, Alive
    <3>2. HasAll'
      BY <1>3, <1>4, <2>1, <2>5 DEF HasAll, Alive
    <3>3. QED
      BY <2>3, <2>4, <3>1, <3>2
  <2>6. CASE ~Others(p)
    <3>1. \A q \in Pid : ~Alive(q)
      BY <2>1, <2>6 DEF Others, Alive
    <3>2. store = 1..saves \/ store = Torn
      BY <1>3 DEF StoreHasAll
    <3>3. \A q \in Pid : Alive(q)' => q = p
      BY <1>4, <3>1 DEF Alive
    <3>4. Alive(p)' => sessions'[p] = 1..saves'
      BY <2>1, <3>2 DEF Alive
    <3>5. OneAlone' /\ HasAll'
      BY <3>3, <3>4 DEF OneAlone, HasAll
    <3>6. QED
      BY <2>3, <2>4, <3>5
  <2>7. QED
    BY <2>5, <2>6
<1>6. CASE Change(p)
  <2>1. /\ pc'[p] = "save" /\ saves' = saves + 1 /\ sessions'[p] = sessions[p] \cup {saves + 1}
        /\ Alive(p) /\ beside' = beside /\ p \notin beside /\ store' = Torn
    BY <1>1, <1>6 DEF Change, Goto, TypeOK, Alive
  <2>2. sessions[p] = 1..saves /\ saves \in Nat
    BY <1>3, <2>1 DEF HasAll, TypeOK
  <2>3. sessions'[p] = 1..saves'
    BY <2>1, <2>2
  <2>4. \A q \in Pid \ beside : Alive(q)' => q = p
    BY <1>3, <1>4, <2>1 DEF OneAlone, Alive
  <2>5. OneAlone' /\ HasAll'
    BY <2>1, <2>3, <2>4 DEF OneAlone, HasAll
  <2>6. SaversAlone'
    BY <1>3, <1>4, <2>1 DEF SaversAlone, Torn
  <2>7. StoreHasAll'
    BY <2>1 DEF StoreHasAll, Torn
  <2>8. QED
    BY <2>5, <2>6, <2>7
<1>7. CASE Save(p)
  <2>1. /\ pc[p] = "save" /\ pc'[p] = "run" /\ store' = sessions[p] /\ Alive(p) /\ Alive(p)'
        /\ saves' = saves /\ sessions' = sessions /\ beside' = beside
    BY <1>7 DEF Save, Saved, Goto, Alive, TypeOK
  <2>2. p \notin beside /\ store' = 1..saves'
    BY <1>3, <2>1 DEF SaversAlone, HasAll
  <2>3. \A q \in Pid : Alive(q)' <=> Alive(q)
    BY <1>4, <2>1 DEF Alive
  <2>4. \A q \in Pid : pc'[q] # "save"
    BY <1>3, <1>4, <2>1, <2>2 DEF SaversAlone, OneAlone, Alive
  <2>5. OneAlone'
    BY <1>3, <2>1, <2>3 DEF OneAlone
  <2>6. HasAll'
    BY <1>3, <2>1, <2>3 DEF HasAll
  <2>7. QED
    BY <2>2, <2>4, <2>5, <2>6 DEF SaversAlone, StoreHasAll
<1>8. CASE Kill(p)
  <2>1. /\ Alive(p) /\ pc'[p] = "gone" /\ kills' = kills + 1 /\ kills \in Nat
        /\ store' = store /\ saves' = saves /\ sessions' = sessions /\ beside' = beside
    BY <1>8 DEF Kill, Goto, TypeOK, sessionVars
  <2>2. \A q \in Pid : Alive(q)' => Alive(q)
    BY <1>4, <2>1 DEF Alive
  <2>3. \A q \in Pid : pc'[q] = "save" => pc[q] = "save"
    BY <1>4, <2>1
  <2>4. OneAlone'
    BY <1>3, <2>1, <2>2 DEF OneAlone
  <2>5. HasAll'
    BY <1>3, <2>1, <2>2 DEF HasAll
  <2>6. SaversAlone'
    BY <1>3, <2>1, <2>3 DEF SaversAlone, Torn
  <2>7. kills' > 0
    BY <2>1
  <2>8. StoreHasAll'
    BY <1>3, <2>1, <2>7 DEF StoreHasAll, Torn
  <2>9. QED
    BY <2>4, <2>5, <2>6, <2>8
<1>9. ASSUME UNCHANGED sessionVars, kills' = kills, Alive(p), pc[p] # "save", pc'[p] # "save"
      PROVE  (OneAlone /\ HasAll /\ SaversAlone /\ StoreHasAll)'
  <2>1. store' = store /\ saves' = saves /\ sessions' = sessions /\ beside' = beside /\ kills' = kills
    BY <1>9 DEF sessionVars
  <2>2. \A q \in Pid : Alive(q)' => Alive(q)
    BY <1>4, <1>9 DEF Alive
  <2>3. \A q \in Pid : pc'[q] = "save" <=> pc[q] = "save"
    BY <1>4, <1>9
  <2>4. OneAlone'
    BY <1>3, <2>1, <2>2 DEF OneAlone
  <2>5. HasAll'
    BY <1>3, <2>1, <2>2 DEF HasAll
  <2>6. SaversAlone'
    BY <1>3, <2>1, <2>3 DEF SaversAlone, Torn
  <2>7. StoreHasAll'
    BY <1>3, <2>1, <2>3 DEF StoreHasAll, Torn
  <2>8. QED
    BY <2>4, <2>5, <2>6, <2>7
<1>10. CASE LookForLock(p) \/ ReadLock(p) \/ CheckHolder(p) \/ Open(p) \/ Write(p) \/ Fill(p)
  <2>1. UNCHANGED <<kills, sessionVars>> /\ Alive(p) /\ pc[p] # "save"
    BY <1>10 DEF LookForLock, ReadLock, CheckHolder, Open, Write, Fill, Alive
  <2>2. pc'[p] # "save"
    BY <1>10 DEF LookForLock, ReadLock, CheckHolder, Open, Write, Fill, Fail, Leave, Goto, TypeOK
  <2>3. QED
    BY <1>9, <2>1, <2>2
<1>11. CASE Shutdown(p) \/ Release(p) \/ LookAgain(p) \/ ReadAgain(p) \/ Unlink(p) \/ Exit(p)
  <2>1. UNCHANGED <<kills, sessionVars>> /\ Alive(p) /\ pc[p] # "save"
    BY <1>11 DEF Shutdown, Release, LookAgain, ReadAgain, Unlink, Exit, Alive, lockVars
  <2>2. pc'[p] # "save"
    BY <1>11 DEF Shutdown, Release, LookAgain, ReadAgain, Unlink, Exit, AfterRelease, Leave, Goto, TypeOK
  <2>3. QED
    BY <1>9, <2>1, <2>2
<1>12. QED
  BY <1>5, <1>6, <1>7, <1>8, <1>10, <1>11 DEF Step

(* No change of the sessions is lost, by starts that are refused or fail and by  *)
(* kills that do not tear the file, until a bridge changes them that was itself *)
(* started beside another.                                                     *)
THEOREM SessionsAreKept == Spec => []SessionsKept
<1>1. Init => AllThere
  BY DEF Init, AllThere, OneAlone, HasAll, SaversAlone, StoreHasAll, Alive
<1>2. LockInv /\ AllThere /\ [Next]_vars => AllThere'
  <2>1. CASE UNCHANGED vars
    BY <2>1 DEF AllThere, OneAlone, HasAll, SaversAlone, StoreHasAll, Alive, Torn, vars, lockVars, sessionVars
  <2>2. QED
    BY <2>1, AllThereStep DEF Next, Step, LockInv
<1>3. AllThere => SessionsKept
  <2>1. SUFFICES ASSUME AllThere, ~overlap PROVE SessionsKept
    BY DEF SessionsKept
  <2>2. \A p \in Pid : pc[p] = "save" => sessions[p] = 1..saves
    BY <2>1 DEF AllThere, HasAll, SaversAlone, Alive
  <2>3. QED
    BY <2>1, <2>2 DEF AllThere, StoreHasAll, SessionsKept
<1>4. QED
  BY <1>1, <1>2, <1>3, LockInvariant, PTL DEF Spec
=============================================================================
