--------------------------- MODULE SchedulingProofs ---------------------------
(***************************************************************************)
(* Proofs about Scheduling, for every length of the day and the horizon,    *)
(* every set of zones whose offset changes once, by a day at most, and any  *)
(* number of templates: occurrences are on time and days apart.             *)
(***************************************************************************)
EXTENDS Scheduling, TLAPS

-----------------------------------------------------------------------------
(* The calendar.                                                              *)

(* zonedDateTimeToUtc ends at a moment that shows the local time, if there is *)
(* one, and otherwise at one that is off by the leap of the clock.            *)
LEMMA CorrectionsSuffice ==
  ASSUME NEW z \in Zone, NEW wall \in Int
  PROVE  /\ ToUtc(z, wall) \in Int
         /\ Shown(z, wall) => LocalTime(z, ToUtc(z, wall)) = wall
         /\ ~Shown(z, wall) => LocalTime(z, ToUtc(z, wall)) \in {wall - Gap(z), wall + Gap(z)}
  BY DEF Zone, ToUtc, Correct, LocalTime, Offset, Shown, Gap

(* A moment is before its local time by one of the two offsets.               *)
LEMMA UtcIsNear ==
  ASSUME NEW z \in Zone, NEW wall \in Int
  PROVE  ToUtc(z, wall) \in {wall - z.before, wall - z.after}
  BY DEF Zone, ToUtc, Correct, LocalTime, Offset

LEMMA GapIsShort ==
  ASSUME NEW z \in Zones
  PROVE  /\ z \in Zone /\ Gap(z) \in 0..Day
         /\ z.before - z.after \in -Gap(z)..Gap(z)
  BY SchedulingAssumption DEF SchedulingAssumption, Zone, Gap

LEMMA WallIsInt ==
  ASSUME NEW d \in Int, NEW slot \in 0..(Day - 1)
  PROVE  d * Day + slot \in Int
  BY SchedulingAssumption DEF SchedulingAssumption

LEMMA AtIsInt ==
  ASSUME NEW z \in Zones, NEW d \in Int, NEW slot \in 0..(Day - 1)
  PROVE  At(z, d, slot) \in Int
  BY WallIsInt, CorrectionsSuffice, GapIsShort DEF At

(* The same time on a later day is due a day later, less the leap at most.    *)
LEMMA LaterDateIsLater ==
  ASSUME NEW z \in Zones, NEW d \in Int, NEW e \in Int, NEW slot \in 0..(Day - 1), d < e
  PROVE  At(z, e, slot) - At(z, d, slot) >= Day - Gap(z)
<1> DEFINE v == d * Day + slot
           w == e * Day + slot
<1>1. v \in Int /\ w \in Int BY WallIsInt
<1>2. w - v >= Day
  <2>1. Day \in Nat BY SchedulingAssumption DEF SchedulingAssumption
  <2>2. e * Day >= (d + 1) * Day BY <2>1
  <2>3. (d + 1) * Day = d * Day + Day BY <2>1
  <2>4. d * Day \in Int /\ e * Day \in Int BY <2>1
  <2> QED BY <2>1, <2>2, <2>3, <2>4
<1>3. /\ ToUtc(z, v) \in {v - z.before, v - z.after}
      /\ ToUtc(z, w) \in {w - z.before, w - z.after}
  BY <1>1, UtcIsNear, GapIsShort
<1>4. At(z, d, slot) = ToUtc(z, v) /\ At(z, e, slot) = ToUtc(z, w) BY DEF At
<1>5. z.before \in Int /\ z.after \in Int BY GapIsShort DEF Zone
<1>6. Day \in Nat BY SchedulingAssumption DEF SchedulingAssumption
<1> HIDE DEF v, w
<1> QED BY <1>1, <1>2, <1>3, <1>4, <1>5, <1>6, GapIsShort

-----------------------------------------------------------------------------
(* The rows.                                                                  *)

(* Dates computed for a slot within the day give rows of the table.           *)
LEMMA DatedAreRows ==
  ASSUME NEW t \in Template, NEW z \in Zones, NEW slot \in 0..(Day - 1), NEW dates \in SUBSET Int
  PROVE  \A o \in Dated(t, z, slot, dates) :
           o \in Occ /\ o.template = t /\ o.slot = slot /\ o.at = At(z, o.date, o.slot)
  BY AtIsInt DEF Dated, Occ

(* What Insert adds keeps the invariant, if it was asked for.                 *)
LEMMA InsertKeeps ==
  ASSUME SchedulingInv, NEW t \in Template, NEW slot \in 0..(Day - 1), NEW dates \in SUBSET Int,
         Insert(Dated(t, zone, slot, dates)), \E r \in asked[t] : r.slot = slot
  PROVE  /\ occ \subseteq occ' /\ occ' \subseteq Occ
         /\ \A o \in occ' : /\ o.at = At(zone, o.date, o.slot)
                            /\ \E r \in asked[o.template] : r.slot = o.slot
<1>1. zone \in Zones BY DEF SchedulingInv, TypeOK
<1>2. \A o \in Dated(t, zone, slot, dates) :
        o \in Occ /\ o.template = t /\ o.slot = slot /\ o.at = At(zone, o.date, o.slot)
  BY <1>1, DatedAreRows
<1>3. occ \subseteq occ' /\ \A o \in occ' : o \in occ \/ o \in Dated(t, zone, slot, dates)
  BY DEF Insert
<1>4. occ \subseteq Occ /\ \A o \in occ : /\ o.at = At(zone, o.date, o.slot)
                                          /\ \E r \in asked[o.template] : r.slot = o.slot
  BY DEF SchedulingInv, TypeOK
<1> QED BY <1>2, <1>3, <1>4

LEMMA DatesAreInts ==
  ASSUME NEW z \in Zones, NEW slot \in 0..(Day - 1), NEW t \in Int, NEW rule
  PROVE  FirstDate(z, slot, t) \in Int /\ OccurrenceDates(z, slot, rule, t) \in SUBSET Int
<1>1. LocalDate(z, t) \in Int
  BY GapIsShort, SchedulingAssumption DEF SchedulingAssumption, LocalDate, LocalTime, Offset, Zone
<1>2. FirstDate(z, slot, t) \in Int BY <1>1 DEF FirstDate
<1> QED BY <1>1, <1>2 DEF OccurrenceDates

-----------------------------------------------------------------------------
(* The invariant.                                                             *)

LEMMA RowShape == ASSUME NEW r \in Row, r.slot # Untimely PROVE r.slot \in 0..(Day - 1)
  BY DEF Row, Untimely

LEMMA NoRow == None \notin Row
  BY DEF None, Row, Rule

LEMMA Requested ==
  ASSUME NEW r \in [slot: Slots, rule: Rules] PROVE r \in Row
<1>1. Slots \subseteq (0..(Day - 1)) \cup {Untimely} /\ Rules \subseteq Rule
  BY SchedulingAssumption, Zenon DEF SchedulingAssumption
<1> QED BY <1>1 DEF Row

LEMMA InitEstablishes == Init => SchedulingInv
<1> SUFFICES ASSUME Init PROVE SchedulingInv OBVIOUS
<1>1. TypeOK
  BY SchedulingAssumption DEF SchedulingAssumption, Init, TypeOK
<1> QED BY <1>1 DEF Init, SchedulingInv

LEMMA StepPreserves == SchedulingInv /\ [Next]_vars => SchedulingInv'
<1> SUFFICES ASSUME SchedulingInv, [Next]_vars PROVE SchedulingInv' OBVIOUS
<1> USE DEF Idle
<1>0. TypeOK BY DEF SchedulingInv
<1>1. CASE UNCHANGED vars
  BY <1>1 DEF vars, SchedulingInv, TypeOK, Templates
<1>2. ASSUME NEW t \in Template, NEW r \in [slot: Slots, rule: Rules],
             CreateTemplate(t, r) \/ UpdateTemplate(t, r)
      PROVE  SchedulingInv'
  <2>1. r \in Row BY Requested
  <2>2. /\ row' = [row EXCEPT ![t] = r]
        /\ asked' = [asked EXCEPT ![t] = @ \cup {r}]
        /\ body' = [body EXCEPT ![t] = r] \/ body' = body
        /\ updates' = updates \/ updates' = updates + 1
        /\ UNCHANGED <<now, zone, occ, run, queued, faults>>
    BY <1>2, Zenon DEF CreateTemplate, UpdateTemplate
  <2>3. /\ row' \in [Template -> Row \cup {None}] /\ asked' \in [Template -> SUBSET Row]
        /\ body' \in [Template -> Row \cup {None}] /\ updates' \in Nat
    BY <1>0, <2>1, <2>2 DEF TypeOK
  <2>4. TypeOK' BY <1>0, <2>2, <2>3 DEF TypeOK
  <2>5. \A u \in Template : asked[u] \subseteq asked'[u]
    BY <1>0, <2>2 DEF TypeOK
  <2>6. \A u \in Template : /\ row'[u] # None => row'[u] \in asked'[u]
                            /\ body'[u] # None => body'[u] \in asked'[u]
    BY <1>0, <2>2, <2>5 DEF TypeOK, SchedulingInv
  <2>7. run' # Idle => \A u \in DOMAIN run'.rows : run'.rows[u] \in asked'[u]
    BY <1>0, <2>2, <2>5 DEF TypeOK, SchedulingInv
  <2>8. \A o \in occ' : /\ o.at = At(zone', o.date, o.slot)
                        /\ \E q \in asked'[o.template] : q.slot = o.slot
    BY <1>0, <2>2, <2>5 DEF TypeOK, SchedulingInv, Occ
  <2> QED BY <2>4, <2>6, <2>7, <2>8 DEF SchedulingInv
<1>3. ASSUME NEW t \in Template, CreateNextOccurrence(t) PROVE SchedulingInv'
  <2>1. /\ body' = [body EXCEPT ![t] = None]
        /\ UNCHANGED <<now, zone, row, asked, run, queued, updates, faults>>
    BY <1>3, Zenon DEF CreateNextOccurrence
  <2>2. /\ occ \subseteq occ' /\ occ' \subseteq Occ
        /\ \A o \in occ' : /\ o.at = At(zone, o.date, o.slot)
                           /\ \E r \in asked[o.template] : r.slot = o.slot
    <3>1. CASE UNCHANGED occ BY <3>1, <1>0 DEF SchedulingInv, TypeOK
    <3>2. CASE /\ body[t].slot # Untimely
               /\ Insert(Dated(t, Timezone, body[t].slot, {FirstDate(Timezone, body[t].slot, now)}))
      <4>1. body[t] \in asked[t] /\ body[t] \in Row
        BY <1>0, <1>3 DEF CreateNextOccurrence, SchedulingInv, TypeOK
      <4>2. body[t].slot \in 0..(Day - 1) BY <3>2, <4>1, RowShape
      <4>3. {FirstDate(zone, body[t].slot, now)} \in SUBSET Int
        BY <1>0, <4>2, DatesAreInts DEF TypeOK
      <4>4. Insert(Dated(t, zone, body[t].slot, {FirstDate(zone, body[t].slot, now)}))
        BY <3>2, Zenon DEF Timezone
      <4>5. \E r \in asked[t] : r.slot = body[t].slot BY <4>1
      <4> QED BY <4>2, <4>3, <4>4, <4>5, InsertKeeps
    <3> QED BY <1>3, <3>1, <3>2, Zenon DEF CreateNextOccurrence
  <2>3. TypeOK' BY <1>0, <2>1, <2>2 DEF TypeOK
  <2> QED BY <1>0, <2>1, <2>2, <2>3 DEF SchedulingInv, TypeOK
<1>4. ASSUME NEW t \in Template, RequestDies(t) PROVE SchedulingInv'
  BY <1>4, <1>0 DEF RequestDies, SchedulingInv, TypeOK
<1>5. CASE ReadTemplates
  <2>1. /\ run' = [pc |-> "expand", at |-> now, rows |-> [t \in Templates |-> row[t]], todo |-> Templates]
        /\ UNCHANGED <<now, zone, row, asked, body, occ, queued, updates, faults>>
    BY <1>5, Zenon DEF ReadTemplates
  <2>2. \A t \in Templates : t \in Template /\ row[t] \in Row /\ row[t] \in asked[t]
    BY <1>0 DEF Templates, SchedulingInv, TypeOK
  <2>3. /\ run'.pc = "expand" /\ run'.at = now /\ run'.todo = Templates
        /\ run'.rows = [t \in Templates |-> row[t]]
    BY <2>1
  <2>4. TypeOK' BY <1>0, <2>1, <2>2, <2>3 DEF TypeOK
  <2> QED BY <2>1, <2>2, <2>3, <2>4 DEF SchedulingInv
<1>6. ASSUME NEW t \in Template, ExpandTemplate(t) PROVE SchedulingInv'
  <2> DEFINE r == run.rows[t]
             dates == OccurrenceDates(zone, r.slot, r.rule, run.at)
  <2>1. /\ run.pc = "expand" /\ t \in run.todo /\ Expandable(r)
        /\ Insert(Dated(t, zone, r.slot, dates))
        /\ run' = [run EXCEPT !.todo = @ \ {t}]
        /\ UNCHANGED <<now, zone, row, asked, body, queued, updates, faults>>
    BY <1>6, Zenon DEF ExpandTemplate
  <2>2. /\ run # Idle /\ run.at \in Int /\ run.todo \subseteq Template
        /\ run.rows \in [DOMAIN run.rows -> Row]
        /\ run.todo \subseteq DOMAIN run.rows /\ DOMAIN run.rows \subseteq Template
    BY <1>0, <2>1 DEF TypeOK
  <2>3. r \in Row /\ r \in asked[t] BY <2>1, <2>2 DEF SchedulingInv
  <2>4. r.slot \in 0..(Day - 1) BY <2>1, <2>3, RowShape DEF Expandable
  <2>5. dates \in SUBSET Int BY <1>0, <2>2, <2>4, DatesAreInts DEF TypeOK
  <2>6. /\ occ \subseteq occ' /\ occ' \subseteq Occ
        /\ \A o \in occ' : /\ o.at = At(zone, o.date, o.slot)
                           /\ \E q \in asked[o.template] : q.slot = o.slot
    <3> HIDE DEF dates, r
    <3>1. \E q \in asked[t] : q.slot = r.slot BY <2>3
    <3> QED BY <2>1, <2>4, <2>5, <3>1, InsertKeeps
  <2>7. /\ run'.pc = "expand" /\ run'.at = run.at /\ run'.rows = run.rows
        /\ run'.todo \subseteq run.todo
    BY <1>0, <2>1, <2>2 DEF TypeOK
  <2>8. TypeOK' BY <1>0, <2>1, <2>2, <2>6, <2>7 DEF TypeOK
  <2> QED BY <2>1, <2>2, <2>6, <2>7, <2>8 DEF SchedulingInv, TypeOK
<1>7. ASSUME NEW t \in Template, ExpansionThrows(t) PROVE SchedulingInv'
  BY <1>7, <1>0 DEF ExpansionThrows, SchedulingInv, TypeOK
<1>8. CASE Enqueue
  BY <1>8, <1>0 DEF Enqueue, Upcoming, SchedulingInv, TypeOK
<1>9. CASE RunDies
  <2>1. /\ run' = Idle /\ faults' = faults + 1 /\ queued' \subseteq queued \cup occ
        /\ UNCHANGED <<now, zone, row, asked, body, occ, updates>>
    BY <1>9 DEF RunDies, Upcoming
  <2> QED BY <1>0, <2>1 DEF SchedulingInv, TypeOK
<1>10. CASE Tick
  BY <1>10, <1>0 DEF Tick, SchedulingInv, TypeOK
<1> QED
  BY <1>1, <1>2, <1>3, <1>4, <1>5, <1>6, <1>7, <1>8, <1>9, <1>10 DEF Next, WorkerStep

(* The invariant holds: types, what was asked for, and where occurrences are.    *)
THEOREM SchedulingInvariant == Spec => []SchedulingInv
<1>1. Init => SchedulingInv BY InitEstablishes
<1>2. SchedulingInv /\ [Next]_vars => SchedulingInv' BY StepPreserves
<1> QED BY <1>1, <1>2, PTL DEF Spec

-----------------------------------------------------------------------------
(* What it gives.                                                             *)

LEMMA OnTimeFollows == SchedulingInv => OnTime
<1> SUFFICES ASSUME SchedulingInv, NEW o \in occ
             PROVE  /\ \E r \in asked[o.template] : r.slot = o.slot
                    /\ LET wall == o.date * Day + o.slot
                           shown == LocalTime(zone, o.at)
                       IN IF Shown(zone, wall) THEN shown = wall
                          ELSE shown \in {wall - Gap(zone), wall + Gap(zone)}
  BY DEF OnTime
<1>1. zone \in Zone /\ o \in Occ BY GapIsShort DEF SchedulingInv, TypeOK
<1>2. o.date * Day + o.slot \in Int BY <1>1, WallIsInt DEF Occ
<1>3. o.at = ToUtc(zone, o.date * Day + o.slot) BY DEF SchedulingInv, At
<1>4. \E r \in asked[o.template] : r.slot = o.slot BY DEF SchedulingInv
<1> HIDE DEF SchedulingInv
<1> QED BY <1>1, <1>2, <1>3, <1>4, CorrectionsSuffice

LEMMA DaysApartFollows == SchedulingInv => DaysApart
<1> SUFFICES ASSUME SchedulingInv, NEW o \in occ, NEW p \in occ,
                    o.template = p.template, o.slot = p.slot, o.at < p.at
             PROVE  p.at - o.at >= Day - Gap(zone)
  BY DEF DaysApart
<1>1. zone \in Zones /\ o \in Occ /\ p \in Occ BY DEF SchedulingInv, TypeOK
<1>2. o.at = At(zone, o.date, o.slot) /\ p.at = At(zone, p.date, o.slot) BY DEF SchedulingInv
<1>3. o.date \in Int /\ p.date \in Int /\ o.slot \in 0..(Day - 1) /\ o.at \in Int /\ p.at \in Int
  BY <1>1 DEF Occ
<1>4. CASE o.date < p.date BY <1>1, <1>2, <1>3, <1>4, LaterDateIsLater
<1>5. CASE o.date = p.date BY <1>2, <1>3, <1>5
<1>6. CASE p.date < o.date
  <2>1. o.at - p.at >= Day - Gap(zone) BY <1>1, <1>2, <1>3, <1>6, LaterDateIsLater
  <2>2. Gap(zone) \in 0..Day /\ Day \in Nat
    BY <1>1, GapIsShort, SchedulingAssumption DEF SchedulingAssumption
  <2> QED BY <1>3, <2>1, <2>2
<1> QED BY <1>3, <1>4, <1>5, <1>6

(* Every occurrence is for a time that was asked of its template, and falls on *)
(* it by the child's clock (createNextOccurrence, expandOccurrences).          *)
THEOREM OccurrencesAreOnTime == Spec => []OnTime
  BY SchedulingInvariant, OnTimeFollows, PTL

(* Two occurrences of a template for one time are a day apart, less the leap.  *)
THEOREM OccurrencesAreDaysApart == Spec => []DaysApart
  BY SchedulingInvariant, DaysApartFollows, PTL

(* Templates, occurrences and jobs keep their shape, whatever the time zone.    *)
THEOREM SchedulingTypeCorrect == Spec => []TypeOK
<1>1. SchedulingInv => TypeOK BY DEF SchedulingInv
<1> QED BY <1>1, SchedulingInvariant, PTL

-----------------------------------------------------------------------------
(* The days a run looks ahead.                                                *)

LEMMA DayOf ==
  ASSUME NEW x \in Int
  PROVE  /\ x \div Day \in Int /\ (x \div Day) * Day \in Int
         /\ x % Day \in 0..(Day - 1)
         /\ x = (x \div Day) * Day + (x % Day)
<1>1. Day \in Nat \ {0} BY SchedulingAssumption DEF SchedulingAssumption
<1>2. x \div Day \in Int /\ x % Day \in 0..(Day - 1) BY <1>1
<1>3. x = (x \div Day) * Day + (x % Day) BY <1>1
<1>4. (x \div Day) * Day \in Int BY <1>1, <1>2
<1> QED BY <1>2, <1>3, <1>4

LEMMA DaysInOrder ==
  ASSUME NEW d \in Int, NEW e \in Int
  PROVE  /\ d * Day \in Int /\ e * Day \in Int
         /\ d < e => d * Day + Day <= e * Day
         /\ d * Day < e * Day => d < e
<1>1. Day \in Nat \ {0} BY SchedulingAssumption DEF SchedulingAssumption
<1>2. d * Day \in Int /\ e * Day \in Int BY <1>1
<1>3. (d + 1) * Day = d * Day + Day BY <1>1
<1>4. d + 1 <= e => (d + 1) * Day <= e * Day BY <1>1
<1>5. e <= d => e * Day <= d * Day BY <1>1
<1> QED BY <1>1, <1>2, <1>3, <1>4, <1>5

(* If the clock shows a time between t and the horizon, and nowhere else, its  *)
(* date is one of those that occurrenceDatesForSchedule gives.                 *)
LEMMA DateIsGiven ==
  ASSUME NEW z \in Zones, NEW slot \in 0..(Day - 1), NEW t \in Int, NEW rule, Daily(rule),
         NEW u \in Int, LocalTime(z, u) % Day = slot,
         t <= u, u <= t + HorizonDays * Day,
         \A v \in u - Day..u + Day :
           LocalTime(z, v) = LocalTime(z, u) => t <= v /\ v <= t + HorizonDays * Day
  PROVE  \E d \in OccurrenceDates(z, slot, rule, t) :
           At(z, d, slot) \in u - Day..u + Day /\ LocalTime(z, At(z, d, slot)) = LocalTime(z, u)
<1> DEFINE w == LocalTime(z, u)
           d == w \div Day
           a == At(z, d, slot)
           today == LocalDate(z, t)
           first == FirstDate(z, slot, t)
           H == HorizonDays * Day
<1>1. /\ z.before \in Int /\ z.after \in Int /\ z.change \in Int
      /\ z.before - z.after \in -Day..Day /\ Day \in Nat \ {0} /\ HorizonDays \in Nat
  BY SchedulingAssumption DEF SchedulingAssumption, Zone
<1>2. /\ w \in Int /\ w = u + Offset(z, u) /\ Offset(z, u) \in {z.before, z.after}
      /\ LocalTime(z, t) \in Int /\ LocalTime(z, t) = t + Offset(z, t)
      /\ Offset(z, t) \in {z.before, z.after}
  BY <1>1 DEF LocalTime, Offset
<1>3. d \in Int /\ d * Day \in Int /\ w = d * Day + slot
  <2>1. w % Day = slot OBVIOUS
  <2> HIDE DEF w
  <2> QED BY <1>2, <2>1, DayOf
<1>4. /\ today \in Int /\ today * Day \in Int
      /\ today * Day <= LocalTime(z, t) /\ LocalTime(z, t) < today * Day + Day
  <2> DEFINE x == LocalTime(z, t)
  <2>1. x \in Int /\ today = x \div Day BY <1>2 DEF LocalDate
  <2> HIDE DEF x, today
  <2>2. x \div Day \in Int /\ (x \div Day) * Day \in Int BY <2>1, DayOf
  <2>3. (x \div Day) * Day <= x /\ x < (x \div Day) * Day + Day BY <1>1, <2>1, <2>2, DayOf
  <2> QED BY <2>1, <2>2, <2>3 DEF x
<1>5. first = IF At(z, today, slot) < t THEN today + 1 ELSE today
  BY DEF FirstDate
<1>6. H \in Nat BY <1>1
<1>7. /\ a = ToUtc(z, w) /\ a \in Int /\ LocalTime(z, a) = w
  <2>1. Shown(z, w) BY <1>1, <1>2 DEF Shown, LocalTime
  <2>2. z \in Zone BY GapIsShort
  <2>3. a = ToUtc(z, w) BY <1>3 DEF At
  <2> HIDE DEF w, d, a
  <2> QED BY <1>2, <2>1, <2>2, <2>3, CorrectionsSuffice
<1>8. a = w - Offset(z, a) /\ Offset(z, a) \in {z.before, z.after}
  <2> HIDE DEF w, d, a
  <2> QED BY <1>1, <1>7 DEF LocalTime, Offset
<1>9. a \in u - Day..u + Day
  <2> HIDE DEF w, d, a
  <2> QED BY <1>1, <1>2, <1>7, <1>8
<1>10. t <= a /\ a <= t + H BY <1>7, <1>9
<1>11. first <= d
  <2>1. CASE d < today
    <3>1. w < LocalTime(z, t)
      <4>1. d * Day + Day <= today * Day BY <1>3, <1>4, <2>1, DaysInOrder
      <4> HIDE DEF w, d, today
      <4> QED BY <1>1, <1>2, <1>3, <1>4, <4>1
    <3>2. Offset(z, a) < Offset(z, t)
      <4> HIDE DEF w, d, a, today
      <4> QED BY <1>1, <1>2, <1>7, <1>8, <1>10, <3>1
    <3>3. Offset(z, t) = z.before /\ Offset(z, a) = z.after /\ t < z.change /\ z.after < z.before
      <4> HIDE DEF w, d, a, today
      <4> QED BY <1>1, <1>7, <1>10, <3>2 DEF Offset
    <3> DEFINE v == w - z.before
    <3>4. v \in Int /\ v < t BY <1>1, <1>2, <3>1, <3>3
    <3>5. LocalTime(z, v) = w
      <4>1. Offset(z, v) = z.before BY <1>1, <3>3, <3>4 DEF Offset
      <4> QED BY <1>1, <1>2, <4>1 DEF LocalTime
    <3>6. v \in u - Day..u + Day
      <4> HIDE DEF w
      <4> QED BY <1>1, <1>2
    <3> HIDE DEF v
    <3> QED BY <3>4, <3>5, <3>6
  <2>2. CASE d = today
    <3>1. first = today BY <1>4, <1>5, <1>7, <1>10, <2>2
    <3> QED BY <1>3, <2>2, <3>1
  <2>3. CASE d > today
    <3> HIDE DEF d, today, first
    <3> QED BY <1>3, <1>4, <1>5, <2>3
  <2> HIDE DEF d, today, first
  <2> QED BY <1>3, <1>4, <2>1, <2>2, <2>3
<1>12. d <= first + HorizonDays + 1
  <2>1. d * Day < today * Day + H + Day + Day
    <3>1. w <= LocalTime(z, t) + H + Day
      <4> HIDE DEF w
      <4> QED BY <1>1, <1>2
    <3> HIDE DEF w, d, today, H
    <3> QED BY <1>1, <1>2, <1>3, <1>4, <1>6, <3>1
  <2>2. (today + HorizonDays + 2) * Day = today * Day + H + Day + Day
    <3> HIDE DEF today
    <3> QED BY <1>1, <1>4
  <2>3. d < today + HorizonDays + 2
    <3> HIDE DEF d, today, H
    <3>1. today + HorizonDays + 2 \in Int BY <1>1, <1>4
    <3> QED BY <1>3, <2>1, <2>2, <3>1, DaysInOrder
  <2> HIDE DEF d, today, first
  <2> QED BY <1>1, <1>3, <1>4, <1>5, <2>3
<1>13. first \in Int
  <2> HIDE DEF today, first
  <2> QED BY <1>4, <1>5
<1>14. ASSUME NEW e \in first..d PROVE InHorizon(z, slot, t, e)
  <2>1. e \in Int /\ e <= d
    <3> HIDE DEF d, first
    <3> QED BY <1>3, <1>13
  <2>2. At(z, e, slot) \in Int /\ At(z, e, slot) <= a
    <3>1. At(z, e, slot) \in Int BY <2>1, AtIsInt
    <3>2. CASE e = d BY <1>7, <3>2
    <3>3. CASE e < d
      <4>1. a - At(z, e, slot) >= Day - Gap(z)
        <5> HIDE DEF d
        <5> QED BY <1>3, <2>1, <3>3, LaterDateIsLater
      <4> HIDE DEF d, a
      <4> QED BY <1>1, <1>7, <3>1, <4>1, GapIsShort
    <3> HIDE DEF d, a
    <3> QED BY <1>3, <2>1, <3>1, <3>2, <3>3
  <2> HIDE DEF a, H
  <2> QED BY <1>6, <1>7, <1>10, <2>2 DEF InHorizon, H
<1>15. d \in OccurrenceDates(z, slot, rule, t)
  <2>1. d \in first..first + HorizonDays + 1
    <3> HIDE DEF d, first
    <3> QED BY <1>1, <1>3, <1>11, <1>12, <1>13
  <2> HIDE DEF d
  <2> QED BY <1>14, <2>1 DEF OccurrenceDates
<1> QED BY <1>7, <1>9, <1>15

LEMMA StepCovers ==
  ASSUME SchedulingInv, [Next]_vars, NEW t \in Template
  PROVE  DaysCovered(t)
<1> SUFFICES ASSUME run # Idle, run' # Idle, t \in run.todo \ run'.todo, Daily(run.rows[t].rule),
                    NEW u \in Window, LocalTime(zone, u) % Day = run.rows[t].slot,
                    SameTime(u) \subseteq Window
             PROVE  \E o \in occ' : o.template = t /\ o.at \in SameTime(u)
  BY DEF DaysCovered
<1>1. TypeOK BY DEF SchedulingInv
<1>2. PICK q \in Template : ExpandTemplate(q)
  <2>1. run' # run BY DEF Idle
  <2>2. ~(\E q \in Template, r \in [slot: Slots, rule: Rules] : CreateTemplate(q, r) \/ UpdateTemplate(q, r))
    BY <2>1 DEF CreateTemplate, UpdateTemplate
  <2>3. ~(\E q \in Template : CreateNextOccurrence(q) \/ RequestDies(q))
    BY <2>1 DEF CreateNextOccurrence, RequestDies
  <2>4. ~(ReadTemplates \/ Enqueue \/ RunDies \/ Tick \/ \E q \in Template : ExpansionThrows(q))
    BY <2>1 DEF ReadTemplates, Enqueue, RunDies, Tick, ExpansionThrows
  <2> QED BY <2>1, <2>2, <2>3, <2>4, Zenon DEF Next, WorkerStep, vars
<1> DEFINE r == run.rows[t]
           dates == OccurrenceDates(zone, r.slot, r.rule, run.at)
<1>3. /\ run.pc = "expand" /\ q \in run.todo /\ Expandable(run.rows[q])
      /\ Insert(Dated(q, zone, run.rows[q].slot,
                       OccurrenceDates(zone, run.rows[q].slot, run.rows[q].rule, run.at)))
      /\ run' = [run EXCEPT !.todo = @ \ {q}]
  BY <1>2, Zenon DEF ExpandTemplate
<1>4. t = q BY <1>3
<1>5. /\ run.at \in Int /\ zone \in Zones /\ r \in Row
  BY <1>1 DEF TypeOK
<1>6. r.slot \in 0..(Day - 1) BY <1>3, <1>4, <1>5, RowShape DEF Expandable
<1>7. HorizonDays * Day \in Int
  BY SchedulingAssumption DEF SchedulingAssumption
<1>8. /\ u \in Int /\ run.at <= u /\ u <= run.at + HorizonDays * Day
      /\ \A v \in u - Day..u + Day :
           LocalTime(zone, v) = LocalTime(zone, u) => run.at <= v /\ v <= run.at + HorizonDays * Day
  BY <1>5, <1>7 DEF Window, SameTime
<1>9. PICK d \in dates : At(zone, d, r.slot) \in u - Day..u + Day
                         /\ LocalTime(zone, At(zone, d, r.slot)) = LocalTime(zone, u)
  <2> HIDE DEF r
  <2>1. Daily(r.rule) /\ LocalTime(zone, u) % Day = r.slot BY DEF r
  <2> QED BY <1>5, <1>6, <1>8, <2>1, DateIsGiven
<1> DEFINE o == [template |-> t, date |-> d, slot |-> r.slot, at |-> At(zone, d, r.slot)]
<1>10. o \in Dated(t, zone, r.slot, dates)
  <2> HIDE DEF r, dates
  <2> QED BY DEF Dated
<1>11. o.template = t /\ o.at \in SameTime(u) BY <1>9 DEF SameTime
<1>12. Insert(Dated(t, zone, r.slot, dates)) BY <1>3, <1>4
<1> HIDE DEF o, r, dates
<1>13. o \in occ' \/ \E p \in occ' : p.template = o.template /\ p.at = o.at
  BY <1>10, <1>12 DEF Insert
<1> QED BY <1>11, <1>13

(* Once a run has expanded a daily template, every time up to the horizon at   *)
(* which the child's clock shows what was asked has an occurrence.             *)
THEOREM HorizonIsCovered == Spec => HorizonCovered
<1>1. SchedulingInv /\ [Next]_vars => [\A t \in Template : DaysCovered(t)]_vars
  BY StepCovers
<1> QED BY <1>1, SchedulingInvariant, PTL DEF Spec, HorizonCovered
=============================================================================
