------------------------------ MODULE Scheduling ------------------------------
(***************************************************************************)
(* From mission templates to occurrences in the child's timezone: the      *)
(* API's createTemplate and updateTemplate (missions.service.ts), the      *)
(* worker's expand-occurrences job (scheduling.ts) and the calendar they   *)
(* share (packages/shared/src/index.ts).                                   *)
(*                                                                         *)
(* Time is counted in ticks, Day of them a day, for both UTC and the local *)
(* clock; a local time is a number too, that of Date.UTC of its parts.     *)
(* What becomes of an occurrence is in MissionLifecycle.                   *)
(***************************************************************************)
EXTENDS Integers, FiniteSets

CONSTANTS
  Template,      (* rows of mission_templates                                *)
  Zones,         (* the child's timezone is one of these                     *)
  Day,           (* ticks in a day                                           *)
  HorizonDays,   (* horizonDays                                              *)
  Slots,         (* the times of day that are asked for, or Untimely         *)
  Rules,         (* the recurrence rules that are asked for                  *)
  Start,         (* when the behaviour begins                                *)
  MaxTime,       (* bound: the clock stops here                              *)
  MaxUpdates,    (* bound: calls of updateTemplate                           *)
  MaxFaults      (* bound: requests and runs cut short                       *)

VARIABLES
  now,
  zone,          (* ChildProfile.timezone                                    *)
  row,           (* scheduledTime and recurrenceRule of each template        *)
  asked,         (* the contents each template has had                       *)
  body,          (* the requests between the template and its occurrence     *)
  occ,           (* rows of mission_occurrences, with the local day and time *)
                 (* each was made for                                        *)
  run,           (* the run of expandOccurrences that is under way           *)
  queued,        (* the occurrences whose notify-occurrence job was added    *)
  updates, faults

vars == <<now, zone, row, asked, body, occ, run, queued, updates, faults>>

Untimely == -1        \* 9:00, 25:00: a chat draft may ask for such a time
None == [slot |-> Untimely, rule |-> "none"]
Rule == {"daily", "freq=daily", "once", "weekly"}
Row == [slot: (0..(Day - 1)) \cup {Untimely}, rule: Rule]

(* A zone has one change of its offset, that from or to summer time.          *)
Zone == [before: Int, after: Int, change: Int]

ASSUME SchedulingAssumption ==
  /\ Day \in Nat \ {0} /\ HorizonDays \in Nat
  /\ \A z \in Zones : z \in Zone /\ z.after - z.before \in -Day..Day
  /\ Slots \subseteq (0..(Day - 1)) \cup {Untimely}
  /\ Rules \subseteq Rule
  /\ Start \in Int /\ MaxTime \in Int /\ MaxUpdates \in Nat /\ MaxFaults \in Nat

(***************************************************************************)
(* The calendar.                                                           *)
(***************************************************************************)
Offset(z, utc) == IF utc < z.change THEN z.before ELSE z.after
LocalTime(z, utc) == utc + Offset(z, utc)
LocalDate(z, utc) == LocalTime(z, utc) \div Day

(* zonedDateTimeToUtc: start from the local time taken as UTC and correct the *)
(* difference, three times at most; a difference of 0 changes nothing.        *)
Correct(z, wall, utc) == utc + (wall - LocalTime(z, utc))
ToUtcOnce(z, wall) == Correct(z, wall, wall)   \* mutant: a single correction
ToUtc(z, wall) == Correct(z, wall, Correct(z, wall, Correct(z, wall, wall)))

At(z, date, slot) == ToUtc(z, date * Day + slot)

(* nextScheduledDateForTimezone: today if that is still to come, or tomorrow. *)
FirstDate(z, slot, t) ==
  LET today == LocalDate(z, t) IN IF At(z, today, slot) < t THEN today + 1 ELSE today

(* normalizeRecurrenceRule *)
DailyExactly(rule) == rule = "daily"   \* mutant: RRULE notation is not known
Daily(rule) == rule \in {"daily", "freq=daily"}

(* occurrenceDatesForSchedule: the dates up to the first one past the horizon. *)
InHorizonStrict(z, slot, t, date) == At(z, date, slot) < t + HorizonDays * Day   \* mutant
InHorizon(z, slot, t, date) == At(z, date, slot) <= t + HorizonDays * Day

OccurrenceDates(z, slot, rule, t) ==
  LET first == FirstDate(z, slot, t)
      today == LocalDate(z, t)
  IN IF Daily(rule)
     THEN {d \in first..first + HorizonDays + 1 : \A e \in first..d : InHorizon(z, slot, t, e)}
     ELSE {today} \cap {first}

(* The unique index on template and time; skipDuplicates passes over it.       *)
Dated(t, z, slot, dates) ==
  {[template |-> t, date |-> d, slot |-> slot, at |-> At(z, d, slot)] : d \in dates}
Insert(new) ==
  occ' = occ \cup {o \in new : \A p \in occ : p.template = o.template => p.at # o.at}

(***************************************************************************)
(* The API.                                                                *)
(***************************************************************************)
(* The template is a row of its own before its first occurrence is.           *)
CreateTemplate(t, r) ==
  /\ row[t] = None
  /\ row' = [row EXCEPT ![t] = r]
  /\ asked' = [asked EXCEPT ![t] = @ \cup {r}]
  /\ body' = [body EXCEPT ![t] = r]
  /\ UNCHANGED <<now, zone, occ, run, queued, updates, faults>>

(* mutant: the timezone is left at the default of the parameter               *)
TimezoneDefault == [before |-> 0, after |-> 0, change |-> 0]
Timezone == zone

(* createNextOccurrence: 400 on a time that does not parse, 500 if the worker *)
(* was faster; the template stays.                                            *)
CreateNextOccurrence(t) ==
  /\ body[t] # None
  /\ body' = [body EXCEPT ![t] = None]
  /\ \/ body[t].slot = Untimely /\ UNCHANGED occ
     \/ /\ body[t].slot # Untimely
        /\ Insert(Dated(t, Timezone, body[t].slot, {FirstDate(Timezone, body[t].slot, now)}))
  /\ UNCHANGED <<now, zone, row, asked, run, queued, updates, faults>>

(* The schema of the request refuses a time that does not parse, not a rule.  *)
UpdateTemplate(t, r) ==
  /\ updates < MaxUpdates
  /\ row[t] # None /\ r.slot # Untimely
  /\ row' = [row EXCEPT ![t] = r]
  /\ asked' = [asked EXCEPT ![t] = @ \cup {r}]
  /\ updates' = updates + 1
  /\ UNCHANGED <<now, zone, body, occ, run, queued, faults>>

(***************************************************************************)
(* The worker: expandOccurrences reads every template and then stores the   *)
(* occurrences of one after the other, up to one it cannot expand.          *)
(***************************************************************************)
Idle == [pc |-> "idle"]
Templates == {t \in Template : row[t] # None}
ReadTemplates ==
  /\ run = Idle
  /\ run' = [pc |-> "expand", at |-> now, rows |-> [t \in Templates |-> row[t]], todo |-> Templates]
  /\ UNCHANGED <<now, zone, row, asked, body, occ, queued, updates, faults>>

ExpandableRule(r) == Daily(r.rule) \/ r.rule = "once"   \* mutant: any time is taken
Expandable(r) == r.slot # Untimely /\ (Daily(r.rule) \/ r.rule = "once")

ExpandTemplate(t) ==
  /\ run.pc = "expand" /\ t \in run.todo
  /\ Expandable(run.rows[t])
  /\ LET r == run.rows[t]
     IN  Insert(Dated(t, zone, r.slot, OccurrenceDates(zone, r.slot, r.rule, run.at)))
  /\ run' = [run EXCEPT !.todo = @ \ {t}]
  /\ UNCHANGED <<now, zone, row, asked, body, queued, updates, faults>>

(* parseScheduledTime or normalizeRecurrenceRule throws: the job fails, and is *)
(* tried again and repeated every five minutes.                                *)
ExpansionThrows(t) ==
  /\ run.pc = "expand" /\ t \in run.todo
  /\ ~Expandable(run.rows[t])
  /\ run' = Idle
  /\ UNCHANGED <<now, zone, row, asked, body, occ, queued, updates, faults>>

(* enqueueScheduledNotifications, whose single additions are in               *)
(* MissionLifecycle.                                                          *)
Upcoming == {o \in occ : o.at <= run.at + HorizonDays * Day}
Enqueue ==
  /\ run.pc = "expand" /\ run.todo = {}
  /\ queued' = queued \cup Upcoming
  /\ run' = Idle
  /\ UNCHANGED <<now, zone, row, asked, body, occ, updates, faults>>

(* The worker dies, or one of its queries fails.                              *)
RunDies ==
  /\ faults < MaxFaults
  /\ run # Idle
  /\ \/ UNCHANGED queued
     \/ run.todo = {} /\ \E some \in SUBSET Upcoming : queued' = queued \cup some
  /\ run' = Idle
  /\ faults' = faults + 1
  /\ UNCHANGED <<now, zone, row, asked, body, occ, updates>>

RequestDies(t) ==
  /\ faults < MaxFaults
  /\ body[t] # None
  /\ body' = [body EXCEPT ![t] = None]
  /\ faults' = faults + 1
  /\ UNCHANGED <<now, zone, row, asked, occ, run, queued, updates>>

Tick ==
  /\ now < MaxTime
  /\ now' = now + 1
  /\ UNCHANGED <<zone, row, asked, body, occ, run, queued, updates, faults>>

WorkerStep ==
  ReadTemplates \/ Enqueue \/ \E t \in Template : ExpandTemplate(t) \/ ExpansionThrows(t)

Init ==
  /\ now = Start /\ zone \in Zones
  /\ row = [t \in Template |-> None]
  /\ asked = [t \in Template |-> {}]
  /\ body = [t \in Template |-> None]
  /\ occ = {} /\ run = Idle /\ queued = {}
  /\ updates = 0 /\ faults = 0

Next ==
  \/ \E t \in Template, r \in [slot: Slots, rule: Rules] : CreateTemplate(t, r) \/ UpdateTemplate(t, r)
  \/ \E t \in Template : CreateNextOccurrence(t) \/ RequestDies(t)
  \/ WorkerStep \/ RunDies
  \/ Tick

Spec == Init /\ [][Next]_vars

(* The job repeats every five minutes and the worker keeps taking jobs.       *)
FairSpec == Spec /\ WF_vars(WorkerStep)

-----------------------------------------------------------------------------
(* Types.                                                                     *)
Occ == [template: Template, date: Int, slot: 0..(Day - 1), at: Int]
TypeOK ==
  /\ now \in Int /\ zone \in Zones
  /\ row \in [Template -> Row \cup {None}]
  /\ asked \in [Template -> SUBSET Row]
  /\ body \in [Template -> Row \cup {None}]
  /\ occ \subseteq Occ /\ queued \subseteq occ
  /\ run = Idle \/ /\ run.pc = "expand" /\ run.at \in Int
                   /\ run.todo \subseteq Template
                   /\ run.rows \in [DOMAIN run.rows -> Row]
                   /\ run.todo \subseteq DOMAIN run.rows /\ DOMAIN run.rows \subseteq Template
  /\ updates \in Nat /\ faults \in Nat

(* Does the local clock ever show this time?  If so, it is at one of these.   *)
Shown(z, wall) == \E off \in {z.before, z.after} : LocalTime(z, wall - off) = wall
Gap(z) == IF z.after > z.before THEN z.after - z.before ELSE z.before - z.after

(* Every occurrence is for a time that was asked of its template, and the     *)
(* child's clock shows exactly that time when it is due; on the one day whose *)
(* clock leaps over it, it is off by the leap and no more.  Three corrections *)
(* are enough for every zone (packages/shared/src/index.ts:140).              *)
OnTime ==
  \A o \in occ :
    /\ \E r \in asked[o.template] : r.slot = o.slot
    /\ LET wall == o.date * Day + o.slot
           shown == LocalTime(zone, o.at)
       IN IF Shown(zone, wall) THEN shown = wall
          ELSE shown \in {wall - Gap(zone), wall + Gap(zone)}

(* The moments close to u at which the clock shows the same; the times a run   *)
(* looks ahead.                                                               *)
SameTime(u) == {v \in u - Day..u + Day : LocalTime(zone, v) = LocalTime(zone, u)}
Window == run.at..run.at + HorizonDays * Day

(* Once a run has expanded a daily template, the occurrences up to the horizon *)
(* are all there: whenever the child's clock shows the time that was asked,    *)
(* summer time or not, one is due.  (A time shown twice rings once.)           *)
DaysCovered(t) ==
  run # Idle /\ run' # Idle /\ t \in run.todo \ run'.todo /\ Daily(run.rows[t].rule) =>
    \A u \in Window :
      LocalTime(zone, u) % Day = run.rows[t].slot /\ SameTime(u) \subseteq Window =>
        \E o \in occ' : o.template = t /\ o.at \in SameTime(u)
HorizonCovered == [][\A t \in Template : DaysCovered(t)]_vars

(* A child is not called twice for one daily duty: while the time of a         *)
(* template stands, its occurrences are a day apart, less the leap at most,    *)
(* although the API and the worker both make them, at different moments.       *)
DaysApart ==
  \A o, p \in occ :
    o.template = p.template /\ o.slot = p.slot /\ o.at < p.at => p.at - o.at >= Day - Gap(zone)

(* Why the two hold: what a request or a run carries was asked for, and an      *)
(* occurrence is where the calendar put it, whoever made it.                    *)
SchedulingInv ==
  /\ TypeOK
  /\ \A t \in Template :
       /\ row[t] # None => row[t] \in asked[t]
       /\ body[t] # None => body[t] \in asked[t]
  /\ run # Idle => \A t \in DOMAIN run.rows : run.rows[t] \in asked[t]
  /\ \A o \in occ : /\ o.at = At(zone, o.date, o.slot)
                    /\ \E r \in asked[o.template] : r.slot = o.slot

(* docs/features/push-notifications.md:11, "Reads all mission templates,       *)
(* computes the next occurrences ..., inserts non-duplicate mission_occurrences, *)
(* and enqueues notify-occurrence jobs": a daily template has its jobs in the  *)
(* end.  One template whose time or rule cannot be read refutes it for all.    *)
Recurring(t) == row[t].rule \in {"daily", "freq=daily"}
TemplatesScheduled ==
  \A t \in Template :
    (row[t].slot # Untimely /\ Recurring(t))
      ~> (~Recurring(t) \/ \E o \in queued : o.template = t)

(* apps/worker/src/scheduling.test.ts:67, "does not create stale one-shot      *)
(* occurrences": a template that never had a recurrence has one occurrence.    *)
OneShotOnce ==
  \A t \in Template :
    (\A r \in asked[t] : r.rule = "once" /\ Cardinality(asked[t]) = 1)
      => Cardinality({o \in occ : o.template = t}) <= 1
=============================================================================
