---------------------------- MODULE BusinessTime ----------------------------
(***************************************************************************)
(* The arithmetic of business time in services/enterprise_sla.py.  Time is *)
(* counted in ticks, several to a minute, because instants come with their *)
(* seconds and the code rounds what it measures down to minutes, interval  *)
(* by interval.  A calendar gives the working hours of every day: those of *)
(* the weekday, or those of an exception (none for a holiday).             *)
(***************************************************************************)
EXTENDS Integers, Sequences, FiniteSetsExt

CONSTANTS
  Minute,     \* ticks in a minute
  Day,        \* ticks in a day
  AllHours    \* no calendar: all time counts

ASSUME TimeAssumption == Minute \in Nat \ {0} /\ Day \in Nat \ {0} /\ Day % Minute = 0

\* What validate_intervals accepts: intervals of whole minutes, in order and apart.
IntervalsValid(hours) ==
  /\ hours \in Seq(Nat \X Nat)
  /\ \A i \in DOMAIN hours :
       /\ hours[i][1] < hours[i][2] /\ hours[i][2] <= Day
       /\ hours[i][1] % Minute = 0 /\ hours[i][2] % Minute = 0
  /\ \A i, j \in DOMAIN hours : i < j => hours[i][2] <= hours[j][1]

\* A calendar on which every duration has an end: some weekday is worked, and there
\* are finitely many exceptions.  On others the code raises an error in the end.
Regular(calendar) ==
  /\ \A d \in 0..6 : IntervalsValid(calendar.weekly[d])
  /\ \E d \in 0..6 : calendar.weekly[d] # <<>>
  /\ DOMAIN calendar.exceptions \subseteq Nat /\ IsFiniteSet(DOMAIN calendar.exceptions)
  /\ \A day \in DOMAIN calendar.exceptions : IntervalsValid(calendar.exceptions[day])

\* The working intervals of a day, an exception or a weekday's.
Hours(calendar, day) ==
  IF day \in DOMAIN calendar.exceptions THEN calendar.exceptions[day]
  ELSE calendar.weekly[day % 7]

Opens(calendar, day, i) == day * Day + Hours(calendar, day)[i][1]
Closes(calendar, day, i) == day * Day + Hours(calendar, day)[i][2]

\* What the code counts between two instants of one interval.
WholeMinutes(from, to) == IF from < to THEN (to - from) \div Minute ELSE 0

\* How far the search for an end has come: an interval of a day, and the minutes
\* that are left to find.
Places == [day : Nat, slot : Nat \ {0}, left : Nat]

EffectiveStart(calendar, start, p) == Max({start, Opens(calendar, p.day, p.slot)})

Available(calendar, start, p) ==
  WholeMinutes(EffectiveStart(calendar, start, p), Closes(calendar, p.day, p.slot))

\* The end lies in this interval.
EndsHere(calendar, start, p) ==
  p.slot <= Len(Hours(calendar, p.day)) /\ Available(calendar, start, p) >= p.left

\* The next interval, or the next day.
Onward(calendar, start, p) ==
  IF p.slot <= Len(Hours(calendar, p.day))
  THEN [p EXCEPT !.slot = @ + 1, !.left = @ - Available(calendar, start, p)]
  ELSE [p EXCEPT !.slot = 1, !.day = @ + 1]

\* The instant at which that many business minutes are over.
AddBusinessMinutes(calendar, start, minutes) ==
  LET Fill[p \in Places] ==
        IF EndsHere(calendar, start, p) THEN EffectiveStart(calendar, start, p) + p.left * Minute
        ELSE Fill[Onward(calendar, start, p)]
  IN  IF minutes = 0 THEN start
      ELSE IF calendar = AllHours THEN start + minutes * Minute
      ELSE Fill[[day |-> start \div Day, slot |-> 1, left |-> minutes]]

\* The business minutes of an interval, of a day, and between two instants.
SlotMinutes(calendar, start, end, day, i) ==
  WholeMinutes(Max({start, Opens(calendar, day, i)}), Min({end, Closes(calendar, day, i)}))

DayMinutes(calendar, start, end, day) ==
  MapThenSumSet(LAMBDA i : SlotMinutes(calendar, start, end, day, i), DOMAIN Hours(calendar, day))

BusinessMinutesBetween(calendar, start, end) ==
  IF end <= start THEN 0
  ELSE IF calendar = AllHours THEN WholeMinutes(start, end)
  ELSE MapThenSumSet(LAMBDA day : DayMinutes(calendar, start, end, day),
                     (start \div Day) .. (end \div Day))

\* The reference: a tick counts if it lies in working hours.
Works(calendar, tick) ==
  \/ calendar = AllHours
  \/ \E i \in DOMAIN Hours(calendar, tick \div Day) :
       Opens(calendar, tick \div Day, i) <= tick /\ tick < Closes(calendar, tick \div Day, i)

WorkingTicks(calendar, start, end) ==
  Cardinality({tick \in start .. end - 1 : Works(calendar, tick)})

\* The deadline for some minutes grants at least these, and exactly these when
\* they begin on a whole minute.
Grants(calendar, start, minutes) ==
  LET end == AddBusinessMinutes(calendar, start, minutes)
      granted == WorkingTicks(calendar, start, end)
  IN  /\ end \in Nat /\ end >= start
      /\ granted >= Minute * minutes
      /\ start % Minute = 0 => granted = Minute * minutes

\* What is measured is not more than the working time, and exactly that between
\* whole minutes.
Measures(calendar, start, end) ==
  LET measured == BusinessMinutesBetween(calendar, start, end)
      worked == WorkingTicks(calendar, start, end)
  IN  /\ measured \in Nat /\ Minute * measured <= worked
      /\ start % Minute = 0 /\ end % Minute = 0 => Minute * measured = worked

=============================================================================
