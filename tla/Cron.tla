-------------------------------- MODULE Cron --------------------------------
(***************************************************************************)
(* Cron expressions (src/src/scheduler/cron.go): how an expression is      *)
(* parsed, which seconds it matches, and the loop that looks for the next  *)
(* of them.  The loop is one step a turn, because it need not end.         *)
(*                                                                         *)
(* The calendar is Go's package time: the fields of each second in a time  *)
(* zone, and where the loop's calls of Date and AddDate take it.  Module   *)
(* Calendar computes them; the proofs hold for any calendar at all.  Not   *)
(* every jump is right: where summer time skips midnight (Cairo, Beirut),  *)
(* AddDate goes from 01:00 of that day to 01:00 of the next, and where it  *)
(* moves clocks by half an hour (Lord Howe) an hour later is not the next  *)
(* full hour.  EvenTurn tells such jumps from the others.                  *)
(***************************************************************************)
EXTENDS Integers, FiniteSets

CONSTANTS
  Zones,       \* time zones
  Horizon,     \* bound: the last second
  Civil,       \* Civil[z][t]: the fields of second t
  NextMonth,   \* [z][t]: the first of t's month at midnight, AddDate(0, 1, 0)
  NextDay,     \* [z][t]: midnight of t's day, AddDate(0, 0, 1)
  NextHour,    \* [z][t]: the hour of t, Add(time.Hour)
  NextMinute,  \* [z][t]: t.Truncate(time.Minute).Add(time.Minute)
  MaxYears,    \* how many years the loop looks ahead
  FieldRange   \* the least and the greatest value of each field

Seconds == 0 .. Horizon

CronAssumption ==
  /\ Horizon \in Nat /\ MaxYears \in Nat
  /\ Civil \in [Zones -> [Seconds -> [year : Int, month : Int, dom : Int, dow : Int,
                                      hour : Int, minute : Int, second : Int]]]
  /\ {NextMonth, NextDay, NextHour, NextMinute} \subseteq [Zones -> [Seconds -> Seconds]]

ASSUME CalendarIsSane == CronAssumption

----------------------------------------------------------------------------
(***************************************************************************)
(* parseField and parseCron.  A field is a comma list of parts; a part is  *)
(* "*" (any) or a range, with a step.                                      *)
(***************************************************************************)
Low(f, part) == IF part.any THEN FieldRange[f][1] ELSE part.lo

High(f, part) == IF part.any THEN FieldRange[f][2] ELSE part.hi

Accepted(f, part) ==
  /\ part.step > 0
  /\ FieldRange[f][1] <= Low(f, part)
  /\ Low(f, part) <= High(f, part)
  /\ High(f, part) <= FieldRange[f][2]

Mask(f, parts) ==
  UNION {{v \in Low(f, part) .. High(f, part) : (v - Low(f, part)) % part.step = 0} :
           part \in parts}

\* "*" anywhere in the list; a "*/n" is a restriction.
Star(parts) == \E part \in parts : part.any /\ part.step = 1

Valid(e) == \A f \in DOMAIN FieldRange : e[f] # {} /\ \A part \in e[f] : Accepted(f, part)

\* The last weekday is Sunday once more.
Weekdays(mask) ==
  LET sunday == FieldRange.dow[2]
  IN IF sunday \in mask THEN (mask \ {sunday}) \cup {0} ELSE mask

parseCron(e) ==
  [second |-> Mask("second", e.second), minute |-> Mask("minute", e.minute),
   hour |-> Mask("hour", e.hour), dom |-> Mask("dom", e.dom),
   month |-> Mask("month", e.month), dow |-> Weekdays(Mask("dow", e.dow)),
   domStar |-> Star(e.dom), dowStar |-> Star(e.dow)]

----------------------------------------------------------------------------
\* When both day fields are restricted, either is enough.
dayMatch(c, fields) ==
  LET dom == fields.dom \in c.dom
      dow == fields.dow \in c.dow
  IN IF ~c.domStar /\ ~c.dowStar THEN dom \/ dow ELSE dom /\ dow

match(c, z, t) ==
  LET fields == Civil[z][t]
  IN /\ fields.second \in c.second
     /\ fields.minute \in c.minute
     /\ fields.hour \in c.hour
     /\ fields.month \in c.month
     /\ dayMatch(c, fields)

\* Mutant: the second that was asked from is a candidate itself.
FirstCandidateInclusive(from) == from

FirstCandidate(from) == from + 1

\* "t.Year() > yearLimit"
TooFar(z, from, t) == Civil[z][t].year > Civil[z][FirstCandidate(from)].year + MaxYears

\* A turn of the loop from a second that does not match: where it goes, and the
\* fields whose values it is meant to be done with.
Turn(c, z, t) ==
  LET fields == Civil[z][t]
  IN IF fields.month \notin c.month THEN [to |-> NextMonth[z][t], past |-> {"month"}]
     ELSE IF ~dayMatch(c, fields) THEN [to |-> NextDay[z][t], past |-> {"dom", "dow"}]
     ELSE IF fields.hour \notin c.hour THEN [to |-> NextHour[z][t], past |-> {"hour"}]
     ELSE IF fields.minute \notin c.minute THEN [to |-> NextMinute[z][t], past |-> {"minute"}]
     ELSE [to |-> t + 1, past |-> {}]

\* The turn passes only seconds on which those fields are what they are on t; if
\* it goes back, that holds of the seconds it goes back over.
EvenTurn(c, z, t) ==
  LET turn == Turn(c, z, t)
  IN \A u \in (t .. turn.to - 1) \cup (turn.to .. t), f \in turn.past :
       Civil[z][u][f] = Civil[z][t][f]
============================================================================
