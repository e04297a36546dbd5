------------------------------ MODULE Schedule ------------------------------
(***************************************************************************)
(* Source.fromSchedule (packages/anabranch/source/source.ts) and the cron  *)
(* expressions it follows (source/cron.ts): the source looks for the next  *)
(* instant of the schedule, sleeps until then and gives a tick out, and    *)
(* looks again when the consumer has handled it.                           *)
(*                                                                         *)
(* An instant is a number of seconds.  The fields of a calendar are counted*)
(* as in the code, with fewer values each, and its months are all as long. *)
(* A part of a field is a record; the text it is parsed from is left out.  *)
(***************************************************************************)
EXTENDS Integers, Sequences, FiniteSets

CONSTANTS Second, Minute, Hour, Date, Month, Weekday,  \* how many values each has
          Expressions,  \* cron expressions, as records of fields
          Horizon,      \* how far the search goes, "4 years"
          MaxDelay,     \* the longest delay that a timer can have, 2^31 - 1 ms
          MaxTime       \* bound of the clock

VARIABLES now,
          cron,     \* the expression
          source,   \* "none", "ready" (pulled), "sleeping", "handling", "over"
          tick,     \* of the schedule: [scheduledAt, index]
          asked,    \* history: when the source looked for the tick
          timer,    \* when the timer fires
          aborted,  \* the signal
          last      \* history: the tick before

vars == <<now, cron, source, tick, asked, timer, aborted, last>>

-----------------------------------------------------------------------------
(* The calendar. *)

PerMinute == Second
PerHour == Minute * PerMinute
PerDay == Hour * PerHour
PerMonth == Date * PerDay

second(t) == t % Second
minute(t) == (t \div PerMinute) % Minute
hour(t) == (t \div PerHour) % Hour
date(t) == ((t \div PerDay) % Date) + 1
month(t) == ((t \div PerMonth) % Month) + 1
weekday(t) == (t \div PerDay) % Weekday

\* The first instant of the unit that comes after the one t is in.
Following(unit, t) == ((t \div unit) + 1) * unit

-----------------------------------------------------------------------------
(* Cron expressions. *)

\* "*", "N", "N-M", "N/S" and "N-M/S"; "*/S" is "min/S".  A field is a set of parts.
Values(p, min, max) ==
    CASE p.kind = "all" -> min..max
      [] p.kind = "one" -> {p.from}
      [] p.kind = "range" -> p.from..p.to
      [] p.kind = "step" -> {i \in p.from..max : (i - p.from) % p.step = 0}
      [] p.kind = "range step" -> {i \in p.from..p.to : (i - p.from) % p.step = 0}

parseField(parts, min, max) == UNION {Values(p, min, max) : p \in parts}

\* The values of each field; an expression of five fields is at second 0.
Sets(expression) ==
    [second |-> IF expression.second = {} THEN {0} ELSE parseField(expression.second, 0, Second - 1),
     minute |-> parseField(expression.minute, 0, Minute - 1),
     hour |-> parseField(expression.hour, 0, Hour - 1),
     dom |-> parseField(expression.dom, 1, Date),
     month |-> parseField(expression.month, 1, Month),
     dow |-> parseField(expression.dow, 0, Weekday - 1)]

NoTick == -1

\* Fault: a new month begins at the hour at which the search stands.
_nextCronTick_KeepsHour(expression, from) ==
    LET sets == Sets(expression)
        search[next \in 0..from + Horizon + 2 * PerMonth] ==
            IF next >= from + Horizon THEN NoTick
            ELSE IF month(next) \notin sets.month THEN search[Following(PerMonth, next) + (next % PerDay)]
            ELSE IF date(next) \notin sets.dom \/ weekday(next) \notin sets.dow
                 THEN search[Following(PerDay, next)]
            ELSE IF hour(next) \notin sets.hour THEN search[Following(PerHour, next)]
            ELSE IF minute(next) \notin sets.minute THEN search[Following(PerMinute, next)]
            ELSE IF second(next) \notin sets.second THEN search[next + 1]
            ELSE next
    IN search[IF expression.second = {} THEN Following(PerMinute, from) ELSE from + 1]

\* The search: from the first instant after the given one that the expression can tell
\* from it, past the unit that does not match, the largest first.
_nextCronTick(expression, from) ==
    LET sets == Sets(expression)
        search[next \in 0..from + Horizon + PerMonth] ==
            IF next >= from + Horizon THEN NoTick
            ELSE IF month(next) \notin sets.month THEN search[Following(PerMonth, next)]
            ELSE IF date(next) \notin sets.dom \/ weekday(next) \notin sets.dow
                 THEN search[Following(PerDay, next)]
            ELSE IF hour(next) \notin sets.hour THEN search[Following(PerHour, next)]
            ELSE IF minute(next) \notin sets.minute THEN search[Following(PerMinute, next)]
            ELSE IF second(next) \notin sets.second THEN search[next + 1]
            ELSE next
    IN search[IF expression.second = {} THEN Following(PerMinute, from) ELSE from + 1]

-----------------------------------------------------------------------------
(* The source. *)

First == [scheduledAt |-> NoTick, index |-> -1]

Init == /\ now = 0 /\ cron = <<>> /\ source = "none" /\ tick = First /\ last = First
        /\ asked = 0 /\ timer = 0 /\ aborted = FALSE

\* A timer that is set for longer than it can count fires early, at once or at some
\* other time: the runtimes differ.
setTimeout(delay) == IF delay <= MaxDelay THEN {now + delay} ELSE now..now + MaxDelay

fromSchedule == /\ source = "none"
                /\ cron' \in Expressions /\ source' = "ready"
                /\ UNCHANGED <<now, tick, asked, timer, aborted, last>>

\* The loop of the source, up to its sleep.  A schedule without an instant throws, and
\* that ends the source.
Sleeps ==
    /\ source = "ready" /\ ~aborted
    /\ LET next == _nextCronTick(cron, now) IN
       IF next = NoTick THEN source' = "over" /\ UNCHANGED <<tick, asked, timer, last>>
       ELSE /\ source' = "sleeping" /\ timer' \in setTimeout(next - now)
            /\ tick' = [scheduledAt |-> next, index |-> tick.index + 1]
            /\ last' = tick /\ asked' = now
    /\ UNCHANGED <<now, cron, aborted>>

Stops == /\ source = "ready" /\ aborted /\ source' = "over"
         /\ UNCHANGED <<now, cron, tick, asked, timer, aborted, last>>

\* The timer fires at its time or later, and the tick is given out.
Yields == /\ source = "sleeping" /\ now >= timer /\ source' = "handling"
          /\ UNCHANGED <<now, cron, tick, asked, timer, aborted, last>>

\* The consumer asks for the next tick, or leaves the loop.
Handled == /\ source = "handling" /\ source' \in {"ready", "over"}
           /\ UNCHANGED <<now, cron, tick, asked, timer, aborted, last>>

\* The signal ends the sleep.
Abort == /\ source # "none" /\ ~aborted /\ aborted' = TRUE
         /\ source' = IF source = "sleeping" THEN "over" ELSE source
         /\ UNCHANGED <<now, cron, tick, asked, timer, last>>

Passes == /\ now < MaxTime /\ now' = now + 1
          /\ UNCHANGED <<cron, source, tick, asked, timer, aborted, last>>

Next == fromSchedule \/ Sleeps \/ Stops \/ Yields \/ Handled \/ Abort \/ Passes

Spec == Init /\ [][Next]_vars

-----------------------------------------------------------------------------
(* Properties. *)

TypeOK == /\ now \in 0..MaxTime
          /\ source \in {"none", "ready", "sleeping", "handling", "over"}
          /\ tick.index \in -1..MaxTime /\ aborted \in BOOLEAN

\* What a cron expression means, field by field.
Matches(t) == LET sets == Sets(cron) IN
    /\ second(t) \in sets.second /\ minute(t) \in sets.minute /\ hour(t) \in sets.hour
    /\ date(t) \in sets.dom /\ month(t) \in sets.month /\ weekday(t) \in sets.dow

\* A tick is for the first instant of the schedule after the source looked for it: the
\* search neither misses one nor stops at one that is none.  The source ends by itself
\* only if there is none within its horizon.
TicksFollowTheSchedule ==
    /\ source \in {"sleeping", "handling"} =>
           /\ Matches(tick.scheduledAt) /\ tick.scheduledAt > asked
           /\ \A t \in asked + 1..tick.scheduledAt - 1 : ~Matches(t)
    /\ tick.index >= 1 => tick.scheduledAt > last.scheduledAt

\* packages/anabranch/source/source.ts:131, "yields a Tick on each cron schedule match":
\* a tick is not given out before the instant it is for.
TicksAreNotEarly == source = "handling" => now >= tick.scheduledAt

=============================================================================
