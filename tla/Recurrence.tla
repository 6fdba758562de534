------------------------------ MODULE Recurrence ------------------------------
(***************************************************************************)
(* The recurrence rules of items: static/js/recurrence.js, and what it is  *)
(* the port of, internal/recurrence/recurrence.go.  A date is the number   *)
(* of its day in the Gregorian calendar (1 January of year 1, a Monday, is *)
(* day 1), so that dates compare as their YYYY-MM-DD strings do.           *)
(***************************************************************************)
EXTENDS Integers, Sequences, FiniteSets

CONSTANTS
    NoRule,         \* what is not a rule; also an item that does not recur
    NoDate,         \* an absent date; the number of no day
    Calendar,       \* bound: the days dates are taken from
    MaxSteps        \* bound: maxCatchUpSteps, 3660 in the code

ASSUME RecurrenceAssumption == NoDate \in Int /\ NoDate <= 0 /\ Calendar \subseteq Nat \ {0} /\ MaxSteps \in Nat

FREQS == {"DAILY", "WEEKLY", "MONTHLY", "YEARLY"}
MAX_INTERVAL == 999
WEEKDAYS == 0 .. 6

Lesser(a, b) == IF a <= b THEN a ELSE b
Least(S) == CHOOSE x \in S : \A y \in S : x <= y

-----------------------------------------------------------------------------
(* The calendar of Date and time.Time *)

Leap(y) == (y % 4 = 0) /\ ((y % 100 # 0) \/ (y % 400 = 0))
DaysBeforeYear(y) == 365 * (y - 1) + ((y - 1) \div 4) - ((y - 1) \div 100) + ((y - 1) \div 400)
DaysBeforeMonth(y, m) ==
    <<0, 31, 59, 90, 120, 151, 181, 212, 243, 273, 304, 334>>[m] + (IF m > 2 /\ Leap(y) THEN 1 ELSE 0)

\* Date.UTC(y, month, day): months are counted from 0 and may lie outside the year, and the
\* day before the first is the last of the month before.
UTC(y, month, day) ==
    LET year == y + (month \div 12)
    IN DaysBeforeYear(year) + DaysBeforeMonth(year, (month % 12) + 1) + day
YearOf(n) ==
    CHOOSE y \in (n \div 366) .. ((n \div 365) + 1) : DaysBeforeYear(y) < n /\ n <= DaysBeforeYear(y + 1)
Civil ==
    [n \in Calendar |->
        LET y == YearOf(n)
            month == Cardinality({m \in 2 .. 12 : DaysBeforeYear(y) + DaysBeforeMonth(y, m) < n})
        IN [year |-> y, month |-> month, day |-> n - UTC(y, month, 0)]]
Year(n) == Civil[n].year
Month(n) == Civil[n].month
Day(n) == Civil[n].day
MonthNumber(n) == 12 * Year(n) + Month(n)
DaysOf(month) == UTC(0, month, 1) .. UTC(0, month + 1, 0)
LastDay(month) == UTC(0, month + 1, 0) - UTC(0, month, 0)

isoIndex(n) == (n - 1) % 7

-----------------------------------------------------------------------------
(* Spellings: a rule is written as one word, as EVERY_X_DAYS:<n> or         *)
(* EVERY_X_MONTHS:<n>, or as parts                                          *)

Bare(freq) == [form |-> "bare", freq |-> freq]
Every(unit, n) == [form |-> unit, n |-> n]
Parts(ps) == [form |-> "parts", parts |-> ps]
Part(key, value) == [key |-> key, value |-> value]
Rule(freq, interval, byDay) == [freq |-> freq, interval |-> interval, byDay |-> byDay]
\* What a rule may be.
Rules ==
    {rule \in [freq : FREQS, interval : 1 .. MAX_INTERVAL, byDay : SUBSET WEEKDAYS] :
        rule.byDay # {} => rule.freq = "WEEKLY"}

\* What may be parsed: a frequency that is known, a number without a leading 0, or any parts.
Spelled(raw) ==
    \/ raw.form = "bare" /\ raw.freq \in FREQS
    \/ raw.form \in {"DAYS", "MONTHS"} /\ raw.n \in Nat \ {0}
    \/ raw.form = "parts"

PartOk(part) ==
    CASE part.key = "FREQ" -> part.value \in FREQS
      [] part.key = "INTERVAL" -> part.value \in 1 .. MAX_INTERVAL
      [] part.key = "BYDAY" -> \A i \in DOMAIN part.value : part.value[i] \in WEEKDAYS
      [] OTHER -> FALSE

\* The value of a key among parts with distinct keys.
ValueOf(ps, key, default) ==
    IF \E i \in DOMAIN ps : ps[i].key = key
    THEN ps[CHOOSE i \in DOMAIN ps : ps[i].key = key].value ELSE default

\* The rule the parts spell, or NoRule.
ParseParts(ps) ==
    LET days == ValueOf(ps, "BYDAY", <<>>)
        rule == Rule(ValueOf(ps, "FREQ", NoRule), ValueOf(ps, "INTERVAL", 1),
                     {days[i] : i \in DOMAIN days})
    IN IF /\ \A i, j \in DOMAIN ps : i # j => ps[i].key # ps[j].key
          /\ \A i \in DOMAIN ps : PartOk(ps[i])
          /\ \E i \in DOMAIN ps : ps[i].key = "FREQ"
          /\ rule.byDay # {} => rule.freq = "WEEKLY"
       THEN rule ELSE NoRule

\* Every n days or months; a whole number of weeks reads as weeks.
ParseEvery(unit, n) ==
    IF n > MAX_INTERVAL THEN NoRule
    ELSE IF unit = "MONTHS" THEN Rule("MONTHLY", n, {})
    ELSE IF n % 7 = 0 THEN Rule("WEEKLY", n \div 7, {}) ELSE Rule("DAILY", n, {})

parseRule(raw) ==
    IF raw = NoRule THEN NoRule
    ELSE CASE raw.form = "bare" -> Rule(raw.freq, 1, {})
           [] raw.form = "parts" -> ParseParts(raw.parts)
           [] OTHER -> ParseEvery(raw.form, raw.n)

\* The days of a rule, Monday first.
Sorted(days) ==
    [i \in 1 .. Cardinality(days) |-> CHOOSE d \in days : Cardinality({e \in days : e < d}) = i - 1]

formatRule(rule) ==
    Parts(<<Part("FREQ", rule.freq)>>
          \o (IF rule.interval > 1 THEN <<Part("INTERVAL", rule.interval)>> ELSE <<>>)
          \o (IF rule.freq = "WEEKLY" /\ rule.byDay # {} THEN <<Part("BYDAY", Sorted(rule.byDay))>>
              ELSE <<>>))

\* What is not a rule is not one, nor what one is written as.
ASSUME NoRuleAssumption == \A rule \in Rules : NoRule \notin {rule, formatRule(rule)}

normalizeRule(raw) == IF parseRule(raw) = NoRule THEN NoRule ELSE formatRule(parseRule(raw))

-----------------------------------------------------------------------------
(* Stepping *)

addMonthsClamped(date, months) ==
    LET first == UTC(Year(date), Month(date) + months, 1)
        lastDay == Day(UTC(Year(first), Month(first) + 1, 0))
    IN UTC(Year(first), Month(first), Lesser(Day(date), lastDay))

\* The first occurrence strictly after a date, for the page and the service worker.
occurrenceAfter(date, rule) ==
    LET later == {d \in rule.byDay : d > isoIndex(date)}
    IN CASE rule.freq = "DAILY" -> date + rule.interval
         [] rule.freq = "WEEKLY" ->
              IF rule.byDay = {} THEN date + 7 * rule.interval
              ELSE IF later # {} THEN date + Least(later) - isoIndex(date)
              ELSE date + 7 * rule.interval - isoIndex(date) + Least(rule.byDay)
         [] rule.freq = "MONTHLY" -> addMonthsClamped(date, rule.interval)
         [] OTHER -> addMonthsClamped(date, 12 * rule.interval)

\* Mutant: the week after, whatever the interval.
After_EveryWeek(date, rule) ==
    LET later == {d \in rule.byDay : d > isoIndex(date)}
        weekStart == date - isoIndex(date)
    IN CASE rule.freq = "DAILY" -> date + rule.interval
         [] rule.freq = "WEEKLY" ->
              IF rule.byDay = {} THEN date + 7 * rule.interval
              ELSE weekStart + IF later # {} THEN Least(later) ELSE 7 + Least(rule.byDay)
         [] OTHER -> addMonthsClamped(date, (IF rule.freq = "YEARLY" THEN 12 ELSE 1) * rule.interval)
\* The same on the server, which goes back to the Monday of the week first.
After(date, rule) ==
    LET later == {d \in rule.byDay : d > isoIndex(date)}
        weekStart == date - isoIndex(date)
    IN CASE rule.freq = "DAILY" -> date + rule.interval
         [] rule.freq = "WEEKLY" ->
              IF rule.byDay = {} THEN date + 7 * rule.interval
              ELSE weekStart + IF later # {} THEN Least(later) ELSE 7 * rule.interval + Least(rule.byDay)
         [] OTHER -> addMonthsClamped(date, (IF rule.freq = "YEARLY" THEN 12 ELSE 1) * rule.interval)

\* Stepping with `after` from a date, once and then until it is past today: the i-th step.
CatchUp(after(_, _), from, rule, today) ==
    LET step[i \in 0 .. MaxSteps] ==
          IF i = 0 THEN after(from, rule)
          ELSE LET next == step[i - 1] IN IF next <= today THEN after(next, rule) ELSE next
    IN step[MaxSteps]

\* The occurrence after `from`, the completed one (or today, when it has no date), that
\* falls after today: nextOccurrence of the page, and Rule.Next of the server.
nextOccurrence(from, raw, today) ==
    IF parseRule(raw) = NoRule THEN NoDate
    ELSE CatchUp(occurrenceAfter, IF from = NoDate THEN today ELSE from, parseRule(raw), today)
RuleNext(from, rule, today) == CatchUp(After, IF from = NoDate THEN today ELSE from, rule, today)

firstOccurrenceOnOrAfter(start, rule) ==
    IF rule.freq # "WEEKLY" \/ rule.byDay = {} THEN start
    ELSE start + Least({offset \in 0 .. 6 : isoIndex(start + offset) \in rule.byDay})

-----------------------------------------------------------------------------
(* What the rules mean, without stepping *)

\* The months of a MONTHLY or YEARLY rule from the one of `from` on.
MonthsOf(rule) == (IF rule.freq = "YEARLY" THEN 12 ELSE 1) * rule.interval

\* No occurrence is further than this from the one before.
Period(rule) ==
    CASE rule.freq = "DAILY" -> rule.interval
      [] rule.freq = "WEEKLY" -> 7 * (rule.interval + 1)
      [] OTHER -> 31 * MonthsOf(rule)

\* Is `date`, after `from`, an occurrence of the series that goes through `from`?  A weekly
\* rule counts its weeks from the Monday of `from`; a monthly one whose day a month lacks
\* falls on the last day of it, and on that day of the month from then on.
Falls(rule, from, date) ==
    CASE rule.freq = "DAILY" -> (date - from) % rule.interval = 0
      [] rule.freq = "WEEKLY" ->
            IF rule.byDay = {} THEN (date - from) % (7 * rule.interval) = 0
            ELSE /\ isoIndex(date) \in rule.byDay
                 /\ (((date - 1) \div 7) - ((from - 1) \div 7)) % rule.interval = 0
      [] OTHER ->
            LET elapsed == MonthNumber(date) - MonthNumber(from)
                passed == {m \in 1 .. elapsed : m % MonthsOf(rule) = 0}
            IN /\ elapsed > 0 /\ elapsed % MonthsOf(rule) = 0
               /\ Day(date) = Least({Day(from)} \cup {LastDay(MonthNumber(from) + m) : m \in passed})
=============================================================================
