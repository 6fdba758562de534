---------------------------- MODULE RecurringTask ----------------------------
(***************************************************************************)
(* One task of a list that recurs: PATCH requests that check it off,       *)
(* un-check it or edit it (internal/handlers/items.go), the two loops of   *)
(* the server that bring it back for its next occurrence and send its      *)
(* reminder (recurrence.go, push.go), and the sheet of the page in which   *)
(* its rule is made (static/js/recurrence-editor.js).                      *)
(*                                                                         *)
(* A PATCH reads the row, then writes it in statements of its own; a scan  *)
(* works on what it listed.  Anything may happen in between.               *)
(***************************************************************************)
EXTENDS Recurrence

CONSTANTS
    Starts,         \* bound: the rows the task may start as, their reminders [enabled, offset
                    \* (days), half (of the day)], how many requests and editings follow
    Dues, Ends,     \* bound: the dates users set
    Spellings,      \* bound: rules as users and older mirrors write them
    Start,          \* the half-day the clock starts at
    Times,          \* bound: the half-days at which something happens
    MaxFaults,      \* bound: failures and restarts
    MaxWalk,        \* bound: maxIterations of the budget, 3660 in the code
    Clients         \* requests that may be in progress at once

Dates == Calendar \cup {NoDate}
\* A row as it is created: a new item is never done.
Created(task) ==
    /\ task = [done |-> FALSE, due |-> task.due, next |-> NoDate, rule |-> task.rule, end |-> task.end]
    /\ task.due \in Dates /\ task.end \in Dates
    /\ task.rule \in {NoRule} \cup {normalizeRule(raw) : raw \in Spellings}
\* Has a row a next occurrence only if it is done, and recurs?
NextOfDone(task) == task.next # NoDate => task.done /\ task.rule # NoRule

ASSUME RecurringTaskAssumption ==
    /\ \A start \in Starts : Created(start.item)
    /\ \A raw \in Spellings : Spelled(raw)
    /\ Dues \cup Ends \subseteq Dates
    /\ \A t \in Times \cup {Start} : t \in Nat /\ t \div 2 \in Calendar
    /\ MaxFaults \in Nat /\ MaxWalk \in Nat

\* The loop that only brings tasks back, and the one that then sends reminders.
Loops == {"occurrences", "reminders"}

VARIABLES
    item,           \* the row: [done, due, next, rule, end]
    sentFor,        \* its due_reminder_sent_for
    reminder,       \* its reminder
    now,            \* half-days: morning and evening
    request,        \* by client: its PATCH, between its statements
    scan,           \* by loop: what it has listed
    editor,         \* recurrenceEditorSession, or NoRule when the sheet is closed
    ops, edits, faults

\* What happened, for the properties only.
VARIABLES
    raced,          \* a PATCH wrote over what was changed since it had read it
    broken,         \* a PATCH stopped between its statements
    pushed,         \* the date of the last reminder sent
    unmarked,       \* was that reminder sent, and not marked?
    repeated        \* a marked reminder was sent again

vars == <<item, sentFor, reminder, now, request, scan, editor, ops, edits, faults, raced, broken,
          pushed, unmarked, repeated>>
ghosts == <<raced, broken, pushed, unmarked, repeated>>

today == now \div 2
NoRequest == [pc |-> "none"]
NoScan == [pc |-> "none"]

Init ==
    /\ \E start \in Starts :
        item = start.item /\ reminder = start.reminder /\ ops = start.ops /\ edits = start.edits
    /\ sentFor = NoDate /\ now = Start
    /\ request = [c \in Clients |-> NoRequest] /\ scan = [l \in Loops |-> NoScan]
    /\ editor = NoRule /\ faults = MaxFaults
    /\ raced = FALSE /\ broken = FALSE /\ pushed = NoDate /\ unmarked = FALSE /\ repeated = FALSE

Do == ops > 0 /\ ops' = ops - 1

-----------------------------------------------------------------------------
(* The lifecycle of a recurring item, on the server and in the worker *)

Ended(task, next) == task.end # NoDate /\ next > task.end

\* The next_due_date of a row about to be written, on the server.
applyRecurrenceLifecycle(task, before, day) ==
    IF task.rule = NoRule \/ ~task.done THEN NoDate
    ELSE IF before.done /\ before.rule = task.rule /\ before.due = task.due /\ before.end = task.end
    THEN before.next
    ELSE LET next == RuleNext(task.due, parseRule(task.rule), day)
         IN IF Ended(task, next) THEN NoDate ELSE next

\* The same in the worker's mirror, whose rows may hold an older spelling of the rule.
applyRecurrenceLifecycleOffline(task, before, day) ==
    IF task.rule = NoRule \/ ~task.done THEN NoDate
    ELSE IF /\ before.done /\ normalizeRule(before.rule) = normalizeRule(task.rule)
            /\ before.due = task.due /\ before.end = task.end
    THEN before.next
    ELSE LET next == nextOccurrence(task.due, normalizeRule(task.rule), day)
         IN IF next = NoDate \/ Ended(task, next) THEN NoDate ELSE next

\* The same on the page, as soon as the task is checked off.
computeNextDueDate(task, day) ==
    IF task.rule = NoRule THEN NoDate
    ELSE LET next == nextOccurrence(task.due, task.rule, day)
         IN IF next = NoDate \/ Ended(task, next) THEN NoDate ELSE next
setItemDoneOptimistic(task, done, day) ==
    [task EXCEPT !.done = done,
                 !.next = IF task.rule # NoRule
                          THEN IF done THEN computeNextDueDate(task, day) ELSE NoDate ELSE @]
\* The date the badge of a task announces.
upcomingDueDate(task, day) ==
    IF task.rule = NoRule THEN NoDate
    ELSE IF ~task.done THEN task.due
    ELSE IF task.next # NoDate THEN task.next ELSE computeNextDueDate(task, day)

\* The occurrences from one on, while they count: up to the end of the range, and their own.
Walk(task, rangeEnd, current) ==
    LET rule == parseRule(task.rule)
        Counted(date) == date <= rangeEnd /\ ~Ended(task, date)
        walk[date \in Calendar] ==
            LET next == occurrenceAfter(date, rule)
            IN {date} \cup (IF Counted(next) THEN walk[next] ELSE {})
    IN IF Counted(current) THEN walk[current] ELSE {}
\* The first occurrences, as many as the budget goes through.
Capped(dates) == {d \in dates : Cardinality({e \in dates : e < d}) < MaxWalk}

\* Mutant: the occurrence that is done counts too.
projectRecurringOccurrences_FromDue(task, range, day) ==
    LET current == IF task.due # NoDate THEN task.due ELSE day
        dates == Capped(Walk(task, UTC(0, range[Len(range)] + 1, 0), current))
    IN [i \in DOMAIN range |->
            IF task.rule = NoRule THEN 0 ELSE Cardinality({d \in dates : MonthNumber(d) = range[i]})]
\* The occurrences the budget counts in the months of the range.
projectRecurringOccurrences(task, range, day) ==
    LET current == IF task.done THEN task.next ELSE IF task.due # NoDate THEN task.due ELSE day
        dates == Capped(IF current = NoDate THEN {}
                        ELSE Walk(task, UTC(0, range[Len(range)] + 1, 0), current))
    IN [i \in DOMAIN range |->
            IF task.rule = NoRule THEN 0 ELSE Cardinality({d \in dates : MonthNumber(d) = range[i]})]

-----------------------------------------------------------------------------
(* The custom recurrence sheet *)

Edit == edits > 0 /\ edits' = edits - 1

\* A weekly rule with no day yet starts on the weekday of the start date.
preselectStartWeekday(session) ==
    IF session.freq = "WEEKLY" /\ session.byDay = {}
    THEN [session EXCEPT !.byDay = {isoIndex(session.start)}] ELSE session

openRecurrenceEditor ==
    /\ editor = NoRule /\ Edit
    /\ LET parsed == parseRule(item.rule)
           start == IF item.due = NoDate THEN today ELSE item.due
       IN editor' = preselectStartWeekday(
            IF parsed = NoRule THEN [freq |-> "WEEKLY", interval |-> 1, byDay |-> {}, start |-> start]
            ELSE [freq |-> parsed.freq, interval |-> parsed.interval, byDay |-> parsed.byDay,
                  start |-> start])
    /\ UNCHANGED <<item, sentFor, reminder, now, request, scan, ops, faults, ghosts>>

ChangeEditor(session) ==
    /\ editor # NoRule /\ Edit /\ editor' = session
    /\ UNCHANGED <<item, sentFor, reminder, now, request, scan, ops, faults, ghosts>>

setRecurrenceEditorFreq ==
    \E freq \in FREQS : ChangeEditor(preselectStartWeekday([editor EXCEPT !.freq = freq]))
ToggleDay ==
    /\ editor # NoRule /\ editor.freq = "WEEKLY"
    /\ \E day \in WEEKDAYS :
        ChangeEditor([editor EXCEPT !.byDay = IF day \in @ THEN @ \ {day} ELSE @ \cup {day}])
\* Mutant: any number.
Clamped_Not(n) == n
\* The field takes any number: what is outside the bounds is brought back to them.
Clamped(n) == Least({MAX_INTERVAL, IF n < 1 THEN 1 ELSE n})
setRecurrenceEditorInterval ==
    /\ editor # NoRule
    /\ \E n \in {0, editor.interval + 1} : ChangeEditor([editor EXCEPT !.interval = Clamped(n)])
SetStart ==
    \E date \in Dues \ {NoDate} : ChangeEditor(preselectStartWeekday([editor EXCEPT !.start = date]))

\* The rule of the sheet, or NoRule while it is incomplete.
recurrenceEditorRule(session) ==
    IF session.freq = "WEEKLY" /\ session.byDay = {} THEN NoRule
    ELSE Rule(session.freq, session.interval, IF session.freq = "WEEKLY" THEN session.byDay ELSE {})

CloseEditor ==
    /\ editor # NoRule /\ editor' = NoRule
    /\ UNCHANGED <<item, sentFor, reminder, now, request, scan, ops, edits, faults, ghosts>>

-----------------------------------------------------------------------------
(* PATCH /items/{id} *)

\* The row as it is read, with the fields of the request and the next occurrence.
Begin(c, task) ==
    /\ request[c].pc = "none" /\ Do
    /\ request' = [request EXCEPT ![c] =
            [pc |-> "update", before |-> item, day |-> today,
             item |-> [task EXCEPT !.next = applyRecurrenceLifecycle(task, item, today)]]]
    /\ UNCHANGED <<item, sentFor, reminder, now, scan, edits, faults, ghosts>>

\* Clearing the rule clears the end date.
WithRule(task, raw) ==
    [task EXCEPT !.rule = normalizeRule(raw), !.end = IF normalizeRule(raw) = NoRule THEN NoDate ELSE @]

SetDone(c) == Begin(c, [item EXCEPT !.done = ~item.done]) /\ UNCHANGED editor
Rename(c) == Begin(c, item) /\ UNCHANGED editor
SetDue(c) == \E date \in Dues : Begin(c, [item EXCEPT !.due = date]) /\ UNCHANGED editor
SetEnd(c) == \E date \in Ends : Begin(c, [item EXCEPT !.end = date]) /\ UNCHANGED editor
\* Anything but a rule is refused.
SetRule(c) ==
    /\ \E raw \in Spellings \cup {NoRule} :
        /\ raw = NoRule \/ parseRule(raw) # NoRule
        /\ Begin(c, WithRule(item, raw))
    /\ UNCHANGED editor

\* The sheet is applied, and the form saved with its rule and its first date.
Apply(c) ==
    /\ editor # NoRule /\ recurrenceEditorRule(editor) # NoRule
    /\ LET rule == recurrenceEditorRule(editor)
       IN Begin(c, [WithRule(item, formatRule(rule)) EXCEPT
                        !.due = firstOccurrenceOnOrAfter(editor.start, rule)])
    /\ editor' = NoRule

\* Mutant: a next occurrence is set, and never cleared.
UpdateItem_OnlySet(c) ==
    LET r == request[c]
    IN /\ r.pc = "update"
       /\ item' = [r.item EXCEPT !.next = item.next]
       /\ raced' = (raced \/ item # r.before)
       /\ request' = [request EXCEPT ![c] =
            IF r.item.next # NoDate THEN [r EXCEPT !.pc = "schedule"] ELSE NoRequest]
       /\ UNCHANGED <<sentFor, reminder, now, scan, editor, ops, edits, faults, broken, pushed, unmarked, repeated>>
\* UpdateItem: every column but next_due_date, which SetItemSchedule writes if it changes.
UpdateItem(c) ==
    LET r == request[c]
    IN /\ r.pc = "update"
       /\ item' = [r.item EXCEPT !.next = item.next]
       /\ raced' = (raced \/ item # r.before)
       /\ request' = [request EXCEPT ![c] =
            IF r.item.next # r.before.next THEN [r EXCEPT !.pc = "schedule"] ELSE NoRequest]
       /\ UNCHANGED <<sentFor, reminder, now, scan, editor, ops, edits, faults, broken, pushed, unmarked, repeated>>

SetItemSchedule(c) ==
    LET r == request[c]
    IN /\ r.pc = "schedule"
       /\ item' = [item EXCEPT !.next = r.item.next]
       /\ raced' = (raced \/ item # [r.item EXCEPT !.next = r.before.next])
       /\ request' = [request EXCEPT ![c] = NoRequest]
       /\ UNCHANGED <<sentFor, reminder, now, scan, editor, ops, edits, faults, broken, pushed, unmarked, repeated>>

-----------------------------------------------------------------------------
(* The scans *)

\* When the reminder of a due date is sent: the evening before, say.
reminderMoment(due) == 2 * (due - reminder.offset) + reminder.half
\* When the next occurrence starts: with its day, or at its reminder if that is earlier.
occurrenceStart(next) == IF reminder.enabled THEN Lesser(2 * next, reminderMoment(next)) ELSE 2 * next

Goes(l, to) == scan' = [scan EXCEPT ![l] = to]
\* After RunNextOccurrenceScan, RunDueReminderScan goes on.
AfterOccurrences(l) == IF l = "reminders" THEN [pc |-> "list"] ELSE NoScan

Awaiting == item.done /\ item.next # NoDate /\ now >= occurrenceStart(item.next)
ListItemsAwaitingNextOccurrence(l) ==
    /\ scan[l].pc = "none"
    /\ Goes(l, IF Awaiting THEN [pc |-> "activate", next |-> item.next] ELSE AfterOccurrences(l))
    /\ UNCHANGED <<item, sentFor, reminder, now, request, editor, ops, edits, faults, ghosts>>

\* Mutant: compared with the wrong column.
ActivateNextOccurrence_DueDate(l) ==
    /\ scan[l].pc = "activate"
    /\ item' = IF item.done /\ item.due = scan[l].next
               THEN [item EXCEPT !.done = FALSE, !.due = item.next, !.next = NoDate] ELSE item
    /\ Goes(l, AfterOccurrences(l))
    /\ UNCHANGED <<sentFor, reminder, now, request, editor, ops, edits, faults, ghosts>>
\* Only if the row is still the one that was listed.
ActivateNextOccurrence(l) ==
    /\ scan[l].pc = "activate"
    /\ item' = IF item.done /\ item.next = scan[l].next
               THEN [item EXCEPT !.done = FALSE, !.due = item.next, !.next = NoDate] ELSE item
    /\ Goes(l, AfterOccurrences(l))
    /\ UNCHANGED <<sentFor, reminder, now, request, editor, ops, edits, faults, ghosts>>

\* Is a reminder to be sent, for a due date it was not sent for?
ReminderDue ==
    /\ ~item.done /\ item.due # NoDate /\ reminder.enabled /\ sentFor # item.due
    /\ now >= reminderMoment(item.due)
\* Mutant: only at the very moment.
ListItemsForDueReminderScan_Exact(l) ==
    /\ scan[l].pc = "list"
    /\ Goes(l, IF ReminderDue /\ now = reminderMoment(item.due) THEN [pc |-> "send", due |-> item.due] ELSE NoScan)
    /\ UNCHANGED <<item, sentFor, reminder, now, request, editor, ops, edits, faults, ghosts>>
ListItemsForDueReminderScan(l) ==
    /\ scan[l].pc = "list"
    /\ Goes(l, IF ReminderDue THEN [pc |-> "send", due |-> item.due] ELSE NoScan)
    /\ UNCHANGED <<item, sentFor, reminder, now, request, editor, ops, edits, faults, ghosts>>

sendToUsers(l) ==
    /\ scan[l].pc = "send"
    /\ Goes(l, [scan[l] EXCEPT !.pc = "mark"])
    /\ pushed' = scan[l].due /\ repeated' = (repeated \/ (pushed = scan[l].due /\ ~unmarked))
    /\ unmarked' = TRUE
    /\ UNCHANGED <<item, sentFor, reminder, now, request, editor, ops, edits, faults, raced, broken>>

\* Mutant: the date is not recorded.
MarkDueReminderSent_Not(l) ==
    /\ scan[l].pc = "mark"
    /\ sentFor' = sentFor /\ unmarked' = FALSE
    /\ Goes(l, NoScan)
    /\ UNCHANGED <<item, reminder, now, request, editor, ops, edits, faults, raced, broken, pushed, repeated>>
MarkDueReminderSent(l) ==
    /\ scan[l].pc = "mark"
    /\ sentFor' = scan[l].due /\ unmarked' = FALSE
    /\ Goes(l, NoScan)
    /\ UNCHANGED <<item, reminder, now, request, editor, ops, edits, faults, raced, broken, pushed, repeated>>

Scan ==
    \E l \in Loops :
        \/ ListItemsAwaitingNextOccurrence(l) \/ ActivateNextOccurrence(l)
        \/ ListItemsForDueReminderScan(l) \/ sendToUsers(l) \/ MarkDueReminderSent(l)

-----------------------------------------------------------------------------
(* Time, and what fails *)

Tick ==
    /\ \E t \in Times : t > now /\ now' = t
    /\ UNCHANGED <<item, sentFor, reminder, request, scan, editor, ops, edits, faults, ghosts>>

Fault == faults > 0 /\ faults' = faults - 1
\* A request's context is cancelled, or a statement of it fails.
RequestFails(c) ==
    /\ request[c].pc # "none" /\ Fault
    /\ request' = [request EXCEPT ![c] = NoRequest]
    /\ broken' = (broken \/ request[c].pc = "schedule")
    /\ UNCHANGED <<item, sentFor, reminder, now, scan, editor, ops, edits, raced, pushed, unmarked, repeated>>
\* The server stops anywhere, and starts again.
Restart ==
    /\ Fault
    /\ request' = [c \in Clients |-> NoRequest] /\ scan' = [l \in Loops |-> NoScan]
    /\ broken' = (broken \/ \E c \in Clients : request[c].pc = "schedule")
    /\ UNCHANGED <<item, sentFor, reminder, now, editor, ops, edits, raced, pushed, unmarked, repeated>>
\* A statement of a scan fails: the error is logged and the scan goes on without the item.
ScanFails(l) ==
    /\ scan[l].pc # "none" /\ Fault
    /\ Goes(l, IF scan[l].pc = "activate" THEN AfterOccurrences(l) ELSE NoScan)
    /\ UNCHANGED <<item, sentFor, reminder, now, request, editor, ops, edits, ghosts>>

Editing ==
    \/ openRecurrenceEditor \/ setRecurrenceEditorFreq \/ ToggleDay \/ setRecurrenceEditorInterval
    \/ SetStart \/ CloseEditor
Patch ==
    \E c \in Clients :
        \/ SetDone(c) \/ Rename(c) \/ SetDue(c) \/ SetEnd(c) \/ SetRule(c) \/ Apply(c)
        \/ UpdateItem(c) \/ SetItemSchedule(c)
Fails == Restart \/ (\E c \in Clients : RequestFails(c)) \/ (\E l \in Loops : ScanFails(l))

Next == Editing \/ Patch \/ Scan \/ Tick \/ Fails

\* Both loops run every minute, whatever else the server does; requests run to their end.
Fairness ==
    /\ \A l \in Loops :
        /\ WF_vars(ListItemsAwaitingNextOccurrence(l)) /\ WF_vars(ActivateNextOccurrence(l))
        /\ WF_vars(ListItemsForDueReminderScan(l)) /\ WF_vars(sendToUsers(l)) /\ WF_vars(MarkDueReminderSent(l))
    /\ \A c \in Clients : WF_vars(UpdateItem(c)) /\ WF_vars(SetItemSchedule(c))
Spec == Init /\ [][Next]_vars /\ Fairness

-----------------------------------------------------------------------------
(* Properties *)

TypeOK ==
    /\ item.done \in BOOLEAN /\ {item.due, item.next, item.end, sentFor, pushed} \subseteq Dates
    /\ item.rule = NoRule \/ normalizeRule(item.rule) = item.rule
    /\ now \in Times \cup {Start}
    /\ \A c \in Clients : request[c].pc \in {"none", "update", "schedule"}
    /\ scan["occurrences"].pc \in {"none", "activate"}
    /\ scan["reminders"].pc \in {"none", "activate", "list", "send", "mark"}
    /\ editor = NoRule \/ editor.interval \in 1 .. MAX_INTERVAL

Resting == \A c \in Clients : request[c].pc = "none"
Writing == {request[c] : c \in {d \in Clients : request[d].pc = "update"}}

\* A task that is checked off (recurrence.go, applyRecurrenceLifecycle) comes back on the
\* first date after today that its rule means, worked out without stepping, or never when
\* that is past its end; only a task overdue for more than maxCatchUpSteps occurrences does not.
NextIsFirst ==
    \A r \in Writing :
        LET from == IF r.item.due = NoDate THEN r.day ELSE r.item.due
            rule == parseRule(r.item.rule)
            missed == {d \in (from + 1) .. r.day : Falls(rule, from, d)}
            last == IF from > r.day THEN from ELSE r.day
            later == {d \in (last + 1) .. (last + Period(rule)) : Falls(rule, from, d)}
        IN r.item.done /\ r.item.rule # NoRule /\ ~r.before.done /\ Cardinality(missed) <= MaxSteps
            => r.item.next = IF Ended(r.item, Least(later)) THEN NoDate ELSE Least(later)

\* What the page shows at once and what the worker keeps offline (list_view.js, sw.js) is
\* the next occurrence the server stores, even if the mirror spells the rule otherwise;
\* what the page shows, unless the row was read between the statements of another request.
PortsAgree ==
    \A r \in Writing :
        /\ \A raw \in {r.before.rule} \cup {s \in Spellings : normalizeRule(s) = r.before.rule} :
            applyRecurrenceLifecycleOffline(r.item, [r.before EXCEPT !.rule = raw], r.day) = r.item.next
        /\ /\ r.item.done # r.before.done /\ NextOfDone(r.before)
           /\ r.item = [r.before EXCEPT !.done = r.item.done, !.next = r.item.next]
           => setItemDoneOptimistic(r.before, r.item.done, r.day) = r.item

\* The three ports of the lifecycle store, keep and show the occurrence the rule means.
NextAgrees == NextIsFirst /\ PortsAgree

\* Between requests, a task has a next occurrence exactly when it is done and its series goes
\* on, which its badge then announces (list_view.js, upcomingDueDate) -- unless two writers
\* overlapped, or one stopped between its statements.  The badge of a task without a date
\* steps from today, and by weeks of today when its rule skips some: it may announce what the
\* server, the day the task was done, found past its end.
Undisturbed == Resting /\ ~raced /\ ~broken
Drifts(task) ==
    LET rule == parseRule(task.rule)
    IN task.rule # NoRule /\ task.due = NoDate /\ rule.byDay # {} /\ rule.interval > 1
ScheduleConsistent ==
    Undisturbed =>
        /\ NextOfDone(item)
        /\ item.done /\ ~Drifts(item) => upcomingDueDate(item, today) = item.next

\* The budget (planning.js) counts the occurrences that the rule means, as far as it goes.
ProjectionAgrees ==
    LET month == MonthNumber(today)
        range == <<month, month + 1>>
        current == IF item.done THEN item.next ELSE IF item.due # NoDate THEN item.due ELSE today
        rule == parseRule(item.rule)
        Counts(date) == date = current \/ Falls(rule, current, date)
        dates == Capped({d \in current .. UTC(0, month + 2, 0) : ~Ended(item, d) /\ Counts(d)})
    IN Resting /\ item.rule # NoRule /\ current # NoDate =>
        projectRecurringOccurrences(item, range, today) =
            [i \in 1 .. 2 |-> Cardinality(dates \cap DaysOf(range[i]))]

\* The sheet hands over a rule that the server accepts and reads back as it was made, and a
\* first date that the rule allows (recurrence-editor.js, closeRecurrenceEditor).
EditorRuleAccepted ==
    editor # NoRule /\ recurrenceEditorRule(editor) # NoRule =>
        LET rule == recurrenceEditorRule(editor)
            first == firstOccurrenceOnOrAfter(editor.start, rule)
        IN /\ parseRule(formatRule(rule)) = rule /\ normalizeRule(formatRule(rule)) = formatRule(rule)
           /\ first >= editor.start
           /\ rule.byDay # {} => isoIndex(first) \in rule.byDay

\* The rule means one thing to the sheet that makes it and to the budget that counts it.
RuleHonored == ProjectionAgrees /\ EditorRuleAccepted

\* A reminder that was marked sent is not sent again for the same date (push.go).
RemindedOnce == ~repeated

\* A task whose next occurrence has started does not stay done (main.go, runNextOccurrenceLoop).
ComesBack == []<>~Awaiting
\* A reminder that is due is sent, or is not due any more.
Reminded == []<>~ReminderDue

\* What models.go says of next_due_date: a done recurring task without one has ended.
SeriesNeverLost ==
    Resting /\ item.done /\ item.rule # NoRule /\ item.end = NoDate => item.next # NoDate
=============================================================================
