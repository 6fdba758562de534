--------------------------- MODULE MCRecurringTask ---------------------------
(***************************************************************************)
(* Small instances of RecurringTask, from Wednesday 31 January 2024, in a  *)
(* leap year: a rule of every frequency, the end of the month among them.  *)
(***************************************************************************)
EXTENDS RecurringTask

Today == 738916
MCStart == 2 * Today
MCTimes == {MCStart + t : t \in {1, 3, 62}}
MCCalendar == (Today - 40) .. (Today + 900)

Daily == Every("DAYS", 2)
Weekly == Parts(<<Part("BYDAY", <<3, 0, 3>>), Part("FREQ", "WEEKLY"), Part("INTERVAL", 2)>>)
Monthly == Every("MONTHS", 1)
Bad == Parts(<<Part("FREQ", "DAILY"), Part("BYDAY", <<0>>)>>)
MCSpellings == {Daily, Weekly, Monthly, Bad}

Task(raw, due, end) ==
    [done |-> FALSE, due |-> due, next |-> NoDate, rule |-> normalizeRule(raw), end |-> end]
Begins(task, rem, requests, editings) ==
    [item |-> task, reminder |-> rem, ops |-> requests, edits |-> editings]
Eve == [enabled |-> TRUE, offset |-> 1, half |-> 1]
Evening == [enabled |-> TRUE, offset |-> 0, half |-> 1]
Never == [enabled |-> FALSE, offset |-> 0, half |-> 0]

MCStarts == {
    Begins(Task(Weekly, Today - 1, NoDate), Eve, 2, 0),
    Begins(Task(Monthly, Today, NoDate), Never, 2, 0),
    Begins(Task(Daily, NoDate, Today + 5), Evening, 1, 0),
    Begins(Task(Daily, Today - 12, NoDate), Never, 1, 0),
    Begins(Task(NoRule, Today - 1, NoDate), Never, 1, 3),
    Begins(Task(Monthly, NoDate, NoDate), Eve, 1, 2)}
MCDues == {Today + 1}
MCEnds == {NoDate, Today + 3}
=============================================================================
