------------------------- MODULE RecurringTask_proofs -------------------------
(***************************************************************************)
(* Proofs about a recurring task (RecurringTask), for any rules, dates,    *)
(* reminders, clients and number of faults: a reminder that was marked     *)
(* sent is not sent again; a next occurrence belongs to a task that is     *)
(* done and recurs; and, on a calendar without a bound, the date the three *)
(* ports of the recurrence rules come to is the first one the rule means,  *)
(* which the badge announces, the budget counts and the sheet spells.      *)
(*                                                                         *)
(* From the bottom up: numbers, the calendar, one step of a rule, catching *)
(* up by steps, the spellings of a rule; then the row, what every state    *)
(* holds of it (TaskInv), and what follows.                                *)
(***************************************************************************)
EXTENDS RecurringTask, TLAPS, WellFoundedInduction, FiniteSetTheorems, SequenceTheorems

-----------------------------------------------------------------------------
(* Reminders *)

\* Only the loop of reminders sends; it is not the one of occurrences that does.
LoopInv ==
    /\ DOMAIN scan = Loops
    /\ scan["occurrences"].pc \in {"none", "activate"}
    /\ scan["reminders"].pc \in {"none", "activate", "list", "send", "mark"}

\* What is about to be sent was not sent yet; what was sent last is marked, or was not to be.
SentInv ==
    /\ scan["reminders"].pc = "send" =>
         \E due : scan["reminders"] = [pc |-> "send", due |-> due] /\ due # sentFor
    /\ scan["reminders"].pc = "mark" => scan["reminders"].due = pushed
    /\ ~unmarked => sentFor = pushed

RemindedInv == LoopInv /\ SentInv /\ ~repeated

\* A step of the scans moves one loop only.
LEMMA OneLoop ==
    ASSUME LoopInv, NEW l \in Loops, NEW to, Goes(l, to)
    PROVE  /\ DOMAIN scan' = Loops /\ scan'[l] = to
           /\ \A k \in Loops \ {l} : scan'[k] = scan[k]
BY DEF LoopInv, Goes

\* Every step keeps the marks, and what was reminded.
LEMMA RemindedStep ==
    ASSUME RemindedInv, [Next]_vars
    PROVE  RemindedInv'
<1>0. LoopInv /\ SentInv /\ ~repeated  BY DEF RemindedInv
<1>1. CASE UNCHANGED <<scan, sentFor, pushed, unmarked, repeated>>
  BY <1>0, <1>1 DEF RemindedInv, LoopInv, SentInv
<1>2. ASSUME NEW l \in Loops, ListItemsAwaitingNextOccurrence(l) \/ ActivateNextOccurrence(l)
      PROVE  RemindedInv'
  <2>1. PICK to : /\ Goes(l, to)
                  /\ \/ to = AfterOccurrences(l)
                     \/ scan[l].pc = "none" /\ to = [pc |-> "activate", next |-> item.next]
    BY <1>2 DEF ListItemsAwaitingNextOccurrence, ActivateNextOccurrence
  <2>2. UNCHANGED <<sentFor, pushed, unmarked, repeated>>
    BY <1>2 DEF ListItemsAwaitingNextOccurrence, ActivateNextOccurrence, ghosts
  <2>3. to.pc \in {"none", "activate"} \/ (l = "reminders" /\ to.pc = "list")
    BY <2>1 DEF AfterOccurrences, NoScan
  <2>4. /\ DOMAIN scan' = Loops /\ scan'[l] = to /\ \A k \in Loops \ {l} : scan'[k] = scan[k]
    BY <1>0, <2>1, OneLoop
  <2>5. CASE l = "occurrences"
    <3>1. to.pc \in {"none", "activate"}  BY <2>3, <2>5
    <3>2. scan'["reminders"] = scan["reminders"]  BY <2>4, <2>5 DEF Loops
    <3> QED  BY <1>0, <2>2, <2>4, <2>5, <3>1, <3>2 DEF RemindedInv, LoopInv, SentInv
  <2>6. CASE l = "reminders"
    <3>1. scan'["occurrences"] = scan["occurrences"]  BY <2>4, <2>6 DEF Loops
    <3> QED  BY <1>0, <2>2, <2>3, <2>4, <2>6, <3>1 DEF RemindedInv, LoopInv, SentInv
  <2> QED  BY <2>5, <2>6 DEF Loops
<1>3. ASSUME NEW l \in Loops,
             ListItemsForDueReminderScan(l) \/ sendToUsers(l) \/ MarkDueReminderSent(l)
      PROVE  RemindedInv'
  <2>1. l = "reminders"
    <3>1. scan[l].pc \in {"list", "send", "mark"}
      BY <1>3 DEF ListItemsForDueReminderScan, sendToUsers, MarkDueReminderSent
    <3> QED  BY <1>0, <3>1 DEF LoopInv, Loops
  <2>2. PICK to : /\ Goes(l, to)
                  /\ to = IF scan[l].pc = "list"
                          THEN IF ReminderDue THEN [pc |-> "send", due |-> item.due] ELSE NoScan
                          ELSE IF scan[l].pc = "send" THEN [scan[l] EXCEPT !.pc = "mark"]
                          ELSE NoScan
    BY <1>3 DEF ListItemsForDueReminderScan, sendToUsers, MarkDueReminderSent
  <2>3. /\ DOMAIN scan' = Loops /\ scan'["reminders"] = to
        /\ scan'["occurrences"] = scan["occurrences"]
    BY <1>0, <2>1, <2>2, OneLoop DEF Loops
  <2>4. CASE ListItemsForDueReminderScan(l)
    <3>1. UNCHANGED <<sentFor, pushed, unmarked, repeated>> /\ scan[l].pc = "list"
      BY <2>4 DEF ListItemsForDueReminderScan, ghosts
    <3>2. \/ to = NoScan
          \/ to = [pc |-> "send", due |-> item.due] /\ sentFor # item.due
      BY <2>2, <3>1 DEF ReminderDue
    <3>3. to.pc = "none" \/ \E due : to = [pc |-> "send", due |-> due] /\ due # sentFor
      BY <3>2 DEF NoScan
    <3> QED  BY <1>0, <2>3, <3>1, <3>3 DEF RemindedInv, LoopInv, SentInv
  <2>5. CASE sendToUsers(l)
    <3>1. /\ scan[l].pc = "send" /\ pushed' = scan[l].due /\ unmarked' = TRUE
          /\ sentFor' = sentFor
          /\ repeated' = (repeated \/ (pushed = scan[l].due /\ ~unmarked))
      BY <2>5 DEF sendToUsers
    <3>2. PICK due : scan[l] = [pc |-> "send", due |-> due] /\ due # sentFor
      BY <1>0, <2>1, <3>1 DEF SentInv
    <3>3. ~repeated'
      <4>1. scan[l].due # sentFor  BY <3>2
      <4>2. ~(pushed = scan[l].due /\ ~unmarked)  BY <1>0, <4>1 DEF SentInv
      <4> QED  BY <1>0, <3>1, <4>2, Zenon
    <3>4. to = [scan[l] EXCEPT !.pc = "mark"]  BY <2>2, <3>1
    <3>5. to.pc = "mark" /\ to.due = pushed'  BY <3>1, <3>2, <3>4
    <3> QED  BY <1>0, <2>3, <3>1, <3>3, <3>5 DEF RemindedInv, LoopInv, SentInv
  <2>6. CASE MarkDueReminderSent(l)
    <3>1. /\ scan[l].pc = "mark" /\ sentFor' = scan[l].due /\ pushed' = pushed
          /\ repeated' = repeated
      BY <2>6 DEF MarkDueReminderSent
    <3>2. to.pc = "none"  BY <2>2, <3>1 DEF NoScan
    <3> QED  BY <1>0, <2>1, <2>3, <3>1, <3>2 DEF RemindedInv, LoopInv, SentInv
  <2> QED  BY <1>3, <2>4, <2>5, <2>6
<1>4. ASSUME NEW l \in Loops, ScanFails(l) PROVE RemindedInv'
  <2>1. PICK to : Goes(l, to) /\ (to = AfterOccurrences(l) \/ to = NoScan)
    BY <1>4 DEF ScanFails
  <2>2. UNCHANGED <<sentFor, pushed, unmarked, repeated>>  BY <1>4 DEF ScanFails, ghosts
  <2>3. to.pc = "none" \/ (l = "reminders" /\ to.pc = "list")
    BY <2>1 DEF AfterOccurrences, NoScan
  <2>4. /\ DOMAIN scan' = Loops /\ scan'[l] = to /\ \A k \in Loops \ {l} : scan'[k] = scan[k]
    BY <1>0, <2>1, OneLoop
  <2>5. CASE l = "occurrences"
    <3>1. to.pc = "none"  BY <2>3, <2>5
    <3>2. scan'["reminders"] = scan["reminders"]  BY <2>4, <2>5 DEF Loops
    <3> QED  BY <1>0, <2>2, <2>4, <2>5, <3>1, <3>2 DEF RemindedInv, LoopInv, SentInv
  <2>6. CASE l = "reminders"
    <3>1. scan'["occurrences"] = scan["occurrences"]  BY <2>4, <2>6 DEF Loops
    <3> QED  BY <1>0, <2>2, <2>3, <2>4, <2>6, <3>1 DEF RemindedInv, LoopInv, SentInv
  <2> QED  BY <2>5, <2>6 DEF Loops
<1>5. CASE Restart
  <2>1. /\ scan' = [l \in Loops |-> NoScan]
        /\ UNCHANGED <<sentFor, pushed, unmarked, repeated>>
    BY <1>5 DEF Restart
  <2> QED  BY <1>0, <2>1 DEF RemindedInv, LoopInv, SentInv, Loops, NoScan
<1>6. CASE Editing \/ Patch \/ Tick \/ (\E c \in Clients : RequestFails(c)) \/ UNCHANGED vars
  <2>1. CASE Editing
    BY <1>1, <2>1 DEF Editing, openRecurrenceEditor, setRecurrenceEditorFreq, ToggleDay,
       setRecurrenceEditorInterval, SetStart, CloseEditor, ChangeEditor, ghosts
  <2>2. CASE Patch
    <3>1. PICK c \in Clients : (\E task : Begin(c, task)) \/ UpdateItem(c) \/ SetItemSchedule(c)
      BY <2>2 DEF Patch, SetDone, Rename, SetDue, SetEnd, SetRule, Apply
    <3>2. CASE \E task : Begin(c, task)  BY <1>1, <3>2 DEF Begin, ghosts
    <3>3. CASE UpdateItem(c) \/ SetItemSchedule(c)
      BY <1>1, <3>3 DEF UpdateItem, SetItemSchedule
    <3> QED  BY <3>1, <3>2, <3>3
  <2>3. CASE Tick  BY <1>1, <2>3 DEF Tick, ghosts
  <2>4. CASE \E c \in Clients : RequestFails(c)  BY <1>1, <2>4 DEF RequestFails
  <2>5. CASE UNCHANGED vars  BY <1>1, <2>5 DEF vars
  <2> QED  BY <1>6, <2>1, <2>2, <2>3, <2>4, <2>5
<1> QED  BY <1>2, <1>3, <1>4, <1>5, <1>6 DEF Next, Scan, Fails

\* push.go, RunDueReminderScan: however requests, scans, failures and restarts interleave, a
\* reminder that was marked sent is not sent again for the same due date.
THEOREM MarkedRemindersRest == Spec => []RemindedOnce
<1>1. Init => RemindedInv
  BY DEF Init, RemindedInv, LoopInv, SentInv, Loops, NoScan
<1>2. RemindedInv /\ [Next]_vars => RemindedInv'  BY RemindedStep
<1>3. RemindedInv => RemindedOnce  BY DEF RemindedInv, RemindedOnce
<1> QED  BY <1>1, <1>2, <1>3, PTL DEF Spec

-----------------------------------------------------------------------------
(* The next occurrence *)

\* A row, column by column.
Row(task) == task = [done |-> task.done, due |-> task.due, next |-> task.next,
                     rule |-> task.rule, end |-> task.end]

\* Every PATCH in progress is about to write a row whose next occurrence belongs to it; and
\* the row's belongs to it, unless a PATCH is between the two statements that write it.
RequestInv ==
    /\ DOMAIN request = Clients
    /\ \A c \in Clients :
         /\ request[c].pc \in {"none", "update", "schedule"}
         /\ request[c].pc # "none" =>
              /\ Row(request[c].item) /\ Row(request[c].before)
              /\ NextOfDone(request[c].item)
              /\ \E day : request[c] = [pc |-> request[c].pc, before |-> request[c].before,
                                        day |-> day, item |-> request[c].item]

ItemInv ==
    /\ Row(item)
    /\ raced \/ broken \/ NextOfDone(item) \/ \E c \in Clients : request[c].pc = "schedule"

NextInv == RequestInv /\ ItemInv

\* applyRecurrenceLifecycle gives a next occurrence to a row that is done and recurs only.
LEMMA LifecycleBelongs ==
    ASSUME NEW task, NEW before, NEW day, Row(task)
    PROVE  LET next == applyRecurrenceLifecycle(task, before, day)
           IN Row([task EXCEPT !.next = next]) /\ NextOfDone([task EXCEPT !.next = next])
<1>1. PICK next : next = applyRecurrenceLifecycle(task, before, day)  OBVIOUS
<1>2. PICK new : new = [task EXCEPT !.next = next]  OBVIOUS
<1>3. new = [done |-> task.done, due |-> task.due, next |-> next, rule |-> task.rule,
             end |-> task.end]
  BY <1>2 DEF Row
<1>4. next # NoDate => task.rule # NoRule /\ task.done
  BY <1>1 DEF applyRecurrenceLifecycle
<1>5. new.done = task.done /\ new.rule = task.rule /\ new.next = next /\ Row(new)
  BY <1>3 DEF Row
<1>6. NextOfDone(new)  BY <1>4, <1>5 DEF NextOfDone
<1> QED  BY <1>1, <1>2, <1>5, <1>6

\* A change that begins holds a row that fits its rule.
LEMMA BeginStep ==
    ASSUME NextInv, NEW c \in Clients, NEW task, Row(task), Begin(c, task)
    PROVE  NextInv'
<1>1. PICK new : new = [task EXCEPT !.next = applyRecurrenceLifecycle(task, item, today)]
  OBVIOUS
<1>2. Row(new) /\ NextOfDone(new)  BY <1>1, LifecycleBelongs
<1>3. PICK r : r = [pc |-> "update", before |-> item, day |-> today, item |-> new]  OBVIOUS
<1>4. /\ request' = [request EXCEPT ![c] = r] /\ request[c].pc = "none"
      /\ UNCHANGED <<item, raced, broken>>
  BY <1>1, <1>3 DEF Begin, ghosts
<1>5. RequestInv'  BY <1>2, <1>3, <1>4 DEF NextInv, RequestInv, ItemInv
<1>6. \A d \in Clients : request[d].pc = "schedule" => request'[d].pc = "schedule"
  BY <1>4 DEF NextInv, RequestInv
<1>7. ItemInv'  BY <1>4, <1>6 DEF NextInv, ItemInv
<1> QED  BY <1>5, <1>7 DEF NextInv

\* The row that a PATCH writes, field by field.
LEMMA Fields ==
    ASSUME NEW task, Row(task)
    PROVE  /\ \A v : /\ Row([task EXCEPT !.done = v]) /\ Row([task EXCEPT !.due = v])
                     /\ Row([task EXCEPT !.end = v]) /\ Row([task EXCEPT !.next = v])
           /\ \A raw : Row(WithRule(task, raw))
<1>1. \A v : /\ Row([task EXCEPT !.done = v]) /\ Row([task EXCEPT !.due = v])
             /\ Row([task EXCEPT !.end = v]) /\ Row([task EXCEPT !.next = v])
  BY DEF Row
<1>2. ASSUME NEW raw PROVE Row(WithRule(task, raw))
  <2>1. PICK end : end = IF normalizeRule(raw) = NoRule THEN NoDate ELSE task.end  OBVIOUS
  <2>2. PICK rule : rule = normalizeRule(raw)  OBVIOUS
  <2>3. PICK new : new = WithRule(task, raw)  OBVIOUS
  <2>4. new = [task EXCEPT !.rule = rule, !.end = end]
    BY <2>1, <2>2, <2>3 DEF WithRule, Row
  <2>5. new = [done |-> task.done, due |-> task.due, next |-> task.next, rule |-> rule,
               end |-> end]
    BY <2>4 DEF Row
  <2>6. Row(new)  BY <2>5 DEF Row
  <2> QED  BY <2>3, <2>6
<1> QED  BY <1>1, <1>2

\* So do the changes of one field.
LEMMA PatchBegins ==
    ASSUME NextInv, NEW c \in Clients,
           SetDone(c) \/ Rename(c) \/ SetDue(c) \/ SetEnd(c) \/ SetRule(c) \/ Apply(c)
    PROVE  NextInv'
<1>0. Row(item)  BY DEF NextInv, ItemInv
<1>1. CASE SetDone(c)  BY <1>0, <1>1, Fields, BeginStep DEF SetDone
<1>2. CASE Rename(c)  BY <1>0, <1>2, BeginStep DEF Rename
<1>3. CASE SetDue(c)  BY <1>0, <1>3, Fields, BeginStep DEF SetDue
<1>4. CASE SetEnd(c)  BY <1>0, <1>4, Fields, BeginStep DEF SetEnd
<1>5. CASE SetRule(c)  BY <1>0, <1>5, Fields, BeginStep DEF SetRule
<1>6. CASE Apply(c)
  <2>1. PICK raw, first : Begin(c, [WithRule(item, raw) EXCEPT !.due = first])
    BY <1>6 DEF Apply
  <2>2. Row(WithRule(item, raw))  BY <1>0, Fields
  <2>3. Row([WithRule(item, raw) EXCEPT !.due = first])  BY <2>2, Fields
  <2> QED  BY <2>1, <2>3, BeginStep
<1> QED  BY <1>1, <1>2, <1>3, <1>4, <1>5, <1>6

\* UpdateItem writes the row but for its next occurrence, which is the one it replaces
\* unless SetItemSchedule follows.
LEMMA UpdateStep ==
    ASSUME NextInv, NEW c \in Clients, UpdateItem(c)
    PROVE  NextInv'
<1>1. PICK r : r = request[c]  OBVIOUS
<1>2. /\ r.pc = "update" /\ Row(r.item) /\ Row(r.before) /\ NextOfDone(r.item)
      /\ \E day : r = [pc |-> "update", before |-> r.before, day |-> day, item |-> r.item]
  BY <1>1 DEF UpdateItem, NextInv, RequestInv
<1>3. /\ item' = [r.item EXCEPT !.next = item.next]
      /\ raced' = (raced \/ item # r.before) /\ broken' = broken
      /\ request' = [request EXCEPT ![c] =
            IF r.item.next # r.before.next THEN [r EXCEPT !.pc = "schedule"] ELSE NoRequest]
  BY <1>1 DEF UpdateItem
<1>4. Row(item')  BY <1>2, <1>3, Fields
<1>5. CASE r.item.next # r.before.next
  <2>1. PICK s : s = [r EXCEPT !.pc = "schedule"]  OBVIOUS
  <2>2. PICK day : r = [pc |-> "update", before |-> r.before, day |-> day, item |-> r.item]
    BY <1>2
  <2>3. s = [pc |-> "schedule", before |-> r.before, day |-> day, item |-> r.item]
    BY <2>1, <2>2
  <2>4. request' = [request EXCEPT ![c] = s]  BY <1>3, <1>5, <2>1
  <2>5. RequestInv'  BY <1>2, <2>3, <2>4 DEF NextInv, RequestInv
  <2>6. request'[c].pc = "schedule"  BY <2>3, <2>4 DEF NextInv, RequestInv
  <2> QED  BY <1>4, <2>5, <2>6 DEF NextInv, ItemInv
<1>6. CASE r.item.next = r.before.next
  <2>1. request' = [request EXCEPT ![c] = NoRequest]  BY <1>3, <1>6
  <2>2. RequestInv'  BY <2>1 DEF NextInv, RequestInv, NoRequest
  <2>3. ~raced' => NextOfDone(item')
    <3>1. SUFFICES ASSUME ~raced' PROVE NextOfDone(item')  OBVIOUS
    <3>2. item = r.before  BY <1>3, <3>1
    <3>3. item' = [r.item EXCEPT !.next = r.item.next]  BY <1>3, <1>6, <3>2
    <3>4. item' = r.item  BY <1>2, <3>3 DEF Row
    <3> QED  BY <1>2, <3>4
  <2> QED  BY <1>4, <2>2, <2>3 DEF NextInv, ItemInv
<1> QED  BY <1>5, <1>6

\* A schedule that is set gives a row that fits it.
LEMMA ScheduleStep ==
    ASSUME NextInv, NEW c \in Clients, SetItemSchedule(c)
    PROVE  NextInv'
<1>1. PICK r : r = request[c]  OBVIOUS
<1>2. Row(r.item) /\ Row(item) /\ NextOfDone(r.item)
  BY <1>1 DEF SetItemSchedule, NextInv, RequestInv, ItemInv
<1>3. /\ item' = [item EXCEPT !.next = r.item.next]
      /\ raced' = (raced \/ item # [r.item EXCEPT !.next = r.before.next])
      /\ broken' = broken /\ request' = [request EXCEPT ![c] = NoRequest]
  BY <1>1 DEF SetItemSchedule
<1>4. RequestInv'  BY <1>3 DEF NextInv, RequestInv, NoRequest
<1>5. Row(item')  BY <1>2, <1>3, Fields
<1>6. ~raced' => NextOfDone(item')
  <2>1. SUFFICES ASSUME ~raced' PROVE NextOfDone(item')  OBVIOUS
  <2>2. item = [r.item EXCEPT !.next = r.before.next]  BY <1>3, <2>1
  <2>3. item' = r.item  BY <1>2, <1>3, <2>2 DEF Row
  <2> QED  BY <1>2, <2>3
<1> QED  BY <1>4, <1>5, <1>6 DEF NextInv, ItemInv

\* The task that comes back has no next occurrence.
LEMMA ActivateStep ==
    ASSUME NextInv, NEW l \in Loops, ActivateNextOccurrence(l)
    PROVE  NextInv'
<1>1. UNCHANGED <<request, raced, broken>>  BY DEF ActivateNextOccurrence, ghosts
<1>2. \/ item' = item
      \/ item' = [item EXCEPT !.done = FALSE, !.due = item.next, !.next = NoDate]
  BY DEF ActivateNextOccurrence
<1>3. RequestInv'  BY <1>1 DEF NextInv, RequestInv
<1>4. Row(item)  BY DEF NextInv, ItemInv
<1>5. CASE item' = item  BY <1>1, <1>3, <1>5 DEF NextInv, ItemInv
<1>6. CASE item' = [item EXCEPT !.done = FALSE, !.due = item.next, !.next = NoDate]
  <2>1. item' = [done |-> FALSE, due |-> item.next, next |-> NoDate, rule |-> item.rule,
                 end |-> item.end]
    BY <1>4, <1>6 DEF Row
  <2>2. Row(item') /\ NextOfDone(item')  BY <2>1 DEF Row, NextOfDone
  <2> QED  BY <1>3, <2>2 DEF NextInv, ItemInv
<1> QED  BY <1>2, <1>5, <1>6

\* Every step keeps the occurrences where they belong.
LEMMA NextStep ==
    ASSUME NextInv, [Next]_vars
    PROVE  NextInv'
<1>1. CASE UNCHANGED <<item, request, raced, broken>>
  BY <1>1 DEF NextInv, RequestInv, ItemInv
<1>2. CASE Patch  BY <1>2, PatchBegins, UpdateStep, ScheduleStep DEF Patch
<1>3. CASE Scan
  <2>1. CASE \E l \in Loops : ActivateNextOccurrence(l)  BY <2>1, ActivateStep
  <2>2. CASE ~\E l \in Loops : ActivateNextOccurrence(l)
    BY <1>1, <1>3, <2>2 DEF Scan, ListItemsAwaitingNextOccurrence, ListItemsForDueReminderScan,
       sendToUsers, MarkDueReminderSent, ghosts
  <2> QED  BY <2>1, <2>2
<1>4. ASSUME NEW c \in Clients, RequestFails(c) PROVE NextInv'
  <2>1. /\ request' = [request EXCEPT ![c] = NoRequest]
        /\ broken' = (broken \/ request[c].pc = "schedule") /\ UNCHANGED <<item, raced>>
    BY <1>4 DEF RequestFails
  <2>2. RequestInv'  BY <2>1 DEF NextInv, RequestInv, NoRequest
  <2>3. \A d \in Clients : request[d].pc = "schedule"
            => broken' \/ request'[d].pc = "schedule"
    BY <2>1 DEF NextInv, RequestInv
  <2>4. broken => broken'  BY <2>1
  <2> QED  BY <2>1, <2>2, <2>3, <2>4 DEF NextInv, ItemInv
<1>5. CASE Restart
  <2>1. /\ request' = [c \in Clients |-> NoRequest] /\ UNCHANGED <<item, raced>>
        /\ broken' = (broken \/ \E c \in Clients : request[c].pc = "schedule")
    BY <1>5 DEF Restart
  <2>2. RequestInv'  BY <2>1 DEF RequestInv, NoRequest
  <2>3. broken \/ (\E c \in Clients : request[c].pc = "schedule") => broken'  BY <2>1
  <2> QED  BY <2>1, <2>2, <2>3 DEF NextInv, ItemInv
<1>6. CASE Editing
  BY <1>1, <1>6 DEF Editing, openRecurrenceEditor, setRecurrenceEditorFreq, ToggleDay,
     setRecurrenceEditorInterval, SetStart, CloseEditor, ChangeEditor, ghosts
<1>7. CASE Tick \/ \E l \in Loops : ScanFails(l)
  BY <1>1, <1>7 DEF Tick, ScanFails, ghosts
<1>8. CASE UNCHANGED vars  BY <1>1, <1>8 DEF vars
<1> QED  BY <1>2, <1>3, <1>4, <1>5, <1>6, <1>7, <1>8 DEF Next, Fails

\* items.go, recurrence.go: between requests, only a task that is done and recurs has a next
\* occurrence, whatever was edited, checked off and brought back, unless two writers
\* overlapped or one stopped between its statements.  It is the half of ScheduleConsistent
\* that does not depend on how rules step through the calendar.
THEOREM NextOccurrenceBelongs == Spec => [](Undisturbed => NextOfDone(item))
<1>1. Init => NextInv
  <2> SUFFICES ASSUME Init PROVE NextInv  OBVIOUS
  <2>1. request = [c \in Clients |-> NoRequest]  BY DEF Init
  <2>2. RequestInv  BY <2>1 DEF RequestInv, NoRequest
  <2>3. PICK start \in Starts : item = start.item  BY DEF Init
  <2>4. Created(item)  BY <2>3, RecurringTaskAssumption
  <2>5. /\ item = [done |-> FALSE, due |-> item.due, next |-> NoDate, rule |-> item.rule,
                  end |-> item.end]
        /\ item.next = NoDate
    BY <2>4 DEF Created
  <2>6. Row(item) /\ NextOfDone(item)  BY <2>5 DEF Row, NextOfDone
  <2> QED  BY <2>2, <2>6 DEF NextInv, ItemInv
<1>2. NextInv /\ [Next]_vars => NextInv'  BY NextStep
<1>3. NextInv => (Undisturbed => NextOfDone(item))
  BY DEF NextInv, ItemInv, Undisturbed, Resting
<1> QED  BY <1>1, <1>2, <1>3, PTL DEF Spec

-----------------------------------------------------------------------------
(* Numbers *)

\* A set of numbers has a least one: what proofs by induction rest on.
LEMMA LeastNumber ==
    ASSUME NEW T, T \subseteq Nat, T # {}
    PROVE  \E x \in T : \A y \in T : x <= y
<1>1. PICK R : R = OpToRel(<, Nat)  OBVIOUS
<1>2. IsWellFoundedOn(R, Nat)  BY <1>1, NatLessThanWellFounded
<1>3. PICK x \in T : \A y \in T : ~ (<<y, x>> \in R)  BY <1>2, WFMin
<1>4. \A y \in T : ~ (y < x)  BY <1>1, <1>3 DEF OpToRel
<1> QED  BY <1>3, <1>4

\* A number that no other of a set is below is the one Least chooses.
LEMMA LeastIs ==
    ASSUME NEW S, S \subseteq Int, NEW x \in S, \A y \in S : x <= y
    PROVE  Least(S) = x
<1>1. \E z \in S : \A y \in S : z <= y  OBVIOUS
<1>2. PICK l : l = Least(S)  OBVIOUS
<1>3. l \in S /\ \A y \in S : l <= y  BY <1>1, <1>2 DEF Least
<1>4. l <= x /\ x <= l /\ l \in Int /\ x \in Int  BY <1>3
<1> QED  BY <1>2, <1>4

\* Least chooses a number of the set that no other is below.
LEMMA LeastOf ==
    ASSUME NEW S, S \subseteq Nat, S # {}
    PROVE  Least(S) \in S /\ \A y \in S : Least(S) <= y
<1>1. PICK x \in S : \A y \in S : x <= y  BY LeastNumber
<1>2. S \subseteq Int  OBVIOUS
<1>3. Least(S) = x  BY <1>1, <1>2, LeastIs
<1> QED  BY <1>1, <1>3

\* Quotient and remainder.
LEMMA Division ==
    ASSUME NEW a \in Int, NEW n \in Nat \ {0}
    PROVE  a \div n \in Int /\ a % n \in 0 .. (n - 1) /\ a = n * (a \div n) + (a % n)
OBVIOUS

\* What leaves no remainder is a multiple.
LEMMA Multiple ==
    ASSUME NEW a \in Int, NEW n \in Nat \ {0}
    PROVE  a % n = 0 <=> \E q \in Int : a = n * q
<1>1. ASSUME a % n = 0 PROVE \E q \in Int : a = n * q
  <2>1. a = n * (a \div n) /\ a \div n \in Int  BY <1>1, Division
  <2> QED BY <2>1
<1>2. ASSUME NEW q \in Int, a = n * q PROVE a % n = 0
  BY <1>2
<1> QED BY <1>1, <1>2

\* What multiples of a number add up to.
LEMMA Multiples ==
    ASSUME NEW n \in Nat \ {0}, NEW a \in Int, NEW b \in Int, a % n = 0
    PROVE  /\ (a + b) % n = 0 <=> b % n = 0
           /\ (a - b) % n = 0 <=> b % n = 0
           /\ (b - a) % n = 0 <=> b % n = 0
<1>1. PICK p \in Int : a = n * p  BY Multiple
<1>2. ASSUME NEW q \in Int PROVE /\ n * p + n * q = n * (p + q) /\ n * p - n * q = n * (p - q)
                                 /\ n * q - n * p = n * (q - p)
                                 /\ n * q = n * (p + (q - p)) 
  OBVIOUS
<1>3. ASSUME b % n = 0 PROVE (a + b) % n = 0 /\ (a - b) % n = 0 /\ (b - a) % n = 0
  <2>1. PICK q \in Int : b = n * q  BY <1>3, Multiple
  <2>2. a + b = n * (p + q) /\ a - b = n * (p - q) /\ b - a = n * (q - p)  BY <1>1, <1>2, <2>1
  <2>3. p + q \in Int /\ p - q \in Int /\ q - p \in Int  BY <1>1, <2>1
  <2>4. a + b \in Int /\ a - b \in Int /\ b - a \in Int  OBVIOUS
  <2>5. (a + b) % n = 0  BY <2>2, <2>3, <2>4, Multiple
  <2>6. (a - b) % n = 0  BY <2>2, <2>3, <2>4, Multiple
  <2>7. (b - a) % n = 0  BY <2>2, <2>3, <2>4, Multiple
  <2> QED  BY <2>5, <2>6, <2>7
<1>4. ASSUME (a + b) % n = 0 PROVE b % n = 0
  <2>1. PICK q \in Int : a + b = n * q
    <3>1. a + b \in Int  OBVIOUS
    <3> QED  BY <1>4, <3>1, Multiple
  <2>2. b = n * (q - p)  BY <1>1, <1>2, <2>1
  <2> QED BY <2>2, Multiple
<1>5. ASSUME (a - b) % n = 0 PROVE b % n = 0
  <2>1. PICK q \in Int : a - b = n * q  BY <1>5, Multiple
  <2>2. b = n * (p - q)  BY <1>1, <1>2, <2>1
  <2> QED BY <2>2, Multiple
<1>6. ASSUME (b - a) % n = 0 PROVE b % n = 0
  <2>1. PICK q \in Int : b - a = n * q  BY <1>6, Multiple
  <2>2. b = n * (p + q)  BY <1>1, <1>2, <2>1
  <2> QED BY <2>2, Multiple
<1> QED  BY <1>3, <1>4, <1>5, <1>6

\* The next multiple is one more time the number.
LEMMA NextMultiple ==
    ASSUME NEW n \in Nat \ {0}, NEW a \in Int, a % n = 0
    PROVE  (a + n) % n = 0
<1>1. PICK p \in Int : a = n * p  BY Multiple
<1>2. a + n = n * (p + 1) /\ p + 1 \in Int /\ a + n \in Int  BY <1>1
<1> QED  BY <1>2, Multiple

\* Multiples of a number are as far apart as it is.
LEMMA MultiplesApart ==
    ASSUME NEW n \in Nat \ {0}, NEW a \in Int, a % n = 0, 0 < a
    PROVE  n <= a
<1>1. PICK p \in Int : a = n * p  BY Multiple
<1>2. p >= 1
  <2>1. SUFFICES ASSUME p <= 0 PROVE FALSE  OBVIOUS
  <2>2. n * p <= 0 BY <2>1
  <2> QED BY <1>1, <2>2
<1>3. n * p >= n  BY <1>2
<1> QED  BY <1>1, <1>3

-----------------------------------------------------------------------------
(* The calendar *)

\* The days before a month, months counted from year 0; the table of months by name.
Before(month) == UTC(0, month, 0)

\* DaysBeforeMonth, month by month.
LEMMA MonthTable ==
    ASSUME NEW y \in Int, NEW l \in Int, l = IF Leap(y) THEN 1 ELSE 0
    PROVE  /\ DaysBeforeMonth(y, 1) = 0        /\ DaysBeforeMonth(y, 2) = 31
           /\ DaysBeforeMonth(y, 3) = 59 + l   /\ DaysBeforeMonth(y, 4) = 90 + l
           /\ DaysBeforeMonth(y, 5) = 120 + l  /\ DaysBeforeMonth(y, 6) = 151 + l
           /\ DaysBeforeMonth(y, 7) = 181 + l  /\ DaysBeforeMonth(y, 8) = 212 + l
           /\ DaysBeforeMonth(y, 9) = 243 + l  /\ DaysBeforeMonth(y, 10) = 273 + l
           /\ DaysBeforeMonth(y, 11) = 304 + l /\ DaysBeforeMonth(y, 12) = 334 + l
BY DEF DaysBeforeMonth

\* The days before a month of the year are a number, and grow by the length of the month.
LEMMA MonthLengths ==
    ASSUME NEW y \in Int
    PROVE  /\ \A m \in 1 .. 12 : DaysBeforeMonth(y, m) \in 0 .. 335
           /\ \A m \in 1 .. 11 : DaysBeforeMonth(y, m + 1) - DaysBeforeMonth(y, m) \in 28 .. 31
           /\ DaysBeforeMonth(y, 1) = 0
           /\ 365 + (IF Leap(y) THEN 1 ELSE 0) - DaysBeforeMonth(y, 12) = 31
<1>1. PICK l : l = IF Leap(y) THEN 1 ELSE 0  OBVIOUS
<1>2. l \in 0 .. 1  BY <1>1
<1>3. /\ DaysBeforeMonth(y, 1) = 0        /\ DaysBeforeMonth(y, 2) = 31
      /\ DaysBeforeMonth(y, 3) = 59 + l   /\ DaysBeforeMonth(y, 4) = 90 + l
      /\ DaysBeforeMonth(y, 5) = 120 + l  /\ DaysBeforeMonth(y, 6) = 151 + l
      /\ DaysBeforeMonth(y, 7) = 181 + l  /\ DaysBeforeMonth(y, 8) = 212 + l
      /\ DaysBeforeMonth(y, 9) = 243 + l  /\ DaysBeforeMonth(y, 10) = 273 + l
      /\ DaysBeforeMonth(y, 11) = 304 + l /\ DaysBeforeMonth(y, 12) = 334 + l
  BY <1>1, <1>2, MonthTable
<1>4. ASSUME NEW m \in 1 .. 12 PROVE DaysBeforeMonth(y, m) \in 0 .. 335
  <2>1. m \in {1, 2, 3, 4, 5, 6, 7, 8, 9, 10, 11, 12}  OBVIOUS
  <2> QED  BY <1>2, <1>3, <2>1
<1>5. ASSUME NEW m \in 1 .. 11
      PROVE  DaysBeforeMonth(y, m + 1) - DaysBeforeMonth(y, m) \in 28 .. 31
  <2>1. m \in {1, 2, 3, 4, 5, 6, 7, 8, 9, 10, 11}  OBVIOUS
  <2>2. \A k \in {1, 2, 3, 4, 5, 6, 7, 8, 9, 10, 11} :
            DaysBeforeMonth(y, k + 1) - DaysBeforeMonth(y, k) \in 28 .. 31
    BY <1>2, <1>3
  <2> QED  BY <2>1, <2>2
<1>6. 365 + (IF Leap(y) THEN 1 ELSE 0) - DaysBeforeMonth(y, 12) = 31  BY <1>1, <1>2, <1>3
<1> QED  BY <1>3, <1>4, <1>5, <1>6

\* The same, months counted from 0.
LEMMA MonthOffset ==
    ASSUME NEW y \in Int, NEW m \in 0 .. 11
    PROVE  DaysBeforeMonth(y, m + 1) \in 0 .. 335
<1>1. PICK k \in 1 .. 12 : k = m + 1  OBVIOUS
<1> QED  BY <1>1, MonthLengths

\* A year has 365 days, or 366.
LEMMA YearLength ==
    ASSUME NEW y \in Int
    PROVE  /\ DaysBeforeYear(y) \in Int
           /\ DaysBeforeYear(y + 1) = DaysBeforeYear(y) + 365 + (IF Leap(y) THEN 1 ELSE 0)
BY DEF DaysBeforeYear, Leap

\* Years follow each other.
LEMMA YearsGrow ==
    ASSUME NEW y \in Int, NEW z \in Int, y < z
    PROVE  DaysBeforeYear(y + 1) <= DaysBeforeYear(z)
BY DEF DaysBeforeYear

\* So many years take between 365 and 366 days each.
LEMMA YearBounds ==
    ASSUME NEW y \in Int, y >= 1
    PROVE  365 * (y - 1) <= DaysBeforeYear(y) /\ DaysBeforeYear(y) <= 366 * (y - 1)
BY DEF DaysBeforeYear

\* The months of a year follow each other in it.
LEMMA BeforeIs ==
    ASSUME NEW y \in Int, NEW m \in 0 .. 11
    PROVE  Before(12 * y + m) = DaysBeforeYear(y) + DaysBeforeMonth(y, m + 1)
<1>1. (12 * y + m) \div 12 = y /\ (12 * y + m) % 12 = m  OBVIOUS
<1>2. DaysBeforeYear(y) \in Int /\ DaysBeforeMonth(y, m + 1) \in Int
  <2>1. DaysBeforeMonth(y, m + 1) \in 0 .. 335  BY MonthOffset
  <2>2. DaysBeforeYear(y) \in Int  BY YearLength
  <2> QED  BY <2>1, <2>2
<1>3. PICK k : k = 12 * y + m  OBVIOUS
<1>4. UTC(0, k, 0) = DaysBeforeYear(0 + y) + DaysBeforeMonth(0 + y, m + 1) + 0
  BY <1>1, <1>3 DEF UTC
<1>5. 0 + y = y  OBVIOUS
<1> QED  BY <1>2, <1>3, <1>4, <1>5 DEF Before

\* Date.UTC counts its days from the start of the month, whichever year spells it.
LEMMA UTCIs ==
    ASSUME NEW y \in Int, NEW m \in Int, NEW d \in Int
    PROVE  UTC(y, m, d) = Before(12 * y + m) + d
<1>1. PICK z \in Int, k \in 0 .. 11 : z = y + (m \div 12) /\ k = m % 12  OBVIOUS
<1>2. 12 * y + m = 12 * z + k  BY <1>1
<1>3. Before(12 * y + m) = DaysBeforeYear(z) + DaysBeforeMonth(z, k + 1)  BY <1>2, BeforeIs
<1>4. UTC(y, m, d) = DaysBeforeYear(z) + DaysBeforeMonth(z, k + 1) + d  BY <1>1 DEF UTC
<1> QED BY <1>3, <1>4

\* A month has 28 to 31 days.
LEMMA MonthDays ==
    ASSUME NEW month \in Int
    PROVE  /\ Before(month) \in Int
           /\ LastDay(month) = Before(month + 1) - Before(month)
           /\ LastDay(month) \in 28 .. 31
<1>1. PICK y \in Int, m \in 0 .. 11 : month = 12 * y + m
  <2>1. month = 12 * (month \div 12) + (month % 12)  OBVIOUS
  <2> QED BY <2>1
<1>2. Before(month) = DaysBeforeYear(y) + DaysBeforeMonth(y, m + 1)  BY <1>1, BeforeIs
<1>3. DaysBeforeYear(y) \in Int /\ DaysBeforeMonth(y, m + 1) \in Int
  <2>1. DaysBeforeMonth(y, m + 1) \in 0 .. 335  BY <1>1, MonthOffset
  <2>2. DaysBeforeYear(y) \in Int  BY <1>1, YearLength
  <2> QED  BY <2>1, <2>2
<1>4. LastDay(month) = Before(month + 1) - Before(month)  BY DEF LastDay, Before
<1>5. CASE m < 11
  <2>1. Before(month + 1) = DaysBeforeYear(y) + DaysBeforeMonth(y, m + 2)
    <3>1. PICK k \in 0 .. 11 : k = m + 1  BY <1>5
    <3>2. month + 1 = 12 * y + k /\ m + 2 = k + 1  BY <1>1, <3>1
    <3> QED  BY <3>2, BeforeIs
  <2>2. PICK k \in 1 .. 11 : k = m + 1  BY <1>5
  <2>3. DaysBeforeMonth(y, k + 1) - DaysBeforeMonth(y, k) \in 28 .. 31  BY MonthLengths
  <2>4. DaysBeforeMonth(y, k + 1) \in 0 .. 335  BY MonthOffset
  <2>5. k + 1 = m + 2  BY <2>2
  <2> QED  BY <1>2, <1>3, <1>4, <2>1, <2>2, <2>3, <2>4, <2>5
<1>6. CASE m = 11
  <2>1. Before(month + 1) = DaysBeforeYear(y + 1) + DaysBeforeMonth(y + 1, 1)
    <3>1. PICK z \in Int, k \in 0 .. 11 : z = y + 1 /\ k = 0  OBVIOUS
    <3>2. month + 1 = 12 * z + k /\ k + 1 = 1  BY <1>1, <1>6, <3>1
    <3> QED  BY <3>1, <3>2, BeforeIs
  <2>2. DaysBeforeMonth(y + 1, 1) = 0  BY MonthLengths
  <2>3. DaysBeforeYear(y + 1) = DaysBeforeYear(y) + 365 + (IF Leap(y) THEN 1 ELSE 0)
    BY YearLength
  <2>4. 365 + (IF Leap(y) THEN 1 ELSE 0) - DaysBeforeMonth(y, 12) = 31  BY MonthLengths
  <2> QED  BY <1>2, <1>3, <1>4, <1>6, <2>1, <2>2, <2>3, <2>4
<1> QED  BY <1>2, <1>3, <1>5, <1>6, <1>4

\* Months follow each other.
LEMMA MonthsGrow ==
    ASSUME NEW a \in Int, NEW b \in Int, a < b
    PROVE  Before(a + 1) <= Before(b)
<1> DEFINE Bad == {k \in Nat : Before(a + 1 + k) < Before(a + 1)}
<1>1. Bad = {}
  <2>1. SUFFICES ASSUME Bad # {} PROVE FALSE  OBVIOUS
  <2>2. PICK k \in Bad : \A j \in Bad : k <= j
    <3>1. Bad \subseteq Nat  OBVIOUS
    <3> QED  BY <2>1, <3>1, LeastNumber
  <2>3. k # 0  
    <3>1. Before(a + 1) \in Int  BY MonthDays
    <3>2. a + 1 + 0 = a + 1 OBVIOUS
    <3> QED BY <2>2, <3>1, <3>2
  <2>4. k - 1 \in Nat /\ k - 1 \notin Bad  BY <2>2, <2>3
  <2>5. PICK c \in Int : c = a + 1 + (k - 1)  BY <2>4
  <2>6. Before(c + 1) - Before(c) \in 28 .. 31 /\ Before(c) \in Int /\ Before(c + 1) \in Int
    BY MonthDays
  <2>7. c + 1 = a + 1 + k  BY <2>2, <2>5
  <2>8. ~ (Before(c) < Before(a + 1))  BY <2>4, <2>5
  <2>9. Before(c + 1) < Before(a + 1)  BY <2>2, <2>7
  <2>10. Before(a + 1) \in Int  BY MonthDays
  <2> QED  BY <2>6, <2>8, <2>9, <2>10
<1>2. PICK k \in Nat : a + 1 + k = b
  <2>1. b - a - 1 \in Nat /\ a + 1 + (b - a - 1) = b  OBVIOUS
  <2> QED  BY <2>1
<1>3. ~ (Before(b) < Before(a + 1))  BY <1>1, <1>2
<1>4. Before(b) \in Int /\ Before(a + 1) \in Int  BY MonthDays
<1> QED  BY <1>4, <1>3

\* Every day is in a year.
LEMMA YearOfDay ==
    ASSUME NEW n \in Nat \ {0}
    PROVE  /\ YearOf(n) \in Nat \ {0}
           /\ DaysBeforeYear(YearOf(n)) < n /\ n <= DaysBeforeYear(YearOf(n) + 1)
<1> DEFINE Late == {y \in Nat : n <= DaysBeforeYear(y + 1)}
<1>1. n \in Late
  <2>1. 365 * n <= DaysBeforeYear(n + 1)
    <3>1. PICK z \in Int : z = n + 1 /\ z >= 1  OBVIOUS
    <3>2. 365 * (z - 1) <= DaysBeforeYear(z)  BY <3>1, YearBounds
    <3> QED  BY <3>1, <3>2
  <2>2. DaysBeforeYear(n + 1) \in Int  BY YearLength
  <2> QED  BY <2>1, <2>2
<1>2. PICK y \in Late : \A z \in Late : y <= z
  <2>1. Late \subseteq Nat /\ Late # {}  BY <1>1
  <2> QED  BY <2>1, LeastNumber
<1>3. y >= 1
  <2>1. DaysBeforeYear(0 + 1) = 0  BY DEF DaysBeforeYear
  <2> QED  BY <1>2, <2>1
<1>4. DaysBeforeYear(y) < n
  <2>1. PICK z \in Nat : z + 1 = y
    <3>1. y - 1 \in Nat /\ (y - 1) + 1 = y  BY <1>2, <1>3
    <3> QED  BY <3>1
  <2>2. z \notin Late  BY <1>2, <2>1
  <2>3. DaysBeforeYear(y) \in Int  BY <1>2, YearLength
  <2> QED  BY <2>1, <2>2, <2>3
<1>5. y \in (n \div 366) .. ((n \div 365) + 1)
  <2>1. 365 * (y - 1) <= DaysBeforeYear(y)  BY <1>2, <1>3, YearBounds
  <2>2. DaysBeforeYear(y + 1) <= 366 * y
    <3>1. PICK z \in Int : z = y + 1 /\ z >= 1  BY <1>2
    <3>2. DaysBeforeYear(z) <= 366 * (z - 1)  BY <3>1, YearBounds
    <3> QED  BY <1>2, <3>1, <3>2
  <2>3. DaysBeforeYear(y) \in Int /\ DaysBeforeYear(y + 1) \in Int  BY <1>2, YearLength
  <2>4. 365 * (y - 1) < n /\ n <= 366 * y  BY <1>2, <1>4, <2>1, <2>2, <2>3
  <2> QED  BY <1>2, <2>4
<1>6. \E z \in (n \div 366) .. ((n \div 365) + 1) :
          DaysBeforeYear(z) < n /\ n <= DaysBeforeYear(z + 1)
  BY <1>2, <1>4, <1>5
<1>7. PICK z : z = YearOf(n)  OBVIOUS
<1>8. /\ z \in (n \div 366) .. ((n \div 365) + 1)
      /\ DaysBeforeYear(z) < n /\ n <= DaysBeforeYear(z + 1)
  BY <1>6, <1>7 DEF YearOf
<1>9. z # 0
  <2>1. DaysBeforeYear(0 + 1) = 0  BY DEF DaysBeforeYear
  <2> QED  BY <1>8, <2>1
<1>10. z \in Nat  BY <1>8
<1> QED  BY <1>7, <1>8, <1>9, <1>10

\* A month of the year starts after those before it.
LEMMA MonthsInOrder ==
    ASSUME NEW y \in Int, NEW i \in 1 .. 12, NEW j \in 1 .. 12, i < j
    PROVE  DaysBeforeMonth(y, i) < DaysBeforeMonth(y, j)
<1>1. PICK l : l = IF Leap(y) THEN 1 ELSE 0  OBVIOUS
<1>2. l \in 0 .. 1  BY <1>1
<1>3. /\ DaysBeforeMonth(y, 1) = 0        /\ DaysBeforeMonth(y, 2) = 31
      /\ DaysBeforeMonth(y, 3) = 59 + l   /\ DaysBeforeMonth(y, 4) = 90 + l
      /\ DaysBeforeMonth(y, 5) = 120 + l  /\ DaysBeforeMonth(y, 6) = 151 + l
      /\ DaysBeforeMonth(y, 7) = 181 + l  /\ DaysBeforeMonth(y, 8) = 212 + l
      /\ DaysBeforeMonth(y, 9) = 243 + l  /\ DaysBeforeMonth(y, 10) = 273 + l
      /\ DaysBeforeMonth(y, 11) = 304 + l /\ DaysBeforeMonth(y, 12) = 334 + l
  BY <1>1, <1>2, MonthTable
<1>4. /\ i \in {1, 2, 3, 4, 5, 6, 7, 8, 9, 10, 11, 12}
      /\ j \in {1, 2, 3, 4, 5, 6, 7, 8, 9, 10, 11, 12}
  OBVIOUS
<1> QED  BY <1>2, <1>3, <1>4

\* A day of a year is in one of its months, and Civil counts those before it.
LEMMA MonthOfYear ==
    ASSUME NEW y \in Int, NEW n \in Int, DaysBeforeYear(y) < n, n <= DaysBeforeYear(y + 1)
    PROVE  \E k \in 0 .. 11 :
              /\ Cardinality({m \in 2 .. 12 : DaysBeforeYear(y) + DaysBeforeMonth(y, m) < n}) = k
              /\ Before(12 * y + k) < n /\ n <= Before(12 * y + k + 1)
<1>1. PICK d : d = DaysBeforeYear(y)  OBVIOUS
<1>2. d \in Int  BY <1>1, YearLength
<1> DEFINE Started == {m \in 1 .. 12 : d + DaysBeforeMonth(y, m) < n}
           Rest == {m \in Nat : m > 12 \/ (m > 0 /\ ~ (d + DaysBeforeMonth(y, m) < n))}
<1>3. 1 \in Started  BY <1>1, <1>2, MonthLengths
<1>4. PICK k \in Rest : \A j \in Rest : k <= j
  <2>1. 13 \in Rest /\ Rest \subseteq Nat  OBVIOUS
  <2> QED  BY <2>1, LeastNumber
<1>5. k \in 2 .. 13
  <2>1. k <= 13  BY <1>4
  <2>2. k # 1 /\ k > 0  BY <1>3, <1>4
  <2> QED  BY <1>4, <2>1, <2>2
<1>6. ASSUME NEW m \in 1 .. 12 PROVE DaysBeforeMonth(y, m) \in Int
  <2>1. DaysBeforeMonth(y, m) \in 0 .. 335  BY MonthLengths
  <2> QED  BY <2>1
<1>7. {m \in 2 .. 12 : d + DaysBeforeMonth(y, m) < n} = 2 .. (k - 1)
  <2>1. ASSUME NEW m \in 2 .. 12, m < k PROVE d + DaysBeforeMonth(y, m) < n
    BY <1>4, <2>1
  <2>2. ASSUME NEW m \in 2 .. 12, k <= m PROVE ~ (d + DaysBeforeMonth(y, m) < n)
    <3>1. k \in 1 .. 12  BY <1>5, <2>2
    <3>2. ~ (d + DaysBeforeMonth(y, k) < n)  BY <1>4, <3>1
    <3>3. k = m \/ DaysBeforeMonth(y, k) < DaysBeforeMonth(y, m)
      BY <2>2, <3>1, MonthsInOrder
    <3>4. DaysBeforeMonth(y, m) \in Int /\ DaysBeforeMonth(y, k) \in Int  BY <1>6, <3>1
    <3> QED  BY <1>2, <3>2, <3>3, <3>4
  <2> QED  BY <1>5, <2>1, <2>2
<1>8. Cardinality(2 .. (k - 1)) = k - 2
  <2>1. 2 \in Int /\ k - 1 \in Int  BY <1>5
  <2>2. Cardinality(2 .. (k - 1)) = IF 2 > k - 1 THEN 0 ELSE (k - 1) - 2 + 1
    BY <2>1, FS_Interval
  <2> QED  BY <1>5, <2>2
<1>9. PICK i \in 0 .. 11 : i = k - 2  BY <1>5
<1>10. Before(12 * y + i) < n
  <2>1. Before(12 * y + i) = d + DaysBeforeMonth(y, i + 1)  BY <1>1, BeforeIs
  <2>2. i + 1 \in 1 .. 12 /\ i + 1 < k  BY <1>9
  <2>3. d + DaysBeforeMonth(y, i + 1) < n  BY <1>4, <2>2
  <2> QED  BY <2>1, <2>3
<1>11. n <= Before(12 * y + i + 1)
  <2>1. CASE k = 13
    <3>1. PICK z \in Int, o \in 0 .. 11 : z = y + 1 /\ o = 0  OBVIOUS
    <3>2. 12 * y + i + 1 = 12 * z + o /\ o + 1 = 1  BY <1>9, <2>1, <3>1
    <3>3. Before(12 * z + o) = DaysBeforeYear(z) + DaysBeforeMonth(z, 1)
      BY <3>2, BeforeIs
    <3>4. DaysBeforeMonth(z, 1) = 0 /\ DaysBeforeYear(z) \in Int  BY MonthLengths, YearLength
    <3> QED  BY <3>1, <3>2, <3>3, <3>4
  <2>2. CASE k # 13
    <3>1. k \in 1 .. 12 /\ ~ (d + DaysBeforeMonth(y, k) < n)  BY <1>4, <1>5, <2>2
    <3>2. PICK o \in 0 .. 11 : o = i + 1 /\ o + 1 = k  BY <1>9, <3>1
    <3>3. Before(12 * y + o) = d + DaysBeforeMonth(y, k)  BY <1>1, <3>2, BeforeIs
    <3>4. DaysBeforeMonth(y, k) \in Int  BY <1>6, <3>1
    <3>5. 12 * y + o = 12 * y + i + 1  BY <3>2
    <3> QED  BY <1>2, <3>1, <3>3, <3>4, <3>5
  <2> QED  BY <2>1, <2>2
<1> QED  BY <1>1, <1>7, <1>8, <1>9, <1>10, <1>11

\* The calendar without a bound.
WholeCalendar == Calendar = Nat \ {0}

\* The month of a day, and its place in it.
LEMMA DayOfMonth ==
    ASSUME WholeCalendar, NEW n \in Nat \ {0}
    PROVE  /\ Year(n) \in Nat \ {0} /\ Month(n) \in 0 .. 11
           /\ MonthNumber(n) \in Nat /\ 12 <= MonthNumber(n)
           /\ n = Before(MonthNumber(n)) + Day(n)
           /\ Day(n) \in 1 .. LastDay(MonthNumber(n)) 
<1>1. PICK y \in Nat \ {0} : /\ y = YearOf(n)
                             /\ DaysBeforeYear(y) < n /\ n <= DaysBeforeYear(y + 1)
  BY YearOfDay
<1>2. PICK k \in 0 .. 11 :
        /\ Cardinality({m \in 2 .. 12 : DaysBeforeYear(y) + DaysBeforeMonth(y, m) < n}) = k
        /\ Before(12 * y + k) < n /\ n <= Before(12 * y + k + 1)
  BY <1>1, MonthOfYear
<1>3. Civil[n] = [year |-> y, month |-> k, day |-> n - UTC(y, k, 0)]
  BY <1>1, <1>2 DEF Civil, WholeCalendar
<1>4. Year(n) = y /\ Month(n) = k /\ Day(n) = n - UTC(y, k, 0)
  BY <1>3 DEF Year, Month, Day
<1>5. PICK month \in Nat : month = 12 * y + k  OBVIOUS
<1>6. UTC(y, k, 0) = Before(month) + 0  BY <1>5, UTCIs
<1>7. Before(month) \in Int /\ Before(month + 1) \in Int
      /\ LastDay(month) = Before(month + 1) - Before(month)
  BY MonthDays
<1>8. MonthNumber(n) = month  BY <1>4, <1>5 DEF MonthNumber
<1>9. Day(n) = n - Before(month)  BY <1>4, <1>6, <1>7
<1> QED  BY <1>2, <1>4, <1>5, <1>7, <1>8, <1>9

\* A day has one month, and one place in it.
LEMMA MonthIs ==
    ASSUME WholeCalendar, NEW month \in Int, NEW d \in 1 .. LastDay(month), NEW n \in Nat \ {0},
           n = Before(month) + d
    PROVE  MonthNumber(n) = month /\ Day(n) = d
<1>1. PICK m \in Nat : m = MonthNumber(n)  BY DayOfMonth
<1>2. n = Before(m) + Day(n) /\ Day(n) \in 1 .. LastDay(m)  BY <1>1, DayOfMonth
<1>3. /\ Before(m) \in Int /\ LastDay(m) \in 28 .. 31 /\ LastDay(m) = Before(m + 1) - Before(m)
      /\ Before(m + 1) \in Int
  BY <1>1, MonthDays
<1>4. /\ Before(month) \in Int /\ LastDay(month) \in 28 .. 31
      /\ LastDay(month) = Before(month + 1) - Before(month) /\ Before(month + 1) \in Int
  BY MonthDays
<1>5. m = month
  <2>1. CASE m < month
    <3>1. Before(m + 1) <= Before(month)  BY <1>1, <2>1, MonthsGrow
    <3> QED  BY <1>2, <1>3, <1>4, <3>1
  <2>2. CASE month < m
    <3>1. Before(month + 1) <= Before(m)  BY <1>1, <2>2, MonthsGrow
    <3> QED  BY <1>2, <1>3, <1>4, <3>1
  <2> QED  BY <1>1, <2>1, <2>2
<1> QED  BY <1>1, <1>2, <1>3, <1>4, <1>5

\* The months from the first on have positive days.
LEMMA BeforePositive ==
    ASSUME NEW month \in Int, 12 <= month
    PROVE  Before(month) \in Nat
<1>1. Before(12) = 0
  <2>1. PICK y \in Int, m \in 0 .. 11 : y = 1 /\ m = 0  OBVIOUS
  <2>2. Before(12 * y + m) = DaysBeforeYear(y) + DaysBeforeMonth(y, m + 1)  BY BeforeIs
  <2>3. DaysBeforeYear(1) = 0  BY DEF DaysBeforeYear
  <2>4. DaysBeforeMonth(1, 1) = 0  BY MonthLengths
  <2>5. 12 * y + m = 12 /\ m + 1 = 1  BY <2>1
  <2> QED  BY <2>1, <2>2, <2>3, <2>4, <2>5
<1>2. Before(month) \in Int /\ Before(13) \in Int /\ Before(12 + 1) >= Before(12)
  <2>1. LastDay(12) \in 28 .. 31 /\ LastDay(12) = Before(12 + 1) - Before(12)
        /\ Before(12) \in Int
    BY MonthDays
  <2>2. Before(month) \in Int /\ Before(12 + 1) \in Int  BY MonthDays
  <2> QED  BY <2>1, <2>2
<1>3. month = 12 \/ Before(12 + 1) <= Before(month)  BY MonthsGrow
<1> QED  BY <1>1, <1>2, <1>3

\* addMonthsClamped: so many months on, the same day or the last one.
LEMMA MonthsOn ==
    ASSUME WholeCalendar, NEW n \in Nat \ {0}, NEW k \in Nat,
           NEW month, month = MonthNumber(n) + k
    PROVE  /\ addMonthsClamped(n, k) = Before(month) + Lesser(Day(n), LastDay(month))
           /\ addMonthsClamped(n, k) \in Nat \ {0}
           /\ MonthNumber(addMonthsClamped(n, k)) = month
           /\ Day(addMonthsClamped(n, k)) = Lesser(Day(n), LastDay(month))
<1>1. /\ Year(n) \in Nat \ {0} /\ Month(n) \in 0 .. 11 /\ MonthNumber(n) \in Nat
      /\ 12 <= MonthNumber(n) /\ Day(n) \in 1 .. LastDay(MonthNumber(n))
  BY DayOfMonth
<1>2. month \in Nat /\ 12 <= month  BY <1>1
<1>3. /\ Before(month) \in Nat /\ Before(month + 1) \in Int /\ LastDay(month) \in 28 .. 31
      /\ LastDay(month) = Before(month + 1) - Before(month)
  <2>1. Before(month) \in Nat  BY <1>2, BeforePositive
  <2>2. LastDay(month) \in 28 .. 31 /\ LastDay(month) = Before(month + 1) - Before(month)
    BY <1>2, MonthDays
  <2>3. Before(month + 1) \in Int  BY <1>2, MonthDays
  <2> QED  BY <2>1, <2>2, <2>3
<1>4. PICK first : first = Before(month) + 1  OBVIOUS
<1>5. UTC(Year(n), Month(n) + k, 1) = first
  <2>1. PICK y \in Int, m \in Int : y = Year(n) /\ m = Month(n) + k  BY <1>1
  <2>2. 12 * y + m = month  BY <1>1, <2>1 DEF MonthNumber
  <2>3. UTC(y, m, 1) = Before(12 * y + m) + 1  BY UTCIs
  <2> QED  BY <1>4, <2>1, <2>2, <2>3
<1>6. first \in Nat \ {0} /\ MonthNumber(first) = month
  <2>1. first \in Nat \ {0} /\ 1 \in 1 .. LastDay(month)  BY <1>3, <1>4
  <2> QED  BY <1>2, <1>4, <2>1, MonthIs
<1>7. Year(first) \in Nat \ {0} /\ Month(first) \in 0 .. 11  BY <1>6, DayOfMonth
<1>8. PICK last : last = Before(month + 1)  OBVIOUS
<1>9. UTC(Year(first), Month(first) + 1, 0) = last
  <2>1. PICK y \in Int, m \in Int : y = Year(first) /\ m = Month(first) + 1  BY <1>7
  <2>2. 12 * y + m = month + 1  BY <1>6, <1>7, <2>1 DEF MonthNumber
  <2>3. UTC(y, m, 0) = Before(12 * y + m) + 0  BY UTCIs
  <2> QED  BY <1>3, <1>8, <2>1, <2>2, <2>3
<1>10. Day(last) = LastDay(month)
  <2>1. last = Before(month) + LastDay(month) /\ last \in Nat \ {0}  BY <1>3, <1>8
  <2>2. LastDay(month) \in 1 .. LastDay(month)  BY <1>3
  <2> QED  BY <1>2, <2>1, <2>2, MonthIs
<1>11. PICK d : d = Lesser(Day(n), LastDay(month))  OBVIOUS
<1>12. d \in 1 .. LastDay(month)
  <2>1. LastDay(MonthNumber(n)) \in Int  BY <1>1, MonthDays
  <2> QED  BY <1>1, <1>3, <1>11, <2>1 DEF Lesser
<1>13. UTC(Year(first), Month(first), d) = Before(month) + d
  <2>1. PICK y \in Int, m \in Int : y = Year(first) /\ m = Month(first)  BY <1>7
  <2>2. 12 * y + m = month  BY <1>6, <2>1 DEF MonthNumber
  <2>3. d \in Int  BY <1>3, <1>12
  <2>4. UTC(y, m, d) = Before(12 * y + m) + d  BY <2>3, UTCIs
  <2> QED  BY <2>1, <2>2, <2>4
<1>14. addMonthsClamped(n, k) = Before(month) + d
  BY <1>5, <1>9, <1>10, <1>11, <1>13 DEF addMonthsClamped
<1>15. Before(month) + d \in Nat \ {0}  BY <1>3, <1>12
<1> QED  BY <1>2, <1>11, <1>12, <1>14, <1>15, MonthIs

-----------------------------------------------------------------------------
(* One step of a rule *)

\* Is `next` the first date after d that belongs to the series that goes through `from`?
FirstAfter(rule, from, d, next) ==
    /\ next \in Nat \ {0} /\ d < next /\ next <= d + Period(rule)
    /\ Falls(rule, from, next)
    /\ \A x \in Nat \ {0} : d < x /\ x < next => ~ Falls(rule, from, x)

\* What each frequency comes to.
LEMMA Frequencies ==
    ASSUME NEW rule, NEW from, NEW d
    PROVE  /\ rule.freq = "DAILY" =>
                /\ After(d, rule) = d + rule.interval /\ Period(rule) = rule.interval
                /\ Falls(rule, from, d) <=> (d - from) % rule.interval = 0
           /\ rule.freq = "WEEKLY" => Period(rule) = 7 * (rule.interval + 1)
           /\ rule.freq = "WEEKLY" /\ rule.byDay = {} =>
                /\ After(d, rule) = d + 7 * rule.interval
                /\ Falls(rule, from, d) <=> (d - from) % (7 * rule.interval) = 0
           /\ rule.freq = "WEEKLY" /\ rule.byDay # {} =>
                /\ After(d, rule) = (d - isoIndex(d)) + IF {x \in rule.byDay : x > isoIndex(d)} # {}
                        THEN Least({x \in rule.byDay : x > isoIndex(d)})
                        ELSE 7 * rule.interval + Least(rule.byDay)
                /\ Falls(rule, from, d) <=>
                        /\ isoIndex(d) \in rule.byDay
                        /\ (((d - 1) \div 7) - ((from - 1) \div 7)) % rule.interval = 0
<1>1. CASE rule.freq = "DAILY"
  <2>1. After(d, rule) = d + rule.interval  BY <1>1, Zenon DEF After
  <2>2. Period(rule) = rule.interval  BY <1>1, Zenon DEF Period
  <2>3. Falls(rule, from, d) <=> (d - from) % rule.interval = 0  BY <1>1, Zenon DEF Falls
  <2> QED  BY <1>1, <2>1, <2>2, <2>3
<1>2. CASE rule.freq = "WEEKLY"
  <2>0. rule.freq # "DAILY"  BY <1>2
  <2>1. Period(rule) = 7 * (rule.interval + 1)  BY <1>2, <2>0, Zenon DEF Period
  <2>2. CASE rule.byDay = {}
    <3>1. After(d, rule) = d + 7 * rule.interval  BY <1>2, <2>0, <2>2, Zenon DEF After
    <3>2. Falls(rule, from, d) <=> (d - from) % (7 * rule.interval) = 0
      BY <1>2, <2>0, <2>2, Zenon DEF Falls
    <3> QED  BY <1>2, <2>1, <2>2, <3>1, <3>2
  <2>3. CASE rule.byDay # {}
    <3>1. After(d, rule) = (d - isoIndex(d)) + IF {x \in rule.byDay : x > isoIndex(d)} # {}
                THEN Least({x \in rule.byDay : x > isoIndex(d)})
                ELSE 7 * rule.interval + Least(rule.byDay)
      BY <1>2, <2>0, <2>3, Zenon DEF After
    <3>2. Falls(rule, from, d) <=>
                /\ isoIndex(d) \in rule.byDay
                /\ (((d - 1) \div 7) - ((from - 1) \div 7)) % rule.interval = 0
      BY <1>2, <2>0, <2>3, Zenon DEF Falls
    <3> QED  BY <1>2, <2>1, <2>3, <3>1, <3>2
  <2> QED  BY <2>2, <2>3
<1>3. CASE rule.freq # "DAILY" /\ rule.freq # "WEEKLY"  BY <1>3
<1> QED  BY <1>1, <1>2, <1>3

\* A rule of so many days goes to the first date it means.
LEMMA DailyStep ==
    ASSUME NEW rule \in Rules, rule.freq = "DAILY", NEW from \in Nat \ {0}, NEW d \in Nat \ {0},
           d = from \/ Falls(rule, from, d)
    PROVE  FirstAfter(rule, from, d, After(d, rule))
<1>1. PICK n \in Nat \ {0} : n = rule.interval  BY DEF Rules, MAX_INTERVAL
<1>2. After(d, rule) = d + n  BY <1>1, Frequencies
<1>3. Period(rule) = n  BY <1>1, Frequencies
<1>4. ASSUME NEW x \in Int PROVE Falls(rule, from, x) <=> (x - from) % n = 0
  BY <1>1, Frequencies
<1>5. (d - from) % n = 0
  <2>1. from - from = 0 /\ 0 % n = 0  OBVIOUS
  <2> QED  BY <1>4, <2>1
<1>6. Falls(rule, from, d + n)
  <2>1. PICK a \in Int : a = d - from  OBVIOUS
  <2>2. (a + n) % n = 0  BY <1>1, <1>5, <2>1, NextMultiple
  <2>3. a + n = (d + n) - from  BY <2>1
  <2> QED  BY <1>4, <2>2, <2>3
<1>7. ASSUME NEW x \in Nat \ {0}, d < x, x < d + n PROVE ~ Falls(rule, from, x)
  <2>1. SUFFICES ASSUME Falls(rule, from, x) PROVE FALSE  OBVIOUS
  <2>2. PICK a \in Int, b \in Int : a = d - from /\ b = x - from  OBVIOUS
  <2>3. a % n = 0 /\ b % n = 0  BY <1>4, <1>5, <2>1, <2>2
  <2>4. (b - a) % n = 0  BY <1>1, <2>2, <2>3, Multiples
  <2>5. n <= b - a
    <3>1. b - a \in Int /\ 0 < b - a  BY <1>7, <2>2
    <3> QED  BY <1>1, <2>2, <2>4, <3>1, MultiplesApart
  <2> QED  BY <1>7, <2>2, <2>5
<1> QED  BY <1>2, <1>3, <1>6, <1>7 DEF FirstAfter

\* A rule of so many weeks is one of seven times as many days.
LEMMA WeeksStep ==
    ASSUME NEW rule \in Rules, rule.freq = "WEEKLY", rule.byDay = {},
           NEW from \in Nat \ {0}, NEW d \in Nat \ {0}, d = from \/ Falls(rule, from, d)
    PROVE  FirstAfter(rule, from, d, After(d, rule))
<1>1. PICK n \in Nat \ {0} : n = 7 * rule.interval  BY DEF Rules, MAX_INTERVAL
<1>2. After(d, rule) = d + n  BY <1>1, Frequencies
<1>3. Period(rule) \in Nat /\ n <= Period(rule)
  <2>1. PICK i \in Nat : i = rule.interval  BY DEF Rules, MAX_INTERVAL
  <2>2. Period(rule) = 7 * (i + 1)  BY <2>1, Frequencies
  <2> QED  BY <1>1, <2>1, <2>2
<1>4. ASSUME NEW x \in Int PROVE Falls(rule, from, x) <=> (x - from) % n = 0
  BY <1>1, Frequencies
<1>5. (d - from) % n = 0
  <2>1. from - from = 0 /\ 0 % n = 0  OBVIOUS
  <2> QED  BY <1>4, <2>1
<1>6. Falls(rule, from, d + n)
  <2>1. PICK a \in Int : a = d - from  OBVIOUS
  <2>2. (a + n) % n = 0  BY <1>1, <1>5, <2>1, NextMultiple
  <2>3. a + n = (d + n) - from  BY <2>1
  <2> QED  BY <1>4, <2>2, <2>3
<1>7. ASSUME NEW x \in Nat \ {0}, d < x, x < d + n PROVE ~ Falls(rule, from, x)
  <2>1. SUFFICES ASSUME Falls(rule, from, x) PROVE FALSE  OBVIOUS
  <2>2. PICK a \in Int, b \in Int : a = d - from /\ b = x - from  OBVIOUS
  <2>3. a % n = 0 /\ b % n = 0  BY <1>4, <1>5, <2>1, <2>2
  <2>4. (b - a) % n = 0  BY <1>1, <2>2, <2>3, Multiples
  <2>5. n <= b - a
    <3>1. b - a \in Int /\ 0 < b - a  BY <1>7, <2>2
    <3> QED  BY <1>1, <2>2, <2>4, <3>1, MultiplesApart
  <2> QED  BY <1>7, <2>2, <2>5
<1> QED  BY <1>2, <1>3, <1>6, <1>7 DEF FirstAfter

\* The week of a day, and its place in it.
Week(n) == (n - 1) \div 7

\* A day is its week, and its weekday in it.
LEMMA DayOfWeek ==
    ASSUME NEW n \in Int
    PROVE  Week(n) \in Int /\ isoIndex(n) \in 0 .. 6 /\ n = 7 * Week(n) + isoIndex(n) + 1
BY DEF Week, isoIndex

\* A day has one week, and one weekday.
LEMMA WeekIs ==
    ASSUME NEW w \in Int, NEW i \in 0 .. 6
    PROVE  Week(7 * w + i + 1) = w /\ isoIndex(7 * w + i + 1) = i
BY DEF Week, isoIndex

\* Is a number a multiple of another?
Divides(n, a) == a % n = 0

\* Is `next` the first day after d that is one of these weekdays, in a week that counts from v?
NextDay(days, n, v, d, next) ==
    /\ next \in Nat \ {0} /\ d < next /\ next <= d + 7 * (n + 1)
    /\ isoIndex(next) \in days /\ Divides(n, Week(next) - v)
    /\ \A x \in Nat \ {0} : d < x /\ x < next => ~ (isoIndex(x) \in days /\ Divides(n, Week(x) - v))

\* The next weekday is later in the week ...
LEMMA ThisWeek ==
    ASSUME NEW n \in Nat \ {0}, NEW days \in SUBSET (0 .. 6), NEW d \in Nat \ {0},
           NEW v \in Int, Divides(n, Week(d) - v), NEW l \in 0 .. 6, l \in days, isoIndex(d) < l,
           \A j \in days : j > isoIndex(d) => l <= j
    PROVE  NextDay(days, n, v, d, (d - isoIndex(d)) + l)
<1>1. PICK w \in Int, i \in Int : w = Week(d) /\ i = isoIndex(d) /\ 0 <= i /\ i <= 6 /\ d = 7 * w + i + 1
  <2>1. Week(d) \in Int /\ isoIndex(d) \in 0 .. 6 /\ d = 7 * Week(d) + isoIndex(d) + 1
    BY DayOfWeek
  <2> QED  BY <2>1
<1>2. 0 <= i /\ i < l /\ d = 7 * w + i + 1  BY <1>1
<1>3. PICK next \in Int : next = (d - i) + l  BY <1>1
<1>4. next = 7 * w + l + 1 /\ next \in Nat \ {0} /\ d < next /\ next <= d + 7 * (n + 1)
  BY <1>2, <1>3
<1>5. isoIndex(next) = l /\ Week(next) = w
  <2>1. next = 7 * w + l + 1  BY <1>4
  <2>2. Week(7 * w + l + 1) = w /\ isoIndex(7 * w + l + 1) = l  BY WeekIs, Zenon
  <2> QED  BY <2>1, <2>2, Zenon
<1>6. ASSUME NEW x \in Nat \ {0}, d < x, x < next PROVE isoIndex(x) \notin days
  <2>1. PICK wx \in Int, ix \in Int : ix = isoIndex(x) /\ 0 <= ix /\ ix <= 6 /\ x = 7 * wx + ix + 1
    <3>1. Week(x) \in Int /\ isoIndex(x) \in 0 .. 6 /\ x = 7 * Week(x) + isoIndex(x) + 1
      BY DayOfWeek
    <3> QED  BY <3>1
  <2>2. 0 <= ix /\ ix <= 6 /\ x = 7 * wx + ix + 1  BY <2>1
  <2>3. i < ix /\ ix < l  BY <1>2, <1>4, <1>6, <2>2
  <2> QED  BY <1>1, <2>1, <2>3
<1> QED  BY <1>1, <1>3, <1>4, <1>5, <1>6 DEF NextDay

\* ... or it is the first one of the next week that counts.
LEMMA LaterWeek ==
    ASSUME NEW n \in Nat \ {0}, NEW days \in SUBSET (0 .. 6), NEW d \in Nat \ {0},
           NEW v \in Int, Divides(n, Week(d) - v), NEW l \in 0 .. 6, l \in days,
           \A j \in days : j <= isoIndex(d) /\ l <= j
    PROVE  NextDay(days, n, v, d, (d - isoIndex(d)) + (7 * n + l))
<1>1. PICK w \in Int, i \in Int : w = Week(d) /\ i = isoIndex(d) /\ 0 <= i /\ i <= 6 /\ d = 7 * w + i + 1
  <2>1. Week(d) \in Int /\ isoIndex(d) \in 0 .. 6 /\ d = 7 * Week(d) + isoIndex(d) + 1
    BY DayOfWeek
  <2> QED  BY <2>1
<1>2. PICK next \in Int, u \in Int : next = (d - i) + (7 * n + l) /\ u = w + n  BY <1>1
<1>3. 0 <= i /\ i <= 6 /\ l <= i /\ d = 7 * w + i + 1  BY <1>1
<1>4. next = 7 * u + l + 1 /\ next \in Nat \ {0} /\ d < next /\ next <= d + 7 * (n + 1)
  BY <1>2, <1>3
<1>5. isoIndex(next) = l /\ Week(next) = u
  <2>1. next = 7 * u + l + 1  BY <1>4
  <2>2. Week(7 * u + l + 1) = u /\ isoIndex(7 * u + l + 1) = l  BY WeekIs, Zenon
  <2> QED  BY <2>1, <2>2, Zenon
<1>6. PICK a \in Int : a = w - v  BY <1>1
<1>7. a % n = 0  BY <1>1, <1>6 DEF Divides
<1>8. Divides(n, u - v)
  <2>1. (a + n) % n = 0  BY <1>6, <1>7, NextMultiple
  <2>2. u - v = a + n  BY <1>2, <1>6
  <2> QED  BY <2>1, <2>2 DEF Divides
<1>9. ASSUME NEW x \in Nat \ {0}, d < x, x < next, isoIndex(x) \in days, Divides(n, Week(x) - v)
      PROVE  FALSE
  <2>1. PICK wx \in Int, ix \in Int :
            wx = Week(x) /\ ix = isoIndex(x) /\ 0 <= ix /\ ix <= 6 /\ x = 7 * wx + ix + 1
    <3>1. Week(x) \in Int /\ isoIndex(x) \in 0 .. 6 /\ x = 7 * Week(x) + isoIndex(x) + 1
      BY DayOfWeek
    <3> QED  BY <3>1
  <2>2. ix <= i /\ l <= ix /\ x = 7 * wx + ix + 1  BY <1>1, <1>9, <2>1
  <2>3. w < wx /\ wx < w + n  BY <1>2, <1>3, <1>4, <1>9, <2>2
  <2>4. PICK b \in Int : b = wx - v  BY <2>1
  <2>5. b % n = 0  BY <1>9, <2>1, <2>4 DEF Divides
  <2>6. PICK c \in Int : c = b - a  BY <1>6, <2>4
  <2>7. c % n = 0
    <3>1. (b - a) % n = 0  BY <1>6, <1>7, <2>4, <2>5, Multiples
    <3> QED  BY <2>6, <3>1
  <2>8. 0 < c /\ c < n  BY <1>6, <2>3, <2>4, <2>6
  <2>9. n <= c  BY <2>6, <2>7, <2>8, MultiplesApart
  <2> QED  BY <2>6, <2>8, <2>9
<1> QED  BY <1>1, <1>2, <1>4, <1>5, <1>8, <1>9 DEF NextDay

\* The weekday, of the days given and in weeks n apart from week v, that follows a day.
LEMMA NextWeekday ==
    ASSUME NEW n \in Nat \ {0}, NEW days \in SUBSET (0 .. 6), days # {}, NEW d \in Nat \ {0},
           NEW v \in Int, Divides(n, Week(d) - v)
    PROVE  NextDay(days, n, v, d,
                (d - isoIndex(d)) + IF {x \in days : x > isoIndex(d)} # {}
                        THEN Least({x \in days : x > isoIndex(d)}) ELSE 7 * n + Least(days))
<1>1. PICK later \in SUBSET (0 .. 6) : later = {x \in days : x > isoIndex(d)}
  <2>1. {x \in days : x > isoIndex(d)} \in SUBSET (0 .. 6)  OBVIOUS
  <2> QED  BY <2>1
<1>2. CASE later # {}
  <2>1. PICK l \in 0 .. 6 : l = Least(later) /\ l \in later /\ \A x \in later : l <= x
    <3>1. later \subseteq Nat  BY <1>1
    <3>2. Least(later) \in later /\ \A x \in later : Least(later) <= x  BY <1>2, <3>1, LeastOf
    <3> QED  BY <1>1, <3>2
  <2>2. l \in days /\ isoIndex(d) < l /\ \A x \in days : x > isoIndex(d) => l <= x
    <3>1. isoIndex(d) \in 0 .. 6  BY DayOfWeek
    <3> QED  BY <1>1, <2>1, <3>1
  <2>3. NextDay(days, n, v, d, (d - isoIndex(d)) + l)  BY <2>1, <2>2, ThisWeek
  <2> QED  BY <1>1, <1>2, <2>1, <2>3, Zenon
<1>3. CASE later = {}
  <2>1. PICK l \in 0 .. 6 : l = Least(days) /\ l \in days /\ \A x \in days : l <= x
    <3>1. days \subseteq Nat  OBVIOUS
    <3>2. Least(days) \in days /\ \A x \in days : Least(days) <= x  BY <3>1, LeastOf
    <3> QED  BY <3>2
  <2>2. \A x \in days : x <= isoIndex(d) /\ l <= x
    <3>1. isoIndex(d) \in 0 .. 6  BY DayOfWeek
    <3> QED  BY <1>1, <1>3, <2>1, <3>1
  <2>3. NextDay(days, n, v, d, (d - isoIndex(d)) + (7 * n + l))  BY <2>1, <2>2, LaterWeek
  <2> QED  BY <1>1, <1>3, <2>1, <2>3, Zenon
<1> QED  BY <1>2, <1>3

\* A rule with weekdays goes to the next of them in the week, or to the first one of the
\* next week that counts.
LEMMA WeekdaysStep ==
    ASSUME NEW rule \in Rules, rule.freq = "WEEKLY", rule.byDay # {},
           NEW from \in Nat \ {0}, NEW d \in Nat \ {0}, d = from \/ Falls(rule, from, d)
    PROVE  FirstAfter(rule, from, d, After(d, rule))
<1>1. PICK n \in Nat \ {0} : n = rule.interval  BY DEF Rules, MAX_INTERVAL
<1>2. PICK days \in SUBSET (0 .. 6) : days = rule.byDay  BY DEF Rules, WEEKDAYS
<1>3. PICK v \in Int : v = Week(from)
  <2>1. Week(from) \in Int  BY DayOfWeek
  <2> QED  BY <2>1
<1>4. ASSUME NEW x \in Int
      PROVE  Falls(rule, from, x) <=> isoIndex(x) \in days /\ Divides(n, Week(x) - v)
  BY <1>1, <1>2, <1>3, Frequencies DEF Week, Divides
<1>5. Divides(n, Week(d) - v)
  <2>1. v - v = 0 /\ 0 % n = 0  BY <1>1, <1>3
  <2> QED  BY <1>3, <1>4, <2>1 DEF Divides
<1>6. NextDay(days, n, v, d,
                (d - isoIndex(d)) + IF {x \in days : x > isoIndex(d)} # {}
                        THEN Least({x \in days : x > isoIndex(d)}) ELSE 7 * n + Least(days))
  <2>1. days # {}  BY <1>2
  <2> QED  BY <1>1, <1>2, <1>3, <1>5, <2>1, NextWeekday
<1>7. NextDay(days, n, v, d, After(d, rule))  BY <1>1, <1>2, <1>6, Frequencies
<1>8. Period(rule) = 7 * (n + 1)  BY <1>1, Frequencies
<1> QED  BY <1>4, <1>7, <1>8 DEF FirstAfter, NextDay

-----------------------------------------------------------------------------
(* Monthly and yearly steps *)

\* No month has more than 31 days.
LEMMA MonthsSpan ==
    ASSUME NEW month \in Int, NEW k \in Nat
    PROVE  Before(month + k) <= Before(month) + 31 * k
<1> DEFINE Bad == {j \in Nat : ~ (Before(month + j) <= Before(month) + 31 * j)}
<1>1. SUFFICES Bad = {}  OBVIOUS
<1>2. SUFFICES ASSUME Bad # {} PROVE FALSE  OBVIOUS
<1>3. PICK j \in Bad : \A i \in Bad : j <= i
  <2>1. Bad \subseteq Nat  OBVIOUS
  <2> QED  BY <1>2, <2>1, LeastNumber
<1>4. j # 0
  <2>1. Before(month) \in Int /\ month + 0 = month  BY MonthDays
  <2> QED  BY <1>3, <2>1
<1>5. PICK i \in Nat : j = i + 1 /\ i \notin Bad
  <2>1. j - 1 \in Nat /\ j = (j - 1) + 1 /\ j - 1 \notin Bad  BY <1>3, <1>4
  <2> QED  BY <2>1
<1>6. Before(month + i) <= Before(month) + 31 * i  BY <1>5
<1>7. PICK c \in Int : c = month + i  OBVIOUS
<1>8. /\ Before(month) \in Int /\ Before(c) \in Int /\ Before(c + 1) \in Int
      /\ Before(c + 1) - Before(c) \in 28 .. 31
  BY MonthDays
<1>9. c + 1 = month + j  BY <1>5, <1>7
<1>10. Before(month + j) <= Before(month) + 31 * j  BY <1>5, <1>6, <1>7, <1>8, <1>9
<1> QED  BY <1>3, <1>10

\* Later days are not in earlier months.
LEMMA MonthsFollow ==
    ASSUME WholeCalendar, NEW a \in Nat \ {0}, NEW b \in Nat \ {0}, a < b
    PROVE  MonthNumber(a) <= MonthNumber(b)
<1>1. SUFFICES ASSUME MonthNumber(b) < MonthNumber(a) PROVE FALSE
  BY DayOfMonth
<1>2. PICK m \in Nat, l \in Nat : m = MonthNumber(a) /\ l = MonthNumber(b)  BY DayOfMonth
<1>3. l < m  BY <1>1, <1>2
<1>4. Before(l + 1) <= Before(m)  BY <1>3, MonthsGrow
<1>5. Before(l) \in Int /\ Before(l + 1) \in Int /\ Before(m) \in Int
      /\ LastDay(l) \in 28 .. 31 /\ LastDay(l) = Before(l + 1) - Before(l)
      /\ LastDay(m) \in 28 .. 31
  BY MonthDays
<1>6. PICK i \in Int, j \in Int : i = Day(a) /\ j = Day(b)
  <2>1. Day(a) \in 1 .. LastDay(m) /\ Day(b) \in 1 .. LastDay(l)  BY <1>2, DayOfMonth
  <2> QED  BY <1>5, <2>1
<1>7. 1 <= i /\ j <= LastDay(l)
  <2>1. Day(a) \in 1 .. LastDay(m) /\ Day(b) \in 1 .. LastDay(l)  BY <1>2, DayOfMonth
  <2> QED  BY <1>5, <1>6, <2>1
<1>8. a = Before(m) + i /\ b = Before(l) + j  BY <1>2, <1>6, DayOfMonth
<1> QED  BY <1>4, <1>5, <1>7, <1>8

\* The months of a rule that have passed, and the day its occurrences have come to.
Passed(k, elapsed) == {m \in 1 .. elapsed : m % k = 0}
DayAfter(from, k, elapsed) ==
    Least({Day(from)} \cup {LastDay(MonthNumber(from) + m) : m \in Passed(k, elapsed)})

\* What a monthly or yearly rule comes to.
LEMMA MonthFrequencies ==
    ASSUME NEW rule, NEW from, NEW d, rule.freq # "DAILY", rule.freq # "WEEKLY"
    PROVE  /\ After(d, rule) = addMonthsClamped(d, MonthsOf(rule))
           /\ Period(rule) = 31 * MonthsOf(rule)
           /\ Falls(rule, from, d) <=>
                /\ MonthNumber(d) - MonthNumber(from) > 0
                /\ (MonthNumber(d) - MonthNumber(from)) % MonthsOf(rule) = 0
                /\ Day(d) = DayAfter(from, MonthsOf(rule), MonthNumber(d) - MonthNumber(from))
<1>1. After(d, rule) = addMonthsClamped(d, MonthsOf(rule))  BY Zenon DEF After, MonthsOf
<1>2. Period(rule) = 31 * MonthsOf(rule)  BY Zenon DEF Period
<1>3. Falls(rule, from, d) <=>
                /\ MonthNumber(d) - MonthNumber(from) > 0
                /\ (MonthNumber(d) - MonthNumber(from)) % MonthsOf(rule) = 0
                /\ Day(d) = DayAfter(from, MonthsOf(rule), MonthNumber(d) - MonthNumber(from))
  BY Zenon DEF Falls, DayAfter, Passed
<1> QED  BY <1>1, <1>2, <1>3

\* One more month of a rule has passed.
LEMMA PassedOn ==
    ASSUME NEW k \in Nat \ {0}, NEW e \in Nat, e % k = 0
    PROVE  Passed(k, e + k) = Passed(k, e) \cup {e + k}
<1>1. PICK f \in Nat : f = e + k  OBVIOUS
<1>2. f % k = 0
  <2>0. e \in Int  OBVIOUS
  <2>1. (e + k) % k = 0  BY <2>0, NextMultiple, Zenon
  <2> QED  BY <1>1, <2>1
<1>3. ASSUME NEW m \in Nat, e < m, m < f PROVE m % k # 0
  <2>1. SUFFICES ASSUME m % k = 0 PROVE FALSE  OBVIOUS
  <2>2. PICK c \in Int : c = m - e  OBVIOUS
  <2>3. c % k = 0
    <3>1. PICK a \in Int, b \in Int : a = e /\ b = m  OBVIOUS
    <3>2. a % k = 0 /\ b % k = 0  BY <2>1, <3>1
    <3>3. (b - a) % k = 0  BY <3>2, Multiples
    <3> QED  BY <2>2, <3>1, <3>3
  <2>4. 0 < c /\ c < k  BY <1>1, <1>3, <2>2
  <2>5. k <= c  BY <2>3, <2>4, MultiplesApart
  <2> QED  BY <2>4, <2>5
<1>4. 1 .. f = (1 .. e) \cup {m \in Nat : e < m /\ m < f} \cup {f}
  <2>1. e < f  BY <1>1
  <2> QED  BY <2>1
<1>5. ASSUME NEW m PROVE m \in Passed(k, f) <=> m \in Passed(k, e) \cup {f}
  <2>1. m \in Passed(k, f) <=> m \in 1 .. f /\ m % k = 0  BY DEF Passed
  <2>2. m \in Passed(k, e) <=> m \in 1 .. e /\ m % k = 0  BY DEF Passed
  <2> QED  BY <1>2, <1>3, <1>4, <2>1, <2>2
<1> QED  BY <1>1, <1>5

\* One more number: the least is the lesser.
LEMMA LeastWith ==
    ASSUME NEW S, S \subseteq Nat, S # {}, NEW x \in Nat
    PROVE  Least(S \cup {x}) = Lesser(Least(S), x)
<1>1. PICK l \in S : l = Least(S) /\ \A y \in S : l <= y
  <2>1. Least(S) \in S /\ \A y \in S : Least(S) <= y  BY LeastOf
  <2> QED  BY <2>1
<1>2. PICK k \in Nat : k = Lesser(l, x)  BY DEF Lesser
<1>3. k \in S \cup {x} /\ k <= x /\ k <= l  BY <1>2 DEF Lesser
<1>4. \A y \in S \cup {x} : k <= y  BY <1>1, <1>3
<1>5. S \cup {x} \subseteq Int  OBVIOUS
<1>6. Least(S \cup {x}) = k  BY <1>3, <1>4, <1>5, LeastIs
<1> QED  BY <1>1, <1>2, <1>6

\* The day of the next occurrence is that of the last one, or the last day of its month.
LEMMA DayOn ==
    ASSUME WholeCalendar, NEW from \in Nat \ {0}, NEW k \in Nat \ {0}, NEW e \in Nat, e % k = 0
    PROVE  DayAfter(from, k, e + k) =
                Lesser(DayAfter(from, k, e), LastDay(MonthNumber(from) + (e + k)))
<1> DEFINE S == {Day(from)} \cup {LastDay(MonthNumber(from) + m) : m \in Passed(k, e)}
           x == LastDay(MonthNumber(from) + (e + k))
<1>1. MonthNumber(from) \in Nat  BY DayOfMonth
<1>2. ASSUME NEW m \in Nat PROVE LastDay(MonthNumber(from) + m) \in Nat
  <2>1. MonthNumber(from) + m \in Int  BY <1>1
  <2>2. LastDay(MonthNumber(from) + m) \in 28 .. 31  BY <2>1, MonthDays
  <2> QED  BY <2>2
<1>3. x \in Nat
  <2>1. e + k \in Nat  OBVIOUS
  <2> QED  BY <1>2, <2>1
<1>4. Day(from) \in Nat
  <2>1. Day(from) \in 1 .. LastDay(MonthNumber(from))  BY DayOfMonth
  <2>2. LastDay(MonthNumber(from)) \in 28 .. 31  BY <1>1, MonthDays
  <2> QED  BY <2>1, <2>2
<1>5. Passed(k, e) \subseteq Nat  BY DEF Passed
<1>6. S \subseteq Nat /\ S # {}  BY <1>2, <1>4, <1>5
<1>7. Least(S \cup {x}) = Lesser(Least(S), x)  BY <1>3, <1>6, LeastWith
<1>8. S \cup {x} = {Day(from)} \cup {LastDay(MonthNumber(from) + m) : m \in Passed(k, e + k)}
  <2>1. Passed(k, e + k) = Passed(k, e) \cup {e + k}  BY PassedOn
  <2> QED  BY <2>1, Zenon
<1> QED  BY <1>7, <1>8 DEF DayAfter

\* A monthly or yearly rule goes to the first date it means: the day of the month carried on, or
\* the last day of a month that lacks it.
LEMMA MonthlyStep ==
    ASSUME WholeCalendar, NEW rule \in Rules, rule.freq # "DAILY", rule.freq # "WEEKLY",
           NEW from \in Nat \ {0}, NEW d \in Nat \ {0}, d = from \/ Falls(rule, from, d)
    PROVE  FirstAfter(rule, from, d, After(d, rule))
<1>1. PICK k \in Nat \ {0} : k = MonthsOf(rule)
  <2>1. PICK i \in Nat \ {0} : i = rule.interval  BY DEF Rules, MAX_INTERVAL
  <2>2. 12 * i \in Nat \ {0} /\ 1 * i \in Nat \ {0}  OBVIOUS
  <2> QED  BY <2>1, <2>2 DEF MonthsOf
<1>2. PICK m \in Nat : m = MonthNumber(from)  BY DayOfMonth
<1>3. ASSUME NEW x
      PROVE  Falls(rule, from, x) <=>
                /\ MonthNumber(x) - m > 0 /\ (MonthNumber(x) - m) % k = 0
                /\ Day(x) = DayAfter(from, k, MonthNumber(x) - m)
  BY <1>1, <1>2, MonthFrequencies
<1>4. PICK e \in Nat : MonthNumber(d) = m + e /\ e % k = 0 /\ Day(d) = DayAfter(from, k, e)
  <2>1. CASE d = from
    <3>1. MonthNumber(d) = m + 0 /\ 0 % k = 0  BY <1>2, <2>1
    <3>2. Day(from) \in Int
      <4>1. LastDay(m) \in 28 .. 31  BY MonthDays
      <4>2. Day(from) \in 1 .. LastDay(m)  BY <1>2, DayOfMonth
      <4> QED  BY <4>1, <4>2
    <3>3. DayAfter(from, k, 0) = Day(from)
      <4>1. Passed(k, 0) = {}  BY DEF Passed
      <4>2. DayAfter(from, k, 0) = Least({Day(from)})  BY <4>1, Zenon DEF DayAfter
      <4>3. Least({Day(from)}) = Day(from)
        <5>1. PICK i \in Int : i = Day(from)  BY <3>2
        <5>2. Least({i}) = i  BY LeastIs
        <5> QED  BY <5>1, <5>2
      <4> QED  BY <4>2, <4>3
    <3> QED  BY <2>1, <3>1, <3>3
  <2>2. CASE Falls(rule, from, d)
    <3>1. PICK h \in Nat : h = MonthNumber(d)  BY DayOfMonth
    <3>2. PICK e \in Int : e = h - m  OBVIOUS
    <3>3. e > 0 /\ e % k = 0 /\ Day(d) = DayAfter(from, k, e)  BY <1>3, <2>2, <3>1, <3>2
    <3>4. h = m + e /\ e \in Nat  BY <3>2, <3>3
    <3> QED  BY <3>1, <3>3, <3>4
  <2> QED  BY <2>1, <2>2
<1>5. PICK f \in Nat : f = e + k  OBVIOUS
<1>6. f % k = 0
  <2>0. e \in Int  OBVIOUS
  <2>1. (e + k) % k = 0  BY <1>4, <2>0, NextMultiple, Zenon
  <2> QED  BY <1>5, <2>1
<1>7. PICK h \in Nat : h = m + e  OBVIOUS
<1>8. PICK next \in Nat \ {0} :
        /\ next = After(d, rule) /\ next = Before(h + k) + Day(next)
        /\ MonthNumber(next) = h + k /\ Day(next) = Lesser(Day(d), LastDay(h + k))
  <2>1. MonthNumber(d) + k = h + k  BY <1>4, <1>7
  <2>2. After(d, rule) = addMonthsClamped(d, k)  BY <1>1, MonthFrequencies
  <2>3. /\ addMonthsClamped(d, k) = Before(h + k) + Lesser(Day(d), LastDay(h + k))
        /\ addMonthsClamped(d, k) \in Nat \ {0}
        /\ MonthNumber(addMonthsClamped(d, k)) = h + k
        /\ Day(addMonthsClamped(d, k)) = Lesser(Day(d), LastDay(h + k))
    BY <2>1, MonthsOn
  <2> QED  BY <2>2, <2>3, Zenon
<1>9. h + k = m + f  BY <1>5, <1>7
<1>10. Day(next) = DayAfter(from, k, f)
  <2>1. DayAfter(from, k, e + k) =
                Lesser(DayAfter(from, k, e), LastDay(MonthNumber(from) + (e + k)))
    BY <1>4, DayOn
  <2> QED  BY <1>2, <1>4, <1>5, <1>8, <1>9, <2>1
<1>11. Falls(rule, from, next)
  <2>1. (m + f) - m = f /\ f > 0  BY <1>5
  <2> QED  BY <1>3, <1>6, <1>8, <1>9, <1>10, <2>1
<1>12. PICK i \in Nat \ {0}, j \in Nat \ {0} :
        /\ i = Day(d) /\ j = Day(next) /\ i <= LastDay(h) /\ j <= i
  <2>1. LastDay(h) \in 28 .. 31 /\ LastDay(h + k) \in 28 .. 31  BY MonthDays
  <2>2. Day(d) \in 1 .. LastDay(h)  BY <1>4, <1>7, DayOfMonth
  <2>3. PICK i \in Nat \ {0} : i = Day(d) /\ i <= LastDay(h)  BY <2>1, <2>2
  <2>4. PICK l \in Nat \ {0} : l = LastDay(h + k)  BY <2>1
  <2>5. Lesser(i, l) \in Nat \ {0} /\ Lesser(i, l) <= i  BY DEF Lesser
  <2> QED  BY <1>8, <2>3, <2>4, <2>5
<1>13. PICK a \in Int, b \in Int : a = Before(h) /\ b = Before(h + k)
  <2>1. Before(h) \in Int /\ Before(h + k) \in Int  BY MonthDays
  <2> QED  BY <2>1
<1>14. d = a + i /\ next = b + j
  <2>1. d = Before(h) + Day(d)  BY <1>4, <1>7, DayOfMonth
  <2> QED  BY <1>8, <1>12, <1>13, <2>1
<1>15. a + i <= b
  <2>1. Before(h + 1) \in Int /\ LastDay(h) = Before(h + 1) - Before(h)  BY MonthDays
  <2>2. h + 1 = h + k \/ Before(h + 1) <= Before(h + k)
    <3>1. CASE k = 1  BY <3>1
    <3>2. CASE k # 1
      <4>1. PICK g \in Int : g = h + k /\ h < g  OBVIOUS
      <4>2. Before(h + 1) <= Before(g)  BY <4>1, MonthsGrow
      <4> QED  BY <4>1, <4>2
    <3> QED  BY <3>1, <3>2
  <2>3. PICK c \in Int : c = Before(h + 1)  BY <2>1
  <2>4. c <= b  BY <1>13, <2>2, <2>3
  <2>5. i <= c - a  BY <1>12, <1>13, <2>1, <2>3
  <2> QED  BY <2>4, <2>5
<1>16. b <= a + 31 * k
  <2>1. Before(h + k) <= Before(h) + 31 * k  BY MonthsSpan
  <2> QED  BY <1>13, <2>1
<1>17. j <= i  BY <1>12
<1>18. d < next /\ next <= d + 31 * k  BY <1>14, <1>15, <1>16, <1>17
<1>19. ASSUME NEW x \in Nat \ {0}, d < x, x < next, Falls(rule, from, x) PROVE FALSE
  <2>1. PICK g \in Nat : g = MonthNumber(x)  BY DayOfMonth
  <2>2. h <= g /\ g <= h + k
    <3>1. MonthNumber(d) <= MonthNumber(x)  BY <1>19, MonthsFollow
    <3>2. MonthNumber(x) <= MonthNumber(next)  BY <1>19, MonthsFollow
    <3> QED  BY <1>4, <1>7, <1>8, <2>1, <3>1, <3>2
  <2>3. PICK o \in Int : o = g - m  OBVIOUS
  <2>4. o % k = 0 /\ Day(x) = DayAfter(from, k, o)  BY <1>3, <1>19, <2>1, <2>3
  <2>5. PICK p \in Int : p = o - e  OBVIOUS
  <2>6. p % k = 0
    <3>1. PICK q \in Int : q = e  OBVIOUS
    <3>2. q % k = 0  BY <1>4, <3>1
    <3>3. (o - q) % k = 0  BY <2>4, <3>2, Multiples
    <3> QED  BY <2>5, <3>1, <3>3
  <2>7. 0 <= p /\ p <= k  BY <1>7, <2>2, <2>3, <2>5
  <2>8. p = 0 \/ p = k
    <3>1. 0 < p => k <= p  BY <2>6, MultiplesApart
    <3> QED  BY <2>7, <3>1
  <2>9. CASE p = 0
    <3>1. o = e /\ g = h  BY <1>7, <2>3, <2>5, <2>9
    <3>2. Day(x) = Day(d) /\ MonthNumber(x) = h  BY <1>4, <2>1, <2>4, <3>1
    <3>3. x = Before(h) + Day(x)  BY <3>2, DayOfMonth
    <3>4. x = d  BY <1>12, <1>13, <1>14, <3>2, <3>3
    <3> QED  BY <1>19, <3>4
  <2>10. CASE p = k
    <3>1. o = f /\ g = h + k  BY <1>5, <1>7, <2>3, <2>5, <2>10
    <3>2. Day(x) = Day(next) /\ MonthNumber(x) = h + k  BY <1>10, <2>1, <2>4, <3>1
    <3>3. x = Before(h + k) + Day(x)  BY <3>2, DayOfMonth
    <3>4. x = next  BY <1>8, <3>2, <3>3
    <3> QED  BY <1>19, <3>4
  <2> QED  BY <2>8, <2>9, <2>10
<1>20. Period(rule) = 31 * k  BY <1>1, MonthFrequencies
<1> QED  BY <1>8, <1>11, <1>18, <1>19, <1>20 DEF FirstAfter

\* Whatever the frequency, a step leads to the first date the rule means.
LEMMA StepIsFirst ==
    ASSUME WholeCalendar, NEW rule \in Rules, NEW from \in Nat \ {0}, NEW d \in Nat \ {0},
           d = from \/ Falls(rule, from, d)
    PROVE  FirstAfter(rule, from, d, After(d, rule))
<1>1. CASE rule.freq = "DAILY"  BY <1>1, DailyStep
<1>2. CASE rule.freq = "WEEKLY" /\ rule.byDay = {}  BY <1>2, WeeksStep
<1>3. CASE rule.freq = "WEEKLY" /\ rule.byDay # {}  BY <1>3, WeekdaysStep
<1>4. CASE rule.freq # "DAILY" /\ rule.freq # "WEEKLY"  BY <1>4, MonthlyStep
<1> QED  BY <1>1, <1>2, <1>3, <1>4

-----------------------------------------------------------------------------
(* Catching up *)

\* The page and the server step alike.
LEMMA PortsStep ==
    ASSUME NEW rule \in Rules, NEW d \in Nat \ {0}
    PROVE  occurrenceAfter(d, rule) = After(d, rule)
<1>1. CASE rule.freq = "DAILY"
  <2>1. occurrenceAfter(d, rule) = d + rule.interval  BY <1>1, Zenon DEF occurrenceAfter
  <2>2. After(d, rule) = d + rule.interval  BY <1>1, Zenon DEF After
  <2> QED  BY <2>1, <2>2
<1>2. CASE rule.freq = "WEEKLY"
  <2>0. rule.freq # "DAILY"  BY <1>2
  <2>1. CASE rule.byDay = {}
    <3>1. occurrenceAfter(d, rule) = d + 7 * rule.interval
      BY <1>2, <2>0, <2>1, Zenon DEF occurrenceAfter
    <3>2. After(d, rule) = d + 7 * rule.interval  BY <1>2, <2>0, <2>1, Zenon DEF After
    <3> QED  BY <3>1, <3>2
  <2>2. CASE rule.byDay # {}
    <3>1. PICK later \in SUBSET (0 .. 6) : later = {x \in rule.byDay : x > isoIndex(d)}
      <4>1. {x \in rule.byDay : x > isoIndex(d)} \in SUBSET (0 .. 6)  BY DEF Rules, WEEKDAYS
      <4> QED  BY <4>1
    <3>2. PICK i \in Int : i = isoIndex(d)
      <4>1. isoIndex(d) \in 0 .. 6  BY DayOfWeek
      <4> QED  BY <4>1
    <3>3. PICK n \in Int : n = rule.interval  BY DEF Rules, MAX_INTERVAL
    <3>4. CASE later # {}
      <4>1. occurrenceAfter(d, rule) = d + Least(later) - i
        BY <1>2, <2>0, <2>2, <3>1, <3>2, <3>4, Zenon DEF occurrenceAfter
      <4>2. After(d, rule) = (d - i) + Least(later)
        BY <1>2, <2>0, <2>2, <3>1, <3>2, <3>4, Zenon DEF After
      <4>3. PICK l \in Int : l = Least(later)
        <5>1. later \subseteq Nat  BY <3>1
        <5>2. Least(later) \in later  BY <3>4, <5>1, LeastOf
        <5>3. Least(later) \in 0 .. 6  BY <5>2
        <5> QED  BY <5>3
      <4>4. (d - i) + l = d + l - i  OBVIOUS
      <4> QED  BY <4>1, <4>2, <4>3, <4>4
    <3>5. CASE later = {}
      <4>1. occurrenceAfter(d, rule) = d + 7 * n - i + Least(rule.byDay)
        BY <1>2, <2>0, <2>2, <3>1, <3>2, <3>3, <3>5, Zenon DEF occurrenceAfter
      <4>2. After(d, rule) = (d - i) + (7 * n + Least(rule.byDay))
        BY <1>2, <2>0, <2>2, <3>1, <3>2, <3>3, <3>5, Zenon DEF After
      <4>3. PICK l \in Int : l = Least(rule.byDay)
        <5>1. rule.byDay \subseteq Nat  BY DEF Rules, WEEKDAYS
        <5>2. Least(rule.byDay) \in rule.byDay  BY <2>2, <5>1, LeastOf
        <5> QED  BY <5>1, <5>2
      <4>4. (d - i) + (7 * n + l) = d + 7 * n - i + l  OBVIOUS
      <4> QED  BY <4>1, <4>2, <4>3, <4>4
    <3> QED  BY <3>4, <3>5
  <2> QED  BY <2>1, <2>2
<1>3. CASE rule.freq = "MONTHLY"
  <2>0. rule.freq # "DAILY" /\ rule.freq # "WEEKLY" /\ rule.freq # "YEARLY"  BY <1>3
  <2>1. occurrenceAfter(d, rule) = addMonthsClamped(d, rule.interval)
    BY <1>3, <2>0, Zenon DEF occurrenceAfter
  <2>2. After(d, rule) = addMonthsClamped(d, 1 * rule.interval)  BY <2>0, Zenon DEF After
  <2>3. 1 * rule.interval = rule.interval  BY DEF Rules, MAX_INTERVAL
  <2> QED  BY <2>1, <2>2, <2>3
<1>4. CASE rule.freq = "YEARLY"
  <2>0. rule.freq # "DAILY" /\ rule.freq # "WEEKLY" /\ rule.freq # "MONTHLY"  BY <1>4
  <2>1. occurrenceAfter(d, rule) = addMonthsClamped(d, 12 * rule.interval)
    BY <2>0, Zenon DEF occurrenceAfter
  <2>2. After(d, rule) = addMonthsClamped(d, 12 * rule.interval)  BY <1>4, <2>0, Zenon DEF After
  <2> QED  BY <2>1, <2>2
<1> QED  BY <1>1, <1>2, <1>3, <1>4 DEF Rules, FREQS

\* What a step leads to is a day.
LEMMA AfterIsDay ==
    ASSUME WholeCalendar, NEW rule \in Rules, NEW d \in Nat \ {0}
    PROVE  After(d, rule) \in Nat \ {0} /\ d < After(d, rule)
<1>1. FirstAfter(rule, d, d, After(d, rule))  BY StepIsFirst
<1> QED  BY <1>1 DEF FirstAfter

\* The dates stepped through, up to the n-th, by the server and by the page.
StepsTo(f, n, from, rule, day) ==
    f = [i \in 0 .. n |->
            IF i = 0 THEN After(from, rule)
            ELSE LET next == f[i - 1] IN IF next <= day THEN After(next, rule) ELSE next]
PageStepsTo(f, n, from, rule, day) ==
    f = [i \in 0 .. n |->
            IF i = 0 THEN occurrenceAfter(from, rule)
            ELSE LET next == f[i - 1] IN IF next <= day THEN occurrenceAfter(next, rule) ELSE next]

\* Steps may be made from any date, any number of times.
LEMMA StepsExist ==
    ASSUME NEW from, NEW rule, NEW day, NEW n \in Nat
    PROVE  \E f : StepsTo(f, n, from, rule, day)
<1> DEFINE Bad == {m \in Nat : ~ \E f : StepsTo(f, m, from, rule, day)}
<1>1. SUFFICES ASSUME Bad # {} PROVE FALSE  OBVIOUS
<1>2. PICK m \in Bad : \A k \in Bad : m <= k
  <2>1. Bad \subseteq Nat  OBVIOUS
  <2> QED  BY <1>1, <2>1, LeastNumber
<1>3. m # 0
  <2>1. PICK f : f = [i \in 0 .. 0 |-> After(from, rule)]  OBVIOUS
  <2>2. \A i \in 0 .. 0 : i = 0  OBVIOUS
  <2>3. StepsTo(f, 0, from, rule, day)  BY <2>1, <2>2 DEF StepsTo
  <2> QED  BY <1>2, <2>3
<1>4. PICK k \in Nat : m = k + 1 /\ k \notin Bad
  <2>1. m - 1 \in Nat /\ m = (m - 1) + 1 /\ m - 1 \notin Bad  BY <1>2, <1>3
  <2> QED  BY <2>1
<1>5. PICK f : StepsTo(f, k, from, rule, day)  BY <1>4
<1>6. PICK last : last = IF f[k] <= day THEN After(f[k], rule) ELSE f[k]  OBVIOUS
<1>7. PICK g : g = [i \in 0 .. m |-> IF i = m THEN last ELSE f[i]]  OBVIOUS
<1>8. DOMAIN f = 0 .. k  BY <1>5 DEF StepsTo
<1>9. ASSUME NEW i \in 0 .. m
      PROVE  g[i] = IF i = 0 THEN After(from, rule)
                    ELSE LET next == g[i - 1] IN IF next <= day THEN After(next, rule) ELSE next
  <2>1. CASE i = m
    <3>1. g[i] = last /\ i # 0 /\ i - 1 = k  BY <1>4, <1>7, <2>1
    <3>2. g[k] = f[k]  BY <1>4, <1>7
    <3> QED  BY <1>6, <3>1, <3>2
  <2>2. CASE i # m
    <3>1. i \in 0 .. k /\ g[i] = f[i]  BY <1>4, <1>7, <2>2
    <3>2. i # 0 => i - 1 \in 0 .. m /\ i - 1 # m  BY <1>4, <3>1
    <3>3. i # 0 => g[i - 1] = f[i - 1]  BY <1>7, <3>2
    <3>4. f[i] = IF i = 0 THEN After(from, rule)
                 ELSE LET next == f[i - 1] IN IF next <= day THEN After(next, rule) ELSE next
      BY <1>5, <3>1 DEF StepsTo
    <3> QED  BY <3>1, <3>3, <3>4
  <2> QED  BY <2>1, <2>2
<1>10. StepsTo(g, m, from, rule, day)
  <2>1. g = [i \in 0 .. m |-> g[i]]  BY <1>7
  <2> QED  BY <1>9, <2>1, Zenon DEF StepsTo
<1> QED  BY <1>2, <1>10

\* The server's first step, and each after it.
LEMMA StepsAre ==
    ASSUME NEW f, NEW n \in Nat, NEW from, NEW rule, NEW day, StepsTo(f, n, from, rule, day)
    PROVE  /\ f[0] = After(from, rule)
           /\ \A i \in 1 .. n : f[i] = IF f[i - 1] <= day THEN After(f[i - 1], rule) ELSE f[i - 1]
BY DEF StepsTo

\* The page's.
LEMMA PageStepsAre ==
    ASSUME NEW f, NEW n \in Nat, NEW from, NEW rule, NEW day, PageStepsTo(f, n, from, rule, day)
    PROVE  /\ f[0] = occurrenceAfter(from, rule)
           /\ \A i \in 1 .. n : f[i] = IF f[i - 1] <= day THEN occurrenceAfter(f[i - 1], rule)
                                       ELSE f[i - 1]
BY DEF PageStepsTo

\* Of the same calendar, both step through days.
LEMMA StepsAreDays ==
    ASSUME WholeCalendar, NEW f, NEW n \in Nat, NEW from \in Nat \ {0}, NEW rule \in Rules,
           NEW day \in Nat, StepsTo(f, n, from, rule, day) \/ PageStepsTo(f, n, from, rule, day),
           NEW i \in 0 .. n
    PROVE  f[i] \in Nat \ {0}
<1> DEFINE Bad == {j \in Nat : j <= n /\ f[j] \notin Nat \ {0}}
<1>1. SUFFICES ASSUME Bad # {} PROVE FALSE  OBVIOUS
<1>2. PICK j \in Bad : \A k \in Bad : j <= k
  <2>1. Bad \subseteq Nat  OBVIOUS
  <2> QED  BY <1>1, <2>1, LeastNumber
<1>3. \A d \in Nat \ {0} : After(d, rule) \in Nat \ {0} /\ occurrenceAfter(d, rule) = After(d, rule)
  BY AfterIsDay, PortsStep
<1>4. j # 0
  <2>1. f[0] = After(from, rule) \/ f[0] = occurrenceAfter(from, rule)  BY StepsAre, PageStepsAre
  <2>2. f[0] \in Nat \ {0}  BY <1>3, <2>1
  <2> QED  BY <1>2, <2>2
<1>5. PICK k \in Nat : j = k + 1 /\ f[k] \in Nat \ {0} /\ j \in 1 .. n
  <2>1. j - 1 \in Nat /\ j = (j - 1) + 1 /\ j - 1 \notin Bad /\ j \in 1 .. n  BY <1>2, <1>4
  <2> QED  BY <2>1
<1>6. j - 1 = k  BY <1>5
<1>7. \/ f[j] = IF f[k] <= day THEN After(f[k], rule) ELSE f[k]
      \/ f[j] = IF f[k] <= day THEN occurrenceAfter(f[k], rule) ELSE f[k]
  BY <1>5, <1>6, StepsAre, PageStepsAre
<1>8. f[j] \in Nat \ {0}  BY <1>3, <1>5, <1>7
<1> QED  BY <1>2, <1>8

\* So the page's steps are the server's.
LEMMA PagesSteps ==
    ASSUME WholeCalendar, NEW f, NEW n \in Nat, NEW from \in Nat \ {0}, NEW rule \in Rules,
           NEW day \in Nat
    PROVE  StepsTo(f, n, from, rule, day) <=> PageStepsTo(f, n, from, rule, day)
<1>1. SUFFICES ASSUME StepsTo(f, n, from, rule, day) \/ PageStepsTo(f, n, from, rule, day)
               PROVE  StepsTo(f, n, from, rule, day) <=> PageStepsTo(f, n, from, rule, day)
  OBVIOUS
<1>2. \A i \in 0 .. n : f[i] \in Nat \ {0}  BY <1>1, StepsAreDays
<1>3. \A d \in Nat \ {0} : occurrenceAfter(d, rule) = After(d, rule)  BY PortsStep
<1>4. ASSUME NEW i \in 0 .. n
      PROVE  (IF i = 0 THEN After(from, rule)
              ELSE LET next == f[i - 1] IN IF next <= day THEN After(next, rule) ELSE next)
             = (IF i = 0 THEN occurrenceAfter(from, rule)
                ELSE LET next == f[i - 1] IN IF next <= day THEN occurrenceAfter(next, rule) ELSE next)
  <2>1. i # 0 => i - 1 \in 0 .. n  OBVIOUS
  <2> QED  BY <1>2, <1>3, <2>1
<1>5. [i \in 0 .. n |-> IF i = 0 THEN After(from, rule)
              ELSE LET next == f[i - 1] IN IF next <= day THEN After(next, rule) ELSE next]
      = [i \in 0 .. n |-> IF i = 0 THEN occurrenceAfter(from, rule)
              ELSE LET next == f[i - 1] IN IF next <= day THEN occurrenceAfter(next, rule) ELSE next]
  BY <1>4, Zenon
<1> QED  BY <1>5, Zenon DEF StepsTo, PageStepsTo

\* They are the same whichever way they are chosen.
LEMMA StepsUnique ==
    ASSUME NEW f, NEW g, NEW n \in Nat, NEW from, NEW rule, NEW day,
           StepsTo(f, n, from, rule, day), StepsTo(g, n, from, rule, day), NEW i \in 0 .. n
    PROVE  f[i] = g[i]
<1> DEFINE Bad == {j \in Nat : j <= n /\ f[j] # g[j]}
<1>1. SUFFICES ASSUME Bad # {} PROVE FALSE  OBVIOUS
<1>2. PICK j \in Bad : \A k \in Bad : j <= k
  <2>1. Bad \subseteq Nat  OBVIOUS
  <2> QED  BY <1>1, <2>1, LeastNumber
<1>3. j # 0  BY <1>2, StepsAre
<1>4. PICK k \in Nat : j - 1 = k /\ f[k] = g[k] /\ j \in 1 .. n
  <2>1. j - 1 \in Nat /\ j - 1 \notin Bad /\ j - 1 <= n /\ j \in 1 .. n  BY <1>2, <1>3
  <2> QED  BY <2>1
<1>5. /\ f[j] = IF f[k] <= day THEN After(f[k], rule) ELSE f[k]
      /\ g[j] = IF g[k] <= day THEN After(g[k], rule) ELSE g[k]
  BY <1>4, StepsAre
<1> QED  BY <1>2, <1>4, <1>5

\* Both catch up to the last of those steps.
LEMMA CatchUpIs ==
    ASSUME WholeCalendar, NEW from \in Nat \ {0}, NEW rule \in Rules, NEW day \in Nat,
           NEW f, StepsTo(f, MaxSteps, from, rule, day)
    PROVE  /\ CatchUp(After, from, rule, day) = f[MaxSteps]
           /\ CatchUp(occurrenceAfter, from, rule, day) = f[MaxSteps]
<1>0. MaxSteps \in Nat /\ MaxSteps \in 0 .. MaxSteps  BY RecurrenceAssumption
<1>1. \E g : StepsTo(g, MaxSteps, from, rule, day)  BY <1>0, StepsExist
<1>2. \E g : PageStepsTo(g, MaxSteps, from, rule, day)  BY <1>0, <1>1, PagesSteps
<1>3. PICK g : StepsTo(g, MaxSteps, from, rule, day)
               /\ CatchUp(After, from, rule, day) = g[MaxSteps]
  BY <1>1 DEF CatchUp, StepsTo
<1>4. PICK h : PageStepsTo(h, MaxSteps, from, rule, day)
               /\ CatchUp(occurrenceAfter, from, rule, day) = h[MaxSteps]
  BY <1>2 DEF CatchUp, PageStepsTo
<1>5. StepsTo(h, MaxSteps, from, rule, day)  BY <1>0, <1>4, PagesSteps
<1>6. g[MaxSteps] = f[MaxSteps] /\ h[MaxSteps] = f[MaxSteps]  BY <1>0, <1>3, <1>5, StepsUnique
<1> QED  BY <1>3, <1>4, <1>6

-----------------------------------------------------------------------------
(* What catching up comes to *)

\* The occurrences after `from`, up to a date.
Occurrences(rule, from, date) == {x \in (from + 1) .. date : Falls(rule, from, x)}

\* Occurrences up to a date may be counted.
LEMMA OccurrencesFinite ==
    ASSUME NEW rule, NEW from \in Nat \ {0}, NEW date \in Int
    PROVE  /\ IsFiniteSet(Occurrences(rule, from, date))
           /\ Cardinality(Occurrences(rule, from, date)) \in Nat
<1>1. IsFiniteSet((from + 1) .. date)
  <2>1. from + 1 \in Int  OBVIOUS
  <2> QED  BY <2>1, FS_Interval
<1>2. Occurrences(rule, from, date) \subseteq (from + 1) .. date  BY DEF Occurrences
<1>3. IsFiniteSet(Occurrences(rule, from, date))  BY <1>1, <1>2, FS_Subset
<1> QED  BY <1>3, FS_CardinalityType

\* Where stepping has come to after i steps: an occurrence after `from`, all earlier ones of
\* which have passed, and i of which have if it has passed itself.
CaughtUp(rule, from, day, i, next) ==
    /\ next \in Nat \ {0} /\ from < next /\ Falls(rule, from, next)
    /\ next <= from + Period(rule) \/ next <= day + Period(rule)
    /\ \A x \in Nat \ {0} : from < x /\ x < next /\ Falls(rule, from, x) => x <= day
    /\ Cardinality(Occurrences(rule, from, next)) > i \/ next > day

\* The first step leads to the first occurrence.
LEMMA FirstCaughtUp ==
    ASSUME WholeCalendar, NEW rule \in Rules, NEW from \in Nat \ {0}, NEW day \in Nat
    PROVE  CaughtUp(rule, from, day, 0, After(from, rule))
<1>1. PICK next : next = After(from, rule)  OBVIOUS
<1>2. FirstAfter(rule, from, from, next)  BY <1>1, StepIsFirst
<1>3. next \in Nat \ {0} /\ from < next /\ Falls(rule, from, next) /\ next <= from + Period(rule)
  BY <1>2 DEF FirstAfter
<1>4. \A x \in Nat \ {0} : from < x /\ x < next => ~ Falls(rule, from, x)
  BY <1>2 DEF FirstAfter
<1>5. Cardinality(Occurrences(rule, from, next)) > 0
  <2>1. next \in Occurrences(rule, from, next)  BY <1>3 DEF Occurrences
  <2>2. /\ IsFiniteSet(Occurrences(rule, from, next))
        /\ Cardinality(Occurrences(rule, from, next)) \in Nat
    BY <1>3, OccurrencesFinite
  <2>3. Cardinality(Occurrences(rule, from, next)) # 0  BY <2>1, <2>2, FS_EmptySet
  <2> QED  BY <2>2, <2>3
<1> QED  BY <1>1, <1>3, <1>4, <1>5 DEF CaughtUp

\* The period of a rule is a number of days.
LEMMA PeriodIs ==
    ASSUME NEW rule \in Rules
    PROVE  Period(rule) \in Int
<1>1. PICK n \in Nat \ {0} : n = rule.interval  BY DEF Rules, MAX_INTERVAL
<1>2. 12 * n \in Int /\ 1 * n \in Int  OBVIOUS
<1>3. PICK k \in Int : k = MonthsOf(rule)  BY <1>1, <1>2 DEF MonthsOf
<1>4. CASE rule.freq = "DAILY"
  <2>1. Period(rule) = rule.interval  BY <1>4, Zenon DEF Period
  <2> QED  BY <1>1, <2>1
<1>5. CASE rule.freq = "WEEKLY"
  <2>1. Period(rule) = 7 * (n + 1)  BY <1>1, <1>5, Frequencies
  <2> QED  BY <2>1
<1>6. CASE rule.freq # "DAILY" /\ rule.freq # "WEEKLY"
  <2>1. Period(rule) = 31 * k  BY <1>3, <1>6, MonthFrequencies
  <2> QED  BY <2>1
<1> QED  BY <1>4, <1>5, <1>6

\* A step from an occurrence that has passed leads to the next, and one more has passed.
LEMMA NextCaughtUp ==
    ASSUME WholeCalendar, NEW rule \in Rules, NEW from \in Nat \ {0}, NEW day \in Nat,
           NEW i \in Nat, NEW d, CaughtUp(rule, from, day, i, d), d <= day
    PROVE  CaughtUp(rule, from, day, i + 1, After(d, rule))
<1>1. PICK next : next = After(d, rule)  OBVIOUS
<1>2. d \in Nat \ {0} /\ from < d /\ Falls(rule, from, d)  BY DEF CaughtUp
<1>3. FirstAfter(rule, from, d, next)  BY <1>1, <1>2, StepIsFirst
<1>4. next \in Nat \ {0} /\ d < next /\ Falls(rule, from, next) /\ next <= d + Period(rule)
  BY <1>3 DEF FirstAfter
<1>5. PICK p \in Int : p = Period(rule)  BY PeriodIs
<1>6. from < next /\ next <= day + p  BY <1>2, <1>4, <1>5
<1>7. ASSUME NEW x \in Nat \ {0}, from < x, x < next, Falls(rule, from, x) PROVE x <= day
  <2>1. ~ (d < x /\ x < next)  BY <1>3, <1>7 DEF FirstAfter
  <2> QED  BY <1>2, <1>7, <2>1
<1>8. Cardinality(Occurrences(rule, from, next)) > i + 1
  <2>1. PICK S : S = Occurrences(rule, from, d)  OBVIOUS
  <2>2. IsFiniteSet(S) /\ Cardinality(S) \in Nat  BY <1>2, <2>1, OccurrencesFinite
  <2>3. Cardinality(S) > i  BY <1>2, <2>1 DEF CaughtUp
  <2>4. next \notin S  BY <1>2, <1>4, <2>1 DEF Occurrences
  <2>5. Occurrences(rule, from, next) = S \cup {next}
    <3>1. ASSUME NEW x \in Nat \ {0}, from < x, x <= next, Falls(rule, from, x)
          PROVE  x <= d \/ x = next
      <4>1. ~ (d < x /\ x < next)  BY <1>3, <3>1 DEF FirstAfter
      <4> QED  BY <1>2, <1>4, <3>1, <4>1
    <3>2. Occurrences(rule, from, next) \subseteq S \cup {next}
      <4>1. SUFFICES ASSUME NEW x \in Occurrences(rule, from, next) PROVE x \in S \cup {next}
        OBVIOUS
      <4>2. x \in Nat \ {0} /\ from < x /\ x <= next /\ Falls(rule, from, x)
        BY <1>4 DEF Occurrences
      <4>3. x <= d \/ x = next  BY <3>1, <4>2
      <4> QED  BY <1>2, <2>1, <4>2, <4>3 DEF Occurrences
    <3>3. next \in Occurrences(rule, from, next)  BY <1>4, <1>6 DEF Occurrences
    <3>4. S \subseteq Occurrences(rule, from, next)
      BY <1>2, <1>4, <2>1 DEF Occurrences
    <3> QED  BY <3>2, <3>3, <3>4
  <2>6. Cardinality(S \cup {next}) = Cardinality(S) + 1  BY <2>2, <2>4, FS_AddElement
  <2> QED  BY <2>2, <2>3, <2>5, <2>6
<1> QED  BY <1>1, <1>4, <1>5, <1>6, <1>7, <1>8 DEF CaughtUp

\* So each step is caught up with, or the one before was past today.
LEMMA StepsCatchUp ==
    ASSUME WholeCalendar, NEW f, NEW n \in Nat, NEW from \in Nat \ {0}, NEW rule \in Rules,
           NEW day \in Nat, StepsTo(f, n, from, rule, day), NEW i \in 0 .. n
    PROVE  CaughtUp(rule, from, day, i, f[i])
<1> DEFINE Bad == {j \in Nat : j <= n /\ ~ CaughtUp(rule, from, day, j, f[j])}
<1>1. SUFFICES ASSUME Bad # {} PROVE FALSE  OBVIOUS
<1>2. PICK j \in Bad : \A k \in Bad : j <= k
  <2>1. Bad \subseteq Nat  OBVIOUS
  <2> QED  BY <1>1, <2>1, LeastNumber
<1>3. j # 0
  <2>1. CaughtUp(rule, from, day, 0, f[0])  BY StepsAre, FirstCaughtUp
  <2> QED  BY <1>2, <2>1
<1>4. PICK k \in Nat : j = k + 1 /\ j - 1 = k /\ CaughtUp(rule, from, day, k, f[k]) /\ j \in 1 .. n
  <2>1. j - 1 \in Nat /\ j = (j - 1) + 1 /\ j - 1 \notin Bad /\ j - 1 <= n /\ j \in 1 .. n
    BY <1>2, <1>3
  <2> QED  BY <2>1
<1>5. f[j] = IF f[k] <= day THEN After(f[k], rule) ELSE f[k]  BY <1>4, StepsAre
<1>6. CASE f[k] <= day
  <2>1. CaughtUp(rule, from, day, k + 1, After(f[k], rule))  BY <1>4, <1>6, NextCaughtUp
  <2> QED  BY <1>2, <1>4, <1>5, <1>6, <2>1
<1>7. CASE ~ (f[k] <= day)
  <2>1. f[j] = f[k]  BY <1>5, <1>7
  <2>2. f[k] > day
    <3>1. f[k] \in Nat  BY <1>4 DEF CaughtUp
    <3> QED  BY <1>7, <3>1
  <2>3. CaughtUp(rule, from, day, j, f[k])  BY <1>4, <2>2 DEF CaughtUp
  <2> QED  BY <1>2, <2>1, <2>3
<1> QED  BY <1>6, <1>7

\* The page and the server catch up to the same date, past today unless more occurrences were
\* missed than steps are made.
LEMMA CatchUpMeans ==
    ASSUME WholeCalendar, NEW from \in Nat \ {0}, NEW rule \in Rules, NEW day \in Nat
    PROVE  /\ CaughtUp(rule, from, day, MaxSteps, CatchUp(After, from, rule, day))
           /\ CatchUp(occurrenceAfter, from, rule, day) = CatchUp(After, from, rule, day)
<1>0. MaxSteps \in Nat /\ MaxSteps \in 0 .. MaxSteps  BY RecurrenceAssumption
<1>1. PICK f : StepsTo(f, MaxSteps, from, rule, day)  BY <1>0, StepsExist
<1>2. CaughtUp(rule, from, day, MaxSteps, f[MaxSteps])  BY <1>0, <1>1, StepsCatchUp
<1> QED  BY <1>1, <1>2, CatchUpIs

\* It is the first occurrence after both dates.
LEMMA FirstOccurrence ==
    ASSUME WholeCalendar, NEW from \in Nat \ {0}, NEW rule \in Rules, NEW day \in Nat,
           NEW next, next = CatchUp(After, from, rule, day),
           NEW last, last = IF from > day THEN from ELSE day,
           Cardinality(Occurrences(rule, from, day)) <= MaxSteps
    PROVE  Least({d \in (last + 1) .. (last + Period(rule)) : Falls(rule, from, d)}) = next
<1>0. MaxSteps \in Nat  BY RecurrenceAssumption
<1>1. CaughtUp(rule, from, day, MaxSteps, next)  BY CatchUpMeans
<1>2. next \in Nat \ {0} /\ from < next /\ Falls(rule, from, next)  BY <1>1 DEF CaughtUp
<1>3. next > day
  <2>1. SUFFICES ASSUME next <= day PROVE FALSE  BY <1>2
  <2>2. Cardinality(Occurrences(rule, from, next)) > MaxSteps
    BY <1>1, <1>2, <2>1 DEF CaughtUp
  <2>3. Occurrences(rule, from, next) \subseteq Occurrences(rule, from, day)
    BY <1>2, <2>1 DEF Occurrences
  <2>4. IsFiniteSet(Occurrences(rule, from, day))  BY OccurrencesFinite
  <2>5. Cardinality(Occurrences(rule, from, next)) <= Cardinality(Occurrences(rule, from, day))
    BY <2>3, <2>4, FS_Subset
  <2>6. Cardinality(Occurrences(rule, from, next)) \in Nat
        /\ Cardinality(Occurrences(rule, from, day)) \in Nat
    BY <1>2, OccurrencesFinite
  <2> QED  BY <1>0, <2>2, <2>5, <2>6
<1>4. last \in Nat /\ last < next /\ from <= last /\ day <= last  BY <1>2, <1>3
<1>5. next <= last + Period(rule)
  <2>1. next <= from + Period(rule) \/ next <= day + Period(rule)  BY <1>1 DEF CaughtUp
  <2>2. PICK p \in Int : p = Period(rule)  BY PeriodIs
  <2>3. next <= from + p \/ next <= day + p  BY <2>1, <2>2
  <2>4. next <= last + p  BY <1>2, <1>4, <2>3
  <2> QED  BY <2>2, <2>4
<1>6. ASSUME NEW x \in (last + 1) .. (last + Period(rule)), Falls(rule, from, x)
      PROVE  next <= x
  <2>1. x \in Nat \ {0} /\ from < x /\ day < x  BY <1>4
  <2>2. ~ (x < next)  BY <1>1, <1>6, <2>1 DEF CaughtUp
  <2> QED  BY <1>2, <2>1, <2>2
<1> DEFINE S == {d \in (last + 1) .. (last + Period(rule)) : Falls(rule, from, d)}
<1>7. next \in S /\ S \subseteq Int /\ \A x \in S : next <= x  BY <1>2, <1>4, <1>5, <1>6
<1> QED  BY <1>7, LeastIs

-----------------------------------------------------------------------------
(* Parsing and formatting *)

\* A rule by its parts.
LEMMA RuleIs ==
    ASSUME NEW freq \in FREQS, NEW interval \in 1 .. MAX_INTERVAL, NEW byDay \in SUBSET WEEKDAYS,
           byDay # {} => freq = "WEEKLY"
    PROVE  Rule(freq, interval, byDay) \in Rules
BY DEF Rules, Rule

\* What each key allows.
LEMMA PartIsOk ==
    ASSUME NEW part
    PROVE  /\ part.key = "FREQ" => (PartOk(part) <=> part.value \in FREQS)
           /\ part.key = "INTERVAL" => (PartOk(part) <=> part.value \in 1 .. MAX_INTERVAL)
           /\ part.key = "BYDAY" =>
                (PartOk(part) <=> \A i \in DOMAIN part.value : part.value[i] \in WEEKDAYS)
<1>1. CASE part.key = "FREQ"
  <2>1. PartOk(part) <=> part.value \in FREQS  BY <1>1, Zenon DEF PartOk
  <2> QED  BY <1>1, <2>1
<1>2. CASE part.key = "INTERVAL"
  <2>1. part.key # "FREQ"  BY <1>2
  <2>2. PartOk(part) <=> part.value \in 1 .. MAX_INTERVAL  BY <1>2, <2>1, Zenon DEF PartOk
  <2> QED  BY <1>2, <2>2
<1>3. CASE part.key = "BYDAY"
  <2>1. part.key # "FREQ" /\ part.key # "INTERVAL"  BY <1>3
  <2>2. PartOk(part) <=> \A i \in DOMAIN part.value : part.value[i] \in WEEKDAYS
    BY <1>3, <2>1, Zenon DEF PartOk
  <2> QED  BY <1>3, <2>2
<1> QED  BY <1>1, <1>2, <1>3

\* The value of a key is one that is given to it, or the default.
LEMMA ValueOfIs ==
    ASSUME NEW ps, NEW key, NEW default
    PROVE  \/ \E i \in DOMAIN ps : ps[i].key = key /\ ValueOf(ps, key, default) = ps[i].value
           \/ (\A i \in DOMAIN ps : ps[i].key # key) /\ ValueOf(ps, key, default) = default
BY DEF ValueOf

\* Parts spell a rule, or none.
LEMMA ParsePartsGives ==
    ASSUME NEW ps
    PROVE  ParseParts(ps) \in Rules \cup {NoRule}
<1> DEFINE days == ValueOf(ps, "BYDAY", <<>>)
           freq == ValueOf(ps, "FREQ", NoRule)
           interval == ValueOf(ps, "INTERVAL", 1)
           byDay == {days[i] : i \in DOMAIN days}
<1>1. SUFFICES ASSUME ParseParts(ps) # NoRule PROVE ParseParts(ps) \in Rules  OBVIOUS
<1>2. /\ ParseParts(ps) = Rule(freq, interval, byDay)
      /\ \A i \in DOMAIN ps : PartOk(ps[i])
      /\ \E i \in DOMAIN ps : ps[i].key = "FREQ"
      /\ Rule(freq, interval, byDay).byDay # {} => Rule(freq, interval, byDay).freq = "WEEKLY"
  BY <1>1 DEF ParseParts
<1>3. freq \in FREQS
  <2>1. PICK i \in DOMAIN ps : ps[i].key = "FREQ" /\ freq = ps[i].value  BY <1>2, ValueOfIs
  <2> QED  BY <1>2, <2>1, PartIsOk
<1>4. interval \in 1 .. MAX_INTERVAL
  <2>1. CASE \E i \in DOMAIN ps : ps[i].key = "INTERVAL" /\ interval = ps[i].value
    <3>1. PICK i \in DOMAIN ps : ps[i].key = "INTERVAL" /\ interval = ps[i].value  BY <2>1
    <3> QED  BY <1>2, <3>1, PartIsOk
  <2>2. CASE interval = 1  BY <2>2 DEF MAX_INTERVAL
  <2> QED  BY <2>1, <2>2, ValueOfIs
<1>5. byDay \in SUBSET WEEKDAYS
  <2>1. CASE \E i \in DOMAIN ps : ps[i].key = "BYDAY" /\ days = ps[i].value
    <3>1. PICK i \in DOMAIN ps : ps[i].key = "BYDAY" /\ days = ps[i].value  BY <2>1
    <3>2. \A j \in DOMAIN ps[i].value : ps[i].value[j] \in WEEKDAYS  BY <1>2, <3>1, PartIsOk
    <3>3. \A j \in DOMAIN days : days[j] \in WEEKDAYS  BY <3>1, <3>2
    <3> QED  BY <3>3
  <2>2. CASE days = << >>  BY <2>2
  <2> QED  BY <2>1, <2>2, ValueOfIs
<1>6. byDay # {} => freq = "WEEKLY"  BY <1>2 DEF Rule
<1>7. Rule(freq, interval, byDay) \in Rules  BY <1>3, <1>4, <1>5, <1>6, RuleIs
<1> QED  BY <1>2, <1>7

\* The older spellings, every so many days or months, spell a rule or none.
LEMMA ParseEveryGives ==
    ASSUME NEW unit, NEW n \in Nat \ {0}
    PROVE  ParseEvery(unit, n) \in Rules \cup {NoRule}
<1>1. CASE n > MAX_INTERVAL  BY <1>1 DEF ParseEvery
<1>2. CASE ~ (n > MAX_INTERVAL)
  <2>1. n \in 1 .. MAX_INTERVAL  BY <1>2 DEF MAX_INTERVAL
  <2>2. n % 7 = 0 => n \div 7 \in 1 .. MAX_INTERVAL  BY <2>1 DEF MAX_INTERVAL
  <2>3. /\ Rule("MONTHLY", n, {}) \in Rules /\ Rule("DAILY", n, {}) \in Rules
        /\ n % 7 = 0 => Rule("WEEKLY", n \div 7, {}) \in Rules
    BY <2>1, <2>2, RuleIs DEF FREQS
  <2> QED  BY <1>2, <2>3 DEF ParseEvery
<1> QED  BY <1>1, <1>2

\* Anything spelled is a rule, or none.
LEMMA ParseGives ==
    ASSUME NEW raw, Spelled(raw)
    PROVE  parseRule(raw) \in Rules \cup {NoRule}
<1>1. CASE raw = NoRule  BY <1>1 DEF parseRule
<1>2. CASE raw # NoRule
  <2>1. CASE raw.form = "bare"
    <3>1. parseRule(raw) = Rule(raw.freq, 1, {})  BY <1>2, <2>1, Zenon DEF parseRule
    <3>2. raw.freq \in FREQS  BY <2>1 DEF Spelled
    <3> QED  BY <3>1, <3>2, RuleIs DEF MAX_INTERVAL
  <2>2. CASE raw.form = "parts"
    <3>1. raw.form # "bare"  BY <2>2
    <3>2. parseRule(raw) = ParseParts(raw.parts)  BY <1>2, <2>2, <3>1, Zenon DEF parseRule
    <3> QED  BY <3>2, ParsePartsGives
  <2>3. CASE raw.form # "bare" /\ raw.form # "parts"
    <3>1. parseRule(raw) = ParseEvery(raw.form, raw.n)  BY <1>2, <2>3, Zenon DEF parseRule
    <3>2. raw.n \in Nat \ {0}  BY <2>3 DEF Spelled
    <3> QED  BY <3>1, <3>2, ParseEveryGives
  <2> QED  BY <2>1, <2>2, <2>3
<1> QED  BY <1>1, <1>2

\* Every weekday has its place among those of a rule.
LEMMA SortedIs ==
    ASSUME NEW days \in SUBSET (0 .. 6)
    PROVE  /\ \A i \in DOMAIN Sorted(days) : Sorted(days)[i] \in days
           /\ {Sorted(days)[i] : i \in DOMAIN Sorted(days)} = days
<1> DEFINE before(d) == {e \in days : e < d}
           place == [d \in days |-> Cardinality(before(d))]
<1>1. IsFiniteSet(days)
  <2>1. 0 \in Int /\ 6 \in Int  OBVIOUS
  <2>2. IsFiniteSet(0 .. 6)  BY <2>1, FS_Interval
  <2> QED  BY <2>2, FS_Subset
<1>2. PICK n \in Nat : n = Cardinality(days)  BY <1>1, FS_CardinalityType
<1>3. ASSUME NEW d \in days PROVE IsFiniteSet(before(d)) /\ Cardinality(before(d)) \in 0 .. (n - 1)
  <2>1. before(d) \subseteq days \ {d}  OBVIOUS
  <2>2. IsFiniteSet(days \ {d}) /\ Cardinality(days \ {d}) = n - 1
    BY <1>1, <1>2, FS_RemoveElement
  <2>3. IsFiniteSet(before(d)) /\ Cardinality(before(d)) <= Cardinality(days \ {d})
    BY <2>1, <2>2, FS_Subset
  <2>4. Cardinality(before(d)) \in Nat  BY <2>3, FS_CardinalityType
  <2> QED  BY <2>2, <2>3, <2>4
<1>4. ASSUME NEW d \in days, NEW e \in days, d < e
      PROVE  Cardinality(before(d)) < Cardinality(before(e))
  <2>1. before(d) \cup {d} \subseteq before(e)
    <3>1. d \in 0 .. 6 /\ e \in 0 .. 6  OBVIOUS
    <3>2. ASSUME NEW x \in days, x < d PROVE x < e
      <4>1. x \in 0 .. 6  OBVIOUS
      <4> QED  BY <1>4, <3>1, <3>2, <4>1
    <3> QED  BY <1>4, <3>2
  <2>2. d \notin before(d)
    <3>1. d \in 0 .. 6  OBVIOUS
    <3> QED  BY <3>1
  <2>3. Cardinality(before(d) \cup {d}) = Cardinality(before(d)) + 1
    BY <1>3, <2>2, FS_AddElement
  <2>4. Cardinality(before(d) \cup {d}) <= Cardinality(before(e))  BY <1>3, <2>1, FS_Subset
  <2>5. Cardinality(before(d)) \in Nat /\ Cardinality(before(e)) \in Nat  BY <1>3
  <2> QED  BY <2>3, <2>4, <2>5
<1>5. ASSUME NEW d \in days, NEW e \in days, Cardinality(before(d)) = Cardinality(before(e))
      PROVE  d = e
  <2>1. ~ (Cardinality(before(d)) < Cardinality(before(e)))
        /\ ~ (Cardinality(before(e)) < Cardinality(before(d)))
    <3>1. Cardinality(before(d)) \in Nat /\ Cardinality(before(e)) \in Nat  BY <1>3
    <3> QED  BY <1>5, <3>1
  <2>2. ~ (d < e)  BY <1>4, <2>1
  <2>3. ~ (e < d)  BY <1>4, <2>1
  <2>4. d \in 0 .. 6 /\ e \in 0 .. 6  OBVIOUS
  <2> QED  BY <2>4, <2>2, <2>3
<1>6. {place[d] : d \in days} = 0 .. (n - 1)
  <2>1. place \in Bijection(days, {place[d] : d \in days})
    <3>1. place \in [days -> {place[d] : d \in days}]  OBVIOUS
    <3>2. \A d, e \in days : place[d] = place[e] => d = e  BY <1>5
    <3>3. \A p \in {place[d] : d \in days} : \E d \in days : place[d] = p  OBVIOUS
    <3>4. place \in Injection(days, {place[d] : d \in days})
      BY <3>1, <3>2, Zenon DEF Injection, IsInjective
    <3>5. place \in Surjection(days, {place[d] : d \in days})
      BY <3>1, <3>3 DEF Surjection
    <3> QED  BY <3>4, <3>5 DEF Bijection
  <2>2. ExistsBijection(days, {place[d] : d \in days})  BY <2>1 DEF ExistsBijection
  <2>3. Cardinality({place[d] : d \in days}) = n  BY <1>1, <1>2, <2>2, FS_Bijection
  <2>4. IsFiniteSet(0 .. (n - 1)) /\ Cardinality(0 .. (n - 1)) = n
    <3>1. 0 \in Int /\ n - 1 \in Int  OBVIOUS
    <3>2. /\ IsFiniteSet(0 .. (n - 1))
          /\ Cardinality(0 .. (n - 1)) = IF 0 > n - 1 THEN 0 ELSE (n - 1) - 0 + 1
      BY <3>1, FS_Interval
    <3> QED  BY <3>2
  <2>5. {place[d] : d \in days} \subseteq 0 .. (n - 1)  BY <1>3
  <2> QED  BY <2>3, <2>4, <2>5, FS_Subset
<1>7. DOMAIN Sorted(days) = 1 .. n
      /\ \A i \in 1 .. n : Sorted(days)[i] = CHOOSE d \in days : Cardinality(before(d)) = i - 1
  BY <1>2, Zenon DEF Sorted
<1>8. ASSUME NEW i \in 1 .. n
      PROVE  Sorted(days)[i] \in days /\ Cardinality(before(Sorted(days)[i])) = i - 1
  <2>1. i - 1 \in 0 .. (n - 1)  OBVIOUS
  <2>2. PICK d \in days : place[d] = i - 1  BY <1>6, <2>1
  <2>3. \E e \in days : Cardinality(before(e)) = i - 1  BY <2>2
  <2>4. PICK s : s = CHOOSE e \in days : Cardinality(before(e)) = i - 1  OBVIOUS
  <2>5. s \in days /\ Cardinality(before(s)) = i - 1  BY <2>3, <2>4, Zenon
  <2> QED  BY <1>7, <2>4, <2>5
<1>9. ASSUME NEW d \in days PROVE \E i \in 1 .. n : Sorted(days)[i] = d
  <2>1. PICK i \in 1 .. n : Cardinality(before(d)) = i - 1
    <3>1. Cardinality(before(d)) + 1 \in 1 .. n  BY <1>3
    <3>2. Cardinality(before(d)) = (Cardinality(before(d)) + 1) - 1  BY <1>3
    <3> QED  BY <3>1, <3>2
  <2> QED  BY <1>5, <1>8, <2>1
<1>10. \A i \in DOMAIN Sorted(days) : Sorted(days)[i] \in days  BY <1>7, <1>8
<1>11. \A d \in days : \E i \in DOMAIN Sorted(days) : Sorted(days)[i] = d  BY <1>7, <1>9
<1> HIDE DEF before, place
<1> QED  BY <1>10, <1>11

\* Do parts spell a key with this value, or leave it out?
Gives(ps, key, value) == \E i \in DOMAIN ps : ps[i].key = key /\ ps[i].value = value
Without(ps, key) == \A i \in DOMAIN ps : ps[i].key # key
Distinct(ps) == \A i, j \in DOMAIN ps : i # j => ps[i].key # ps[j].key

\* The value of a key is the one given to it.
LEMMA ValueGiven ==
    ASSUME NEW ps, NEW key, NEW value, NEW default, Distinct(ps), Gives(ps, key, value)
    PROVE  ValueOf(ps, key, default) = value
<1>1. PICK i \in DOMAIN ps : ps[i].key = key /\ ps[i].value = value  BY DEF Gives
<1>2. PICK j \in DOMAIN ps : ps[j].key = key /\ ValueOf(ps, key, default) = ps[j].value
  BY <1>1, ValueOfIs
<1>3. i = j  BY <1>1, <1>2 DEF Distinct
<1> QED  BY <1>1, <1>2, <1>3

\* A rule is read from the parts that give its fields.
LEMMA PartsRead ==
    ASSUME NEW rule \in Rules, NEW ps, Distinct(ps), \A i \in DOMAIN ps : PartOk(ps[i]),
           Gives(ps, "FREQ", rule.freq),
           Gives(ps, "INTERVAL", rule.interval) \/ (Without(ps, "INTERVAL") /\ rule.interval = 1),
           Gives(ps, "BYDAY", Sorted(rule.byDay)) \/ (Without(ps, "BYDAY") /\ rule.byDay = {})
    PROVE  ParseParts(ps) = rule
<1> DEFINE days == ValueOf(ps, "BYDAY", <<>>)
           byDay == {days[i] : i \in DOMAIN days}
<1>1. ValueOf(ps, "FREQ", NoRule) = rule.freq  BY ValueGiven
<1>2. ValueOf(ps, "INTERVAL", 1) = rule.interval
  <2>1. CASE Gives(ps, "INTERVAL", rule.interval)  BY <2>1, ValueGiven
  <2>2. CASE Without(ps, "INTERVAL") /\ rule.interval = 1
    BY <2>2, ValueOfIs DEF Without
  <2> QED  BY <2>1, <2>2
<1>3. byDay = rule.byDay
  <2>1. CASE Gives(ps, "BYDAY", Sorted(rule.byDay))
    <3>1. days = Sorted(rule.byDay)  BY <2>1, ValueGiven
    <3>2. rule.byDay \in SUBSET (0 .. 6)  BY DEF Rules, WEEKDAYS
    <3> QED  BY <3>1, <3>2, SortedIs
  <2>2. CASE Without(ps, "BYDAY") /\ rule.byDay = {}
    <3>1. days = <<>>  BY <2>2, ValueOfIs DEF Without
    <3> QED  BY <2>2, <3>1
  <2> QED  BY <2>1, <2>2
<1>4. Rule(rule.freq, rule.interval, rule.byDay) = rule  BY DEF Rules, Rule
<1>5. rule.byDay # {} => rule.freq = "WEEKLY"  BY DEF Rules
<1>6. \E i \in DOMAIN ps : ps[i].key = "FREQ"  BY DEF Gives
<1>7. Rule(ValueOf(ps, "FREQ", NoRule), ValueOf(ps, "INTERVAL", 1), byDay) = rule
  BY <1>1, <1>2, <1>3, <1>4
<1> HIDE DEF byDay
<1>8. ParseParts(ps) =
        IF /\ Distinct(ps) /\ \A i \in DOMAIN ps : PartOk(ps[i])
           /\ \E i \in DOMAIN ps : ps[i].key = "FREQ"
           /\ Rule(ValueOf(ps, "FREQ", NoRule), ValueOf(ps, "INTERVAL", 1), byDay).byDay # {}
                => Rule(ValueOf(ps, "FREQ", NoRule), ValueOf(ps, "INTERVAL", 1), byDay).freq = "WEEKLY"
        THEN Rule(ValueOf(ps, "FREQ", NoRule), ValueOf(ps, "INTERVAL", 1), byDay) ELSE NoRule
  BY DEF ParseParts, Distinct, byDay
<1> QED  BY <1>5, <1>6, <1>7, <1>8

\* A sequence with one element more.
LEMMA OneMore ==
    ASSUME NEW S, NEW s \in Seq(S), NEW e \in S
    PROVE  /\ s \o <<e>> \in Seq(S) /\ Len(s \o <<e>>) = Len(s) + 1
           /\ (s \o <<e>>)[Len(s) + 1] = e
           /\ \A i \in 1 .. Len(s) : (s \o <<e>>)[i] = s[i]
<1>1. <<e>> \in Seq(S) /\ Len(<<e>>) = 1 /\ <<e>>[1] = e  OBVIOUS
<1>2. Len(s) \in Nat  OBVIOUS
<1>3. /\ s \o <<e>> \in Seq(S) /\ Len(s \o <<e>>) = Len(s) + Len(<<e>>)
      /\ \A i \in 1 .. Len(s) + Len(<<e>>) : (s \o <<e>>)[i] =
                     IF i <= Len(s) THEN s[i] ELSE <<e>>[i - Len(s)]
  BY <1>1, ConcatProperties
<1> QED  BY <1>1, <1>2, <1>3

\* Parts put together.
LEMMA PartsJoined ==
    ASSUME NEW f, NEW i, NEW d
    PROVE  /\ <<f>> \o <<i>> \o <<d>> = <<f, i, d>> /\ <<f>> \o <<i>> \o << >> = <<f, i>>
           /\ <<f>> \o << >> \o <<d>> = <<f, d>> /\ <<f>> \o << >> \o << >> = <<f>>
<1> DEFINE S == {f, i, d}
<1>1. <<f>> \in Seq(S) /\ Len(<<f>>) = 1 /\ <<f>>[1] = f  OBVIOUS
<1>2. <<f>> \o << >> = <<f>>  OBVIOUS
<1>3. <<f>> \o << >> \o << >> = <<f>>  BY <1>2
<1>4. <<f>> \o <<d>> = <<f, d>>
  <2>1. <<f, d>> \in Seq(S) /\ Len(<<f, d>>) = 2 /\ <<f, d>>[1] = f /\ <<f, d>>[2] = d  OBVIOUS
  <2>2. /\ <<f>> \o <<d>> \in Seq(S) /\ Len(<<f>> \o <<d>>) = 2
        /\ (<<f>> \o <<d>>)[2] = d /\ (<<f>> \o <<d>>)[1] = f
    BY <1>1, OneMore
  <2>3. \A k \in 1 .. 2 : (<<f>> \o <<d>>)[k] = <<f, d>>[k]  BY <2>1, <2>2
  <2> QED  BY <2>1, <2>2, <2>3, SeqEqual
<1>5. <<f>> \o <<i>> = <<f, i>>
  <2>1. <<f, i>> \in Seq(S) /\ Len(<<f, i>>) = 2 /\ <<f, i>>[1] = f /\ <<f, i>>[2] = i  OBVIOUS
  <2>2. /\ <<f>> \o <<i>> \in Seq(S) /\ Len(<<f>> \o <<i>>) = 2
        /\ (<<f>> \o <<i>>)[2] = i /\ (<<f>> \o <<i>>)[1] = f
    BY <1>1, OneMore
  <2>3. \A k \in 1 .. 2 : (<<f>> \o <<i>>)[k] = <<f, i>>[k]  BY <2>1, <2>2
  <2> QED  BY <2>1, <2>2, <2>3, SeqEqual
<1>6. <<f, i>> \o <<d>> = <<f, i, d>>
  <2>1. <<f, i>> \in Seq(S) /\ Len(<<f, i>>) = 2 /\ <<f, i>>[1] = f /\ <<f, i>>[2] = i  OBVIOUS
  <2>2. /\ <<f, i, d>> \in Seq(S) /\ Len(<<f, i, d>>) = 3 /\ <<f, i, d>>[1] = f
        /\ <<f, i, d>>[2] = i /\ <<f, i, d>>[3] = d
    OBVIOUS
  <2>3. /\ <<f, i>> \o <<d>> \in Seq(S) /\ Len(<<f, i>> \o <<d>>) = 3
        /\ (<<f, i>> \o <<d>>)[3] = d /\ (<<f, i>> \o <<d>>)[1] = f /\ (<<f, i>> \o <<d>>)[2] = i
    BY <2>1, OneMore
  <2>4. \A k \in 1 .. 3 : (<<f, i>> \o <<d>>)[k] = <<f, i, d>>[k]  BY <2>2, <2>3
  <2> QED  BY <2>2, <2>3, <2>4, SeqEqual
<1>7. <<f, i>> \o << >> = <<f, i>>  OBVIOUS
<1> QED  BY <1>2, <1>3, <1>4, <1>5, <1>6, <1>7

\* What a rule is written as.
LEMMA FormatIs ==
    ASSUME NEW rule \in Rules
    PROVE  \E ps : /\ formatRule(rule) = Parts(ps)
                   /\ ParseParts(ps) = rule
<1> DEFINE F == Part("FREQ", rule.freq)
           I == Part("INTERVAL", rule.interval)
           D == Part("BYDAY", Sorted(rule.byDay))
           every == IF rule.interval > 1 THEN <<I>> ELSE <<>>
           on == IF rule.freq = "WEEKLY" /\ rule.byDay # {} THEN <<D>> ELSE <<>>
           ps == <<F>> \o every \o on
<1>1. formatRule(rule) = Parts(ps)  BY DEF formatRule
<1>2. /\ rule.freq \in FREQS /\ rule.interval \in 1 .. MAX_INTERVAL
      /\ rule.byDay \in SUBSET WEEKDAYS
      /\ rule.byDay # {} => rule.freq = "WEEKLY"
  BY DEF Rules
<1>3. /\ F.key = "FREQ" /\ F.value = rule.freq /\ I.key = "INTERVAL" /\ I.value = rule.interval
      /\ D.key = "BYDAY" /\ D.value = Sorted(rule.byDay)
  BY DEF Part
<1>4. PartOk(F) /\ PartOk(I)  BY <1>2, <1>3, PartIsOk
<1>5. PartOk(D)
  <2>1. rule.byDay \in SUBSET (0 .. 6)  BY <1>2 DEF WEEKDAYS
  <2>2. \A i \in DOMAIN D.value : D.value[i] \in WEEKDAYS  BY <1>2, <1>3, <2>1, SortedIs
  <2> QED  BY <1>3, <2>2, PartIsOk
<1> HIDE DEF F, I, D
<1>6. CASE rule.interval > 1 /\ rule.byDay # {}
  <2>1. every = <<I>> /\ on = <<D>>  BY <1>2, <1>6
  <2>2. ps = <<F, I, D>>  BY <2>1, PartsJoined
  <2> HIDE DEF ps
  <2>3. DOMAIN ps = {1, 2, 3} /\ ps[1] = F /\ ps[2] = I /\ ps[3] = D  BY <2>2
  <2>4. Distinct(ps) /\ \A i \in DOMAIN ps : PartOk(ps[i])
    BY <1>3, <1>4, <1>5, <2>3 DEF Distinct
  <2>5. /\ Gives(ps, "FREQ", rule.freq) /\ Gives(ps, "INTERVAL", rule.interval)
        /\ Gives(ps, "BYDAY", Sorted(rule.byDay))
    BY <1>3, <2>3 DEF Gives
  <2> QED  BY <1>1, <2>4, <2>5, PartsRead
<1>7. CASE rule.interval > 1 /\ rule.byDay = {}
  <2>1. every = <<I>> /\ on = << >>  BY <1>2, <1>7
  <2>2. ps = <<F, I>>  BY <2>1, PartsJoined
  <2> HIDE DEF ps
  <2>3. DOMAIN ps = {1, 2} /\ ps[1] = F /\ ps[2] = I  BY <2>2
  <2>4. Distinct(ps) /\ \A i \in DOMAIN ps : PartOk(ps[i])
    BY <1>3, <1>4, <1>5, <2>3 DEF Distinct
  <2>5. /\ Gives(ps, "FREQ", rule.freq) /\ Gives(ps, "INTERVAL", rule.interval)
        /\ Without(ps, "BYDAY")
    BY <1>3, <2>3 DEF Gives, Without
  <2> QED  BY <1>1, <1>7, <2>4, <2>5, PartsRead
<1>8. CASE ~ (rule.interval > 1) /\ rule.byDay # {}
  <2>1. every = << >> /\ on = <<D>>  BY <1>2, <1>8
  <2>2. ps = <<F, D>>  BY <2>1, PartsJoined
  <2> HIDE DEF ps
  <2>3. DOMAIN ps = {1, 2} /\ ps[1] = F /\ ps[2] = D  BY <2>2
  <2>4. Distinct(ps) /\ \A i \in DOMAIN ps : PartOk(ps[i])
    BY <1>3, <1>4, <1>5, <2>3 DEF Distinct
  <2>5. /\ Gives(ps, "FREQ", rule.freq) /\ Gives(ps, "BYDAY", Sorted(rule.byDay))
        /\ Without(ps, "INTERVAL")
    BY <1>3, <2>3 DEF Gives, Without
  <2>6. rule.interval = 1  BY <1>2, <1>8 DEF MAX_INTERVAL
  <2> QED  BY <1>1, <2>4, <2>5, <2>6, PartsRead
<1>9. CASE ~ (rule.interval > 1) /\ rule.byDay = {}
  <2>1. every = << >> /\ on = << >>  BY <1>2, <1>9
  <2>2. ps = <<F>>  BY <2>1, PartsJoined
  <2> HIDE DEF ps
  <2>3. DOMAIN ps = {1} /\ ps[1] = F  BY <2>2
  <2>4. Distinct(ps) /\ \A i \in DOMAIN ps : PartOk(ps[i])
    BY <1>3, <1>4, <1>5, <2>3 DEF Distinct
  <2>5. Gives(ps, "FREQ", rule.freq) /\ Without(ps, "INTERVAL") /\ Without(ps, "BYDAY")
    BY <1>3, <2>3 DEF Gives, Without
  <2>6. rule.interval = 1  BY <1>2, <1>9 DEF MAX_INTERVAL
  <2> QED  BY <1>1, <1>9, <2>4, <2>5, <2>6, PartsRead
<1> QED  BY <1>6, <1>7, <1>8, <1>9

\* A rule is read back from what it is written as, which is the only spelling kept.
LEMMA RoundTrip ==
    ASSUME NEW rule \in Rules
    PROVE  /\ rule # NoRule /\ formatRule(rule) # NoRule
           /\ parseRule(formatRule(rule)) = rule
           /\ normalizeRule(formatRule(rule)) = formatRule(rule)
<1>1. rule # NoRule /\ formatRule(rule) # NoRule  BY NoRuleAssumption
<1>2. PICK ps : formatRule(rule) = Parts(ps) /\ ParseParts(ps) = rule  BY FormatIs
<1>3. Parts(ps).form = "parts" /\ Parts(ps).form # "bare" /\ Parts(ps).parts = ps  BY DEF Parts
<1>4. parseRule(Parts(ps)) = ParseParts(Parts(ps).parts)
  BY <1>1, <1>2, <1>3, Zenon DEF parseRule
<1>5. parseRule(formatRule(rule)) = rule  BY <1>2, <1>3, <1>4
<1> QED  BY <1>1, <1>5 DEF normalizeRule

\* A spelling of a rule as it is stored.
Stored(raw) == raw = NoRule \/ \E rule \in Rules : raw = formatRule(rule)

\* What is spelled is stored as a rule, or not at all.
LEMMA NormalizedIsStored ==
    ASSUME NEW raw, Spelled(raw) \/ Stored(raw)
    PROVE  /\ Stored(normalizeRule(raw))
           /\ parseRule(raw) # NoRule => normalizeRule(raw) # NoRule
<1>1. parseRule(raw) \in Rules \cup {NoRule}
  <2>1. CASE Spelled(raw)  BY <2>1, ParseGives
  <2>2. CASE raw = NoRule  BY <2>2 DEF parseRule
  <2>3. CASE \E rule \in Rules : raw = formatRule(rule)  BY <2>3, RoundTrip
  <2> QED  BY <2>1, <2>2, <2>3 DEF Stored
<1> QED  BY <1>1, NoRuleAssumption DEF normalizeRule, Stored

\* A stored spelling is its own.
LEMMA StoredIs ==
    ASSUME NEW raw, Stored(raw)
    PROVE  /\ normalizeRule(raw) = raw
           /\ raw # NoRule => /\ parseRule(raw) \in Rules /\ parseRule(raw) # NoRule
                              /\ formatRule(parseRule(raw)) = raw
<1>1. CASE raw = NoRule  BY <1>1 DEF normalizeRule, parseRule
<1>2. CASE \E rule \in Rules : raw = formatRule(rule)  BY <1>2, RoundTrip
<1> QED  BY <1>1, <1>2 DEF Stored

-----------------------------------------------------------------------------
(* Catching up later *)

\* The later the day, the later each step, and the same one until it is past the earlier day.
LEMMA StepsGrow ==
    ASSUME WholeCalendar, NEW f, NEW g, NEW n \in Nat, NEW from \in Nat \ {0}, NEW rule \in Rules,
           NEW day \in Nat, NEW later \in Nat, day <= later,
           StepsTo(f, n, from, rule, day), StepsTo(g, n, from, rule, later), NEW i \in 0 .. n
    PROVE  f[i] = g[i] \/ (day < f[i] /\ f[i] <= g[i])
<1> DEFINE Bad == {j \in Nat : j <= n /\ ~ (f[j] = g[j] \/ (day < f[j] /\ f[j] <= g[j]))}
<1>1. SUFFICES ASSUME Bad # {} PROVE FALSE  OBVIOUS
<1>2. PICK j \in Bad : \A k \in Bad : j <= k
  <2>1. Bad \subseteq Nat  OBVIOUS
  <2> QED  BY <1>1, <2>1, LeastNumber
<1>3. j # 0  BY <1>2, StepsAre
<1>4. PICK k \in Nat : /\ j - 1 = k /\ j \in 1 .. n /\ k \in 0 .. n
                       /\ f[k] = g[k] \/ (day < f[k] /\ f[k] <= g[k])
  <2>1. j - 1 \in Nat /\ j - 1 \notin Bad /\ j - 1 <= n /\ j \in 1 .. n /\ j - 1 \in 0 .. n
    BY <1>2, <1>3
  <2> QED  BY <2>1
<1>5. /\ f[j] = IF f[k] <= day THEN After(f[k], rule) ELSE f[k]
      /\ g[j] = IF g[k] <= later THEN After(g[k], rule) ELSE g[k]
  BY <1>4, StepsAre
<1>6. PICK x \in Nat \ {0}, y \in Nat \ {0} : x = f[k] /\ y = g[k]  BY <1>4, StepsAreDays
<1>7. PICK z \in Nat \ {0} : z = After(y, rule) /\ y < z  BY <1>6, AfterIsDay
<1>8. CASE x <= day
  <2>1. x = y  BY <1>4, <1>6, <1>8
  <2>2. f[j] = g[j]  BY <1>5, <1>6, <1>8, <2>1
  <2> QED  BY <1>2, <2>2
<1>9. CASE ~ (x <= day)
  <2>1. f[j] = x /\ day < x /\ x <= y  BY <1>4, <1>5, <1>6, <1>9
  <2>2. g[j] = y \/ g[j] = z  BY <1>5, <1>6, <1>7
  <2>3. day < f[j] /\ f[j] <= g[j]  BY <1>7, <2>1, <2>2
  <2> QED  BY <1>2, <2>3
<1> QED  BY <1>8, <1>9

\* Catching up on a later day comes to no earlier date.
LEMMA CatchUpGrows ==
    ASSUME WholeCalendar, NEW from \in Nat \ {0}, NEW rule \in Rules,
           NEW day \in Nat, NEW later \in Nat, day <= later
    PROVE  CatchUp(After, from, rule, day) <= CatchUp(After, from, rule, later)
<1>0. MaxSteps \in Nat /\ MaxSteps \in 0 .. MaxSteps  BY RecurrenceAssumption
<1>1. PICK f : StepsTo(f, MaxSteps, from, rule, day)  BY <1>0, StepsExist
<1>2. PICK g : StepsTo(g, MaxSteps, from, rule, later)  BY <1>0, StepsExist
<1>3. PICK x \in Nat, y \in Nat : x = f[MaxSteps] /\ y = g[MaxSteps]
  <2>1. f[MaxSteps] \in Nat \ {0} /\ g[MaxSteps] \in Nat \ {0}
    BY <1>0, <1>1, <1>2, StepsAreDays
  <2> QED  BY <2>1
<1>4. f[MaxSteps] = g[MaxSteps] \/ f[MaxSteps] <= g[MaxSteps]
  BY <1>0, <1>1, <1>2, StepsGrow
<1>5. x <= y  BY <1>3, <1>4
<1> QED  BY <1>1, <1>2, <1>3, <1>5, CatchUpIs

\* From today on, one step is enough.
LEMMA CatchUpFromToday ==
    ASSUME WholeCalendar, NEW rule \in Rules, NEW day \in Nat \ {0}
    PROVE  CatchUp(After, day, rule, day) = After(day, rule)
<1>0. MaxSteps \in Nat /\ MaxSteps \in 0 .. MaxSteps  BY RecurrenceAssumption
<1>1. PICK next \in Nat \ {0} : next = After(day, rule) /\ day < next  BY AfterIsDay
<1>2. PICK f : f = [i \in 0 .. MaxSteps |-> next]  OBVIOUS
<1>3. ASSUME NEW i \in 0 .. MaxSteps
      PROVE  f[i] = IF i = 0 THEN After(day, rule)
                    ELSE LET d == f[i - 1] IN IF d <= day THEN After(d, rule) ELSE d
  <2>1. CASE i = 0  BY <1>1, <1>2, <2>1
  <2>2. CASE i # 0
    <3>1. i - 1 \in 0 .. MaxSteps  BY <1>0, <2>2
    <3>2. f[i - 1] = next /\ f[i] = next  BY <1>2, <3>1
    <3>3. ~ (next <= day)  BY <1>1
    <3> QED  BY <2>2, <3>2, <3>3
  <2> QED  BY <2>1, <2>2
<1>4. StepsTo(f, MaxSteps, day, rule, day)
  <2>1. f = [i \in 0 .. MaxSteps |-> f[i]]  BY <1>2
  <2> QED  BY <1>3, <2>1, Zenon DEF StepsTo
<1>5. f[MaxSteps] = next  BY <1>0, <1>2
<1>6. day \in Nat  OBVIOUS
<1>7. CatchUp(After, day, rule, day) = f[MaxSteps]  BY <1>4, <1>6, CatchUpIs
<1> QED  BY <1>1, <1>5, <1>7

\* A rule that skips no weeks of some days steps from a later date to no earlier one.
LEMMA AfterGrows ==
    ASSUME WholeCalendar, NEW rule \in Rules, NEW a \in Nat \ {0}, NEW b \in Nat \ {0}, a <= b,
           rule.byDay = {} \/ ~ (rule.interval > 1)
    PROVE  After(a, rule) <= After(b, rule)
<1>1. PICK n \in Nat \ {0} : n = rule.interval  BY DEF Rules, MAX_INTERVAL
<1>2. CASE rule.freq = "DAILY"
  <2>1. After(a, rule) = a + n /\ After(b, rule) = b + n  BY <1>1, <1>2, Frequencies
  <2> QED  BY <2>1
<1>3. CASE rule.freq = "WEEKLY" /\ rule.byDay = {}
  <2>1. After(a, rule) = a + 7 * n /\ After(b, rule) = b + 7 * n  BY <1>1, <1>3, Frequencies
  <2> QED  BY <2>1
<1>4. CASE rule.freq = "WEEKLY" /\ rule.byDay # {}
  <2>1. rule.interval = 1  BY <1>1, <1>4
  <2>2. ASSUME NEW from \in Nat \ {0}, NEW x \in Nat \ {0}
        PROVE  Falls(rule, from, x) <=> isoIndex(x) \in rule.byDay
    <3>1. PICK i \in Int, j \in Int : i = (x - 1) \div 7 /\ j = (from - 1) \div 7  OBVIOUS
    <3>2. (i - j) % 1 = 0  OBVIOUS
    <3>3. Falls(rule, from, x) <=> isoIndex(x) \in rule.byDay /\ (i - j) % rule.interval = 0
      BY <1>4, <3>1, Frequencies
    <3> QED  BY <2>1, <3>2, <3>3
  <2>3. PICK x, y : x = After(a, rule) /\ y = After(b, rule)  OBVIOUS
  <2>4. FirstAfter(rule, a, a, x) /\ FirstAfter(rule, b, b, y)  BY <2>3, StepIsFirst
  <2>5. x \in Nat \ {0} /\ y \in Nat \ {0} /\ b < y /\ Falls(rule, b, y)  BY <2>4 DEF FirstAfter
  <2>6. Falls(rule, a, y)  BY <2>2, <2>5
  <2>7. ~ (a < y /\ y < x)  BY <2>4, <2>5, <2>6 DEF FirstAfter
  <2> QED  BY <2>3, <2>5, <2>7
<1>5. CASE rule.freq # "DAILY" /\ rule.freq # "WEEKLY"
  <2>1. PICK k \in Nat : k = MonthsOf(rule)
    <3>1. 12 * n \in Nat /\ 1 * n \in Nat  OBVIOUS
    <3> QED  BY <1>1, <3>1 DEF MonthsOf
  <2>2. PICK l \in Nat, m \in Nat : l = MonthNumber(a) /\ m = MonthNumber(b)  BY DayOfMonth
  <2>3. PICK p \in Nat, q \in Nat : p = l + k /\ q = m + k  OBVIOUS
  <2>4. /\ After(a, rule) = Before(p) + Lesser(Day(a), LastDay(p))
        /\ After(b, rule) = Before(q) + Lesser(Day(b), LastDay(q))
    <3>1. After(a, rule) = addMonthsClamped(a, k) /\ After(b, rule) = addMonthsClamped(b, k)
      BY <1>5, <2>1, MonthFrequencies
    <3>2. addMonthsClamped(a, k) = Before(p) + Lesser(Day(a), LastDay(p))  BY <2>2, <2>3, MonthsOn
    <3>3. addMonthsClamped(b, k) = Before(q) + Lesser(Day(b), LastDay(q))  BY <2>2, <2>3, MonthsOn
    <3> QED  BY <3>1, <3>2, <3>3
  <2>5. /\ Before(p) \in Int /\ LastDay(p) \in 28 .. 31 /\ LastDay(p) = Before(p + 1) - Before(p)
        /\ Before(q) \in Int /\ LastDay(q) \in 28 .. 31 /\ Before(p + 1) \in Int
    BY MonthDays
  <2>6. /\ a = Before(l) + Day(a) /\ Day(a) \in 1 .. LastDay(l)
        /\ b = Before(m) + Day(b) /\ Day(b) \in 1 .. LastDay(m)
    BY <2>2, DayOfMonth
  <2>7. PICK x \in Nat \ {0}, y \in Nat \ {0}, s \in Int, t \in Int :
            x = Day(a) /\ y = Day(b) /\ s = Before(l) /\ t = Before(m)
    <3>1. Before(l) \in Int /\ Before(m) \in Int /\ LastDay(l) \in 28 .. 31 /\ LastDay(m) \in 28 .. 31
      BY MonthDays
    <3> QED  BY <2>6, <3>1
  <2>8. CASE l = m
    <3>1. x <= y  BY <2>6, <2>7, <2>8
    <3>2. p = q  BY <2>3, <2>8
    <3>3. Lesser(x, LastDay(p)) <= Lesser(y, LastDay(p))  BY <2>5, <3>1 DEF Lesser
    <3>4. Lesser(x, LastDay(p)) \in Int /\ Lesser(y, LastDay(p)) \in Int  BY <2>5 DEF Lesser
    <3> QED  BY <2>4, <2>5, <2>7, <3>2, <3>3, <3>4
  <2>9. CASE l # m
    <3>1. l <= m
      <4>1. CASE a = b  BY <2>2, <4>1
      <4>2. CASE a < b  BY <2>2, <4>2, MonthsFollow
      <4> QED  BY <4>1, <4>2
    <3>2. p < q  BY <2>3, <2>9, <3>1
    <3>3. Before(p + 1) <= Before(q)  BY <3>2, MonthsGrow
    <3>4. Lesser(x, LastDay(p)) <= LastDay(p) /\ Lesser(x, LastDay(p)) \in Int
          /\ Lesser(y, LastDay(q)) \in Nat
      BY <2>5 DEF Lesser
    <3> QED  BY <2>4, <2>5, <2>7, <3>3, <3>4
  <2> QED  BY <2>8, <2>9
<1> QED  BY <1>2, <1>3, <1>4, <1>5

\* Where a task's next occurrence is, it is a date.
LEMMA RuleNextIs ==
    ASSUME WholeCalendar, NEW rule \in Rules, NEW due \in (Nat \ {0}) \cup {NoDate},
           NEW day \in Nat \ {0}
    PROVE  /\ RuleNext(due, rule, day) \in Nat \ {0}
           /\ RuleNext(due, rule, day) =
                CatchUp(After, IF due = NoDate THEN day ELSE due, rule, day)
<1>1. PICK from \in Nat \ {0} : from = IF due = NoDate THEN day ELSE due  OBVIOUS
<1>2. RuleNext(due, rule, day) = CatchUp(After, from, rule, day)  BY <1>1 DEF RuleNext
<1>3. CaughtUp(rule, from, day, MaxSteps, CatchUp(After, from, rule, day))  BY CatchUpMeans
<1>4. CatchUp(After, from, rule, day) \in Nat \ {0}  BY <1>3 DEF CaughtUp
<1> QED  BY <1>1, <1>2, <1>4

\* It does not come earlier when it is worked out later.
LEMMA RuleNextGrows ==
    ASSUME WholeCalendar, NEW rule \in Rules, NEW due \in (Nat \ {0}) \cup {NoDate},
           NEW day \in Nat \ {0}, NEW later \in Nat \ {0}, day <= later,
           due # NoDate \/ rule.byDay = {} \/ ~ (rule.interval > 1)
    PROVE  RuleNext(due, rule, day) <= RuleNext(due, rule, later)
<1>1. CASE due # NoDate
  <2>1. due \in Nat \ {0}  BY <1>1
  <2>2. CatchUp(After, due, rule, day) <= CatchUp(After, due, rule, later)  BY <2>1, CatchUpGrows
  <2> QED  BY <1>1, <2>2 DEF RuleNext
<1>2. CASE due = NoDate
  <2>1. RuleNext(due, rule, day) = After(day, rule)
    <3>1. RuleNext(due, rule, day) = CatchUp(After, day, rule, day)  BY <1>2 DEF RuleNext
    <3> QED  BY <3>1, CatchUpFromToday
  <2>2. RuleNext(due, rule, later) = After(later, rule)
    <3>1. RuleNext(due, rule, later) = CatchUp(After, later, rule, later)  BY <1>2 DEF RuleNext
    <3> QED  BY <3>1, CatchUpFromToday
  <2>3. After(day, rule) <= After(later, rule)  BY <1>2, AfterGrows
  <2> QED  BY <2>1, <2>2, <2>3
<1> QED  BY <1>1, <1>2

-----------------------------------------------------------------------------
(* A row, and what is about to be written of it *)

\* What its columns hold.
Columns(task) ==
    /\ task.done \in BOOLEAN
    /\ task.due \in Dates /\ task.next \in Dates /\ task.end \in Dates
    /\ Stored(task.rule)

\* Was its next occurrence worked out?
Scheduled(task, before, day) == task.next = applyRecurrenceLifecycle(task, before, day)

\* Does a done task that has no next occurrence end before the one it would have that day?
Fits(task, day) ==
    task.done /\ task.rule # NoRule /\ task.next = NoDate /\ ~Drifts(task)
        => Ended(task, RuleNext(task.due, parseRule(task.rule), day))

\* The dates of a row, when the calendar is whole: the days, and none.
LEMMA DatesAre ==
    ASSUME WholeCalendar
    PROVE  Dates = (Nat \ {0}) \cup {NoDate} /\ NoDate \in Int /\ NoDate <= 0
BY RecurrenceAssumption DEF Dates, WholeCalendar

\* The occurrence after a task's is a date, whichever port works it out.
LEMMA NextOfRow ==
    ASSUME WholeCalendar, NEW task, Columns(task), task.rule # NoRule, NEW day \in Nat \ {0},
           NEW next, next = RuleNext(task.due, parseRule(task.rule), day)
    PROVE  /\ next \in Nat \ {0} /\ next # NoDate /\ next \in Dates
           /\ nextOccurrence(task.due, task.rule, day) = next
           /\ nextOccurrence(task.due, normalizeRule(task.rule), day) = next
<1>1. PICK rule \in Rules : rule = parseRule(task.rule)  BY StoredIs DEF Columns
<1>2. rule # NoRule /\ normalizeRule(task.rule) = task.rule
  BY <1>1, StoredIs DEF Columns
<1>3. task.due \in (Nat \ {0}) \cup {NoDate}  BY DatesAre DEF Columns
<1>4. PICK from \in Nat \ {0} : from = IF task.due = NoDate THEN day ELSE task.due  BY <1>3
<1>5. next = CatchUp(After, from, rule, day) /\ next \in Nat \ {0}
  BY <1>1, <1>3, <1>4, RuleNextIs
<1>6. CatchUp(occurrenceAfter, from, rule, day) = next  BY <1>5, CatchUpMeans
<1>7. nextOccurrence(task.due, task.rule, day) = CatchUp(occurrenceAfter, from, rule, day)
  BY <1>1, <1>2, <1>4 DEF nextOccurrence
<1> QED  BY <1>2, <1>5, <1>6, <1>7, DatesAre

\* What the lifecycle comes to.
LEMMA LifecycleIs ==
    ASSUME NEW task, NEW before, NEW day,
           NEW next, next = RuleNext(task.due, parseRule(task.rule), day)
    PROVE  /\ task.rule = NoRule \/ ~task.done => applyRecurrenceLifecycle(task, before, day) = NoDate
           /\ task.rule # NoRule /\ task.done =>
                \/ /\ before.done /\ before.rule = task.rule /\ before.due = task.due
                   /\ before.end = task.end
                   /\ applyRecurrenceLifecycle(task, before, day) = before.next
                \/ /\ ~ (before.done /\ before.rule = task.rule /\ before.due = task.due
                         /\ before.end = task.end)
                   /\ applyRecurrenceLifecycle(task, before, day) =
                        IF Ended(task, next) THEN NoDate ELSE next
BY DEF applyRecurrenceLifecycle

\* It is a date, and is kept only as it was.
LEMMA ScheduledFits ==
    ASSUME WholeCalendar, NEW task, NEW before, NEW day \in Nat \ {0},
           Columns([task EXCEPT !.next = before.next]), Columns(before), Row(task), Row(before),
           Scheduled(task, before, day)
    PROVE  /\ Columns(task)
           /\ Fits(task, day) \/ task = before
<1>1. PICK next : next = RuleNext(task.due, parseRule(task.rule), day)  OBVIOUS
<1>2. /\ task.done \in BOOLEAN /\ task.due \in Dates /\ task.end \in Dates /\ Stored(task.rule)
  <2>1. PICK new : new = [task EXCEPT !.next = before.next]  OBVIOUS
  <2>2. new.done = task.done /\ new.due = task.due /\ new.end = task.end /\ new.rule = task.rule
    BY <2>1 DEF Row
  <2> QED  BY <2>1, <2>2 DEF Columns
<1>3. PICK old : old = [task EXCEPT !.next = before.next]  OBVIOUS
<1>4. old.rule = task.rule /\ old.due = task.due  BY <1>3 DEF Row
<1>5. task.rule # NoRule => next \in Dates /\ next # NoDate
  <2>1. Columns(old)  BY <1>3
  <2> QED  BY <1>1, <1>4, <2>1, NextOfRow
<1>6. NoDate \in Dates  BY DEF Dates
<1>7. CASE task.rule = NoRule \/ ~task.done
  <2>1. task.next = NoDate  BY <1>7, LifecycleIs DEF Scheduled
  <2> QED  BY <1>2, <1>6, <1>7, <2>1 DEF Columns, Fits
<1>8. CASE /\ task.rule # NoRule /\ task.done
           /\ before.done /\ before.rule = task.rule /\ before.due = task.due
           /\ before.end = task.end
  <2>1. task.next = before.next  BY <1>8, LifecycleIs DEF Scheduled
  <2>2. task.done = before.done  BY <1>2, <1>8 DEF Columns
  <2>3. task = before  BY <1>8, <2>1, <2>2 DEF Row
  <2> QED  BY <2>3
<1>9. CASE /\ task.rule # NoRule /\ task.done
           /\ ~ (before.done /\ before.rule = task.rule /\ before.due = task.due
                 /\ before.end = task.end)
  <2>1. task.next = IF Ended(task, next) THEN NoDate ELSE next
    BY <1>1, <1>9, LifecycleIs DEF Scheduled
  <2>2. task.next \in Dates  BY <1>5, <1>6, <1>9, <2>1
  <2>3. task.next = NoDate => Ended(task, next)  BY <1>5, <1>9, <2>1
  <2> QED  BY <1>1, <1>2, <2>2, <2>3 DEF Columns, Fits
<1> QED  BY <1>7, <1>8, <1>9

\* A series that has ended has ended later too.
LEMMA FitsLater ==
    ASSUME WholeCalendar, NEW task, Columns(task), NEW day \in Nat \ {0}, NEW later \in Nat \ {0},
           day <= later, Fits(task, day)
    PROVE  Fits(task, later)
<1>1. SUFFICES ASSUME task.done, task.rule # NoRule, task.next = NoDate, ~Drifts(task)
               PROVE  Ended(task, RuleNext(task.due, parseRule(task.rule), later))
  BY DEF Fits
<1>2. PICK rule \in Rules : rule = parseRule(task.rule)  BY <1>1, StoredIs DEF Columns
<1>3. task.due \in (Nat \ {0}) \cup {NoDate}  BY DatesAre DEF Columns
<1>4. task.due # NoDate \/ rule.byDay = {} \/ ~ (rule.interval > 1)
  BY <1>1, <1>2 DEF Drifts
<1>5. PICK x \in Nat \ {0} : x = RuleNext(task.due, rule, day)  BY <1>3, RuleNextIs
<1>6. PICK y \in Nat \ {0} : y = RuleNext(task.due, rule, later)  BY <1>3, RuleNextIs
<1>7. x <= y  BY <1>3, <1>4, <1>5, <1>6, RuleNextGrows
<1>8. Ended(task, x)  BY <1>1, <1>2, <1>5 DEF Fits
<1>9. task.end \in Int  BY DatesAre DEF Columns
<1>10. Ended(task, y)  BY <1>7, <1>8, <1>9 DEF Ended
<1> QED  BY <1>2, <1>6, <1>10

\* What fits is what the badge announces.
LEMMA BadgeFits ==
    ASSUME WholeCalendar, NEW task, Columns(task), NEW day \in Nat \ {0},
           Fits(task, day), NextOfDone(task), task.done, ~Drifts(task)
    PROVE  upcomingDueDate(task, day) = task.next
<1>1. CASE task.rule = NoRule  BY <1>1 DEF upcomingDueDate, NextOfDone
<1>2. CASE task.rule # NoRule /\ task.next # NoDate  BY <1>2 DEF upcomingDueDate
<1>3. CASE task.rule # NoRule /\ task.next = NoDate
  <2>1. PICK next : next = RuleNext(task.due, parseRule(task.rule), day)  OBVIOUS
  <2>2. nextOccurrence(task.due, task.rule, day) = next  BY <1>3, <2>1, NextOfRow
  <2>3. Ended(task, next)  BY <1>3, <2>1 DEF Fits
  <2>4. computeNextDueDate(task, day) = NoDate  BY <1>3, <2>2, <2>3 DEF computeNextDueDate
  <2> QED  BY <1>3, <2>4 DEF upcomingDueDate
<1> QED  BY <1>1, <1>2, <1>3

\* The ports store, keep and show the same.
LEMMA OfflineAgrees ==
    ASSUME WholeCalendar, NEW task, NEW before, NEW day \in Nat \ {0}, Columns(task), Columns(before),
           Row(before), Scheduled(task, before, day),
           NEW raw, normalizeRule(raw) = before.rule
    PROVE  applyRecurrenceLifecycleOffline(task, [before EXCEPT !.rule = raw], day) = task.next
<1>1. PICK old : old = [before EXCEPT !.rule = raw]  OBVIOUS
<1>2. /\ old.done = before.done /\ old.due = before.due /\ old.end = before.end
      /\ old.next = before.next /\ normalizeRule(old.rule) = before.rule
  BY <1>1 DEF Row
<1>3. normalizeRule(task.rule) = task.rule  BY StoredIs DEF Columns
<1>4. PICK next : next = RuleNext(task.due, parseRule(task.rule), day)  OBVIOUS
<1>5. CASE task.rule = NoRule \/ ~task.done
  <2>1. task.next = NoDate  BY <1>5, LifecycleIs DEF Scheduled
  <2>2. applyRecurrenceLifecycleOffline(task, old, day) = NoDate
    BY <1>5 DEF applyRecurrenceLifecycleOffline
  <2> QED  BY <1>1, <2>1, <2>2
<1>6. CASE task.rule # NoRule /\ task.done
  <2>1. nextOccurrence(task.due, normalizeRule(task.rule), day) = next /\ next # NoDate
    BY <1>4, <1>6, NextOfRow
  <2>2. applyRecurrenceLifecycleOffline(task, old, day) =
            IF before.done /\ before.rule = task.rule /\ before.due = task.due
               /\ before.end = task.end
            THEN before.next ELSE IF Ended(task, next) THEN NoDate ELSE next
    BY <1>2, <1>3, <1>6, <2>1 DEF applyRecurrenceLifecycleOffline
  <2>3. task.next =
            IF before.done /\ before.rule = task.rule /\ before.due = task.due
               /\ before.end = task.end
            THEN before.next ELSE IF Ended(task, next) THEN NoDate ELSE next
    BY <1>4, <1>6, LifecycleIs DEF Scheduled
  <2> QED  BY <1>1, <2>2, <2>3
<1> QED  BY <1>5, <1>6

\* What the page shows when a task is checked off or un-checked is what the server stores.
LEMMA PageAgrees ==
    ASSUME WholeCalendar, NEW task, NEW before, NEW day \in Nat \ {0}, Columns(task), Columns(before),
           Row(before), Scheduled(task, before, day), task.done # before.done, NextOfDone(before),
           task = [before EXCEPT !.done = task.done, !.next = task.next]
    PROVE  setItemDoneOptimistic(before, task.done, day) = task
<1>1. /\ task.due = before.due /\ task.rule = before.rule /\ task.end = before.end
  BY DEF Row
<1>2. PICK shown : shown = IF before.rule # NoRule
                           THEN IF task.done THEN computeNextDueDate(before, day) ELSE NoDate
                           ELSE before.next
  OBVIOUS
<1>3. setItemDoneOptimistic(before, task.done, day) =
        [before EXCEPT !.done = task.done, !.next = shown]
  BY <1>2 DEF setItemDoneOptimistic, Row
<1>4. PICK next : next = RuleNext(task.due, parseRule(task.rule), day)  OBVIOUS
<1>5. shown = task.next
  <2>1. CASE before.rule = NoRule
    <3>1. task.next = NoDate  BY <1>1, <2>1, LifecycleIs DEF Scheduled
    <3>2. before.next = NoDate  BY <2>1 DEF NextOfDone
    <3> QED  BY <1>2, <2>1, <3>1, <3>2
  <2>2. CASE before.rule # NoRule /\ ~task.done
    <3>1. task.next = NoDate  BY <2>2, LifecycleIs DEF Scheduled
    <3> QED  BY <1>2, <2>2, <3>1
  <2>3. CASE before.rule # NoRule /\ task.done
    <3>1. ~before.done  BY <2>3 DEF Columns
    <3>2. task.next = IF Ended(task, next) THEN NoDate ELSE next
      BY <1>1, <1>4, <2>3, <3>1, LifecycleIs DEF Scheduled
    <3>3. nextOccurrence(before.due, before.rule, day) = next /\ next # NoDate
      BY <1>1, <1>4, <2>3, NextOfRow
    <3>4. computeNextDueDate(before, day) = IF Ended(before, next) THEN NoDate ELSE next
      BY <2>3, <3>3 DEF computeNextDueDate
    <3>5. Ended(before, next) <=> Ended(task, next)  BY <1>1 DEF Ended
    <3> QED  BY <1>2, <2>3, <3>2, <3>4, <3>5
  <2> QED  BY <2>1, <2>2, <2>3
<1> QED  BY <1>3, <1>5

\* What is checked off comes back on the first date its rule means.
LEMMA FirstMeant ==
    ASSUME WholeCalendar, NEW task, NEW before, NEW day \in Nat \ {0}, Columns(task),
           Scheduled(task, before, day), task.done, task.rule # NoRule, ~before.done,
           NEW from, from = IF task.due = NoDate THEN day ELSE task.due,
           NEW rule, rule = parseRule(task.rule),
           NEW last, last = IF from > day THEN from ELSE day,
           Cardinality({d \in (from + 1) .. day : Falls(rule, from, d)}) <= MaxSteps,
           NEW first,
           first = Least({d \in (last + 1) .. (last + Period(rule)) : Falls(rule, from, d)})
    PROVE  task.next = IF Ended(task, first) THEN NoDate ELSE first
<1>1. rule \in Rules  BY StoredIs DEF Columns
<1>2. task.due \in (Nat \ {0}) \cup {NoDate}  BY DatesAre DEF Columns
<1>3. from \in Nat \ {0}  BY <1>2
<1>4. PICK next : next = RuleNext(task.due, rule, day)  OBVIOUS
<1>5. next = CatchUp(After, from, rule, day)  BY <1>4 DEF RuleNext
<1>6. Cardinality(Occurrences(rule, from, day)) <= MaxSteps  BY DEF Occurrences
<1>7. day \in Nat  OBVIOUS
<1>8. first = next  BY <1>1, <1>3, <1>5, <1>6, <1>7, FirstOccurrence
<1>9. task.next = IF Ended(task, next) THEN NoDate ELSE next
  BY <1>4, LifecycleIs DEF Scheduled
<1> QED  BY <1>8, <1>9

-----------------------------------------------------------------------------
(* What every state holds *)

\* A request in progress writes a row that was worked out no later than today, and a new next
\* occurrence only if it is one.
PatchOk(r, day) ==
    /\ Columns(r.item) /\ Columns(r.before)
    /\ r.day \in Nat \ {0} /\ r.day <= day
    /\ Scheduled(r.item, r.before, r.day)
    /\ r.pc = "schedule" => r.item.next # r.before.next

\* The sheet of a rule.
Session(s) ==
    /\ s = [freq |-> s.freq, interval |-> s.interval, byDay |-> s.byDay, start |-> s.start]
    /\ s.freq \in FREQS /\ s.interval \in 1 .. MAX_INTERVAL /\ s.byDay \in SUBSET WEEKDAYS
    /\ s.start \in Nat \ {0}

ClockInv == now \in Times \cup {Start}
PatchInv == \A c \in Clients : request[c].pc # "none" => PatchOk(request[c], today)
EditorInv == editor = NoRule \/ Session(editor)
ScanInv ==
    /\ sentFor \in Dates /\ pushed \in Dates
    /\ \A l \in Loops :
         scan[l].pc \in {"send", "mark"} =>
            scan[l] = [pc |-> scan[l].pc, due |-> scan[l].due] /\ scan[l].due \in Dates
\* Unless a request is between its statements, or one was disturbed, the row fits its series.
FitInv == raced \/ broken \/ Fits(item, today) \/ \E c \in Clients : request[c].pc = "schedule"

TaskInv ==
    NextInv /\ LoopInv /\ ClockInv /\ Columns(item) /\ PatchInv /\ EditorInv /\ ScanInv /\ FitInv

\* The clock shows a half of some day.
LEMMA ClockIs ==
    ASSUME WholeCalendar, NEW t \in Times \cup {Start}
    PROVE  t \in Nat /\ t \div 2 \in Nat \ {0}
BY RecurringTaskAssumption DEF WholeCalendar

\* A request is no less in order on a later day.
LEMMA PatchLater ==
    ASSUME NEW r, NEW day \in Nat, NEW later \in Nat, day <= later, PatchOk(r, day)
    PROVE  PatchOk(r, later)
BY DEF PatchOk

\* What a request makes of the row's columns.
LEMMA ColumnsChange ==
    ASSUME WholeCalendar, NEW task, Row(task), Columns(task)
    PROVE  /\ \A v \in BOOLEAN : Columns([task EXCEPT !.done = v])
           /\ \A v \in Dates : /\ Columns([task EXCEPT !.due = v]) /\ Columns([task EXCEPT !.end = v])
                               /\ Columns([task EXCEPT !.next = v])
           /\ \A raw : Stored(normalizeRule(raw)) => Columns(WithRule(task, raw))
<1>1. ASSUME NEW v \in BOOLEAN PROVE Columns([task EXCEPT !.done = v])
  <2>1. PICK new : new = [task EXCEPT !.done = v]  OBVIOUS
  <2>2. /\ new.done = v /\ new.due = task.due /\ new.next = task.next /\ new.end = task.end
        /\ new.rule = task.rule
    BY <2>1 DEF Row
  <2> QED  BY <2>1, <2>2 DEF Columns
<1>2. ASSUME NEW v \in Dates PROVE Columns([task EXCEPT !.due = v])
  <2>1. PICK new : new = [task EXCEPT !.due = v]  OBVIOUS
  <2>2. /\ new.done = task.done /\ new.due = v /\ new.next = task.next /\ new.end = task.end
        /\ new.rule = task.rule
    BY <2>1 DEF Row
  <2> QED  BY <2>1, <2>2 DEF Columns
<1>3. ASSUME NEW v \in Dates PROVE Columns([task EXCEPT !.end = v])
  <2>1. PICK new : new = [task EXCEPT !.end = v]  OBVIOUS
  <2>2. /\ new.done = task.done /\ new.due = task.due /\ new.next = task.next /\ new.end = v
        /\ new.rule = task.rule
    BY <2>1 DEF Row
  <2> QED  BY <2>1, <2>2 DEF Columns
<1>4. ASSUME NEW v \in Dates PROVE Columns([task EXCEPT !.next = v])
  <2>1. PICK new : new = [task EXCEPT !.next = v]  OBVIOUS
  <2>2. /\ new.done = task.done /\ new.due = task.due /\ new.next = v /\ new.end = task.end
        /\ new.rule = task.rule
    BY <2>1 DEF Row
  <2> QED  BY <2>1, <2>2 DEF Columns
<1>5. ASSUME NEW raw, Stored(normalizeRule(raw)) PROVE Columns(WithRule(task, raw))
  <2>1. PICK end : end = IF normalizeRule(raw) = NoRule THEN NoDate ELSE task.end  OBVIOUS
  <2>2. PICK rule : rule = normalizeRule(raw)  OBVIOUS
  <2>3. PICK new : new = WithRule(task, raw)  OBVIOUS
  <2>4. new = [task EXCEPT !.rule = rule, !.end = end]
    BY <2>1, <2>2, <2>3 DEF WithRule, Row
  <2>5. /\ new.done = task.done /\ new.due = task.due /\ new.next = task.next /\ new.end = end
        /\ new.rule = rule
    BY <2>4 DEF Row
  <2>6. end \in Dates  BY <2>1 DEF Columns, Dates
  <2> QED  BY <1>5, <2>2, <2>3, <2>5, <2>6 DEF Columns
<1> QED  BY <1>1, <1>2, <1>3, <1>4, <1>5

-----------------------------------------------------------------------------
(* The sheet *)

\* The weekday it starts with.
LEMMA PreselectKeeps ==
    ASSUME NEW s, Session(s)
    PROVE  Session(preselectStartWeekday(s))
<1>1. CASE s.freq = "WEEKLY" /\ s.byDay = {}
  <2>1. PICK days : days = {isoIndex(s.start)}  OBVIOUS
  <2>2. days \in SUBSET WEEKDAYS  BY <2>1, DayOfWeek DEF Session, WEEKDAYS
  <2>3. PICK new : new = [s EXCEPT !.byDay = days]  OBVIOUS
  <2>4. preselectStartWeekday(s) = new  BY <1>1, <2>1, <2>3 DEF preselectStartWeekday
  <2>5. new = [freq |-> s.freq, interval |-> s.interval, byDay |-> days, start |-> s.start]
    BY <2>3 DEF Session
  <2>6. Session(new)  BY <2>2, <2>5 DEF Session
  <2> QED  BY <2>4, <2>6
<1>2. CASE ~ (s.freq = "WEEKLY" /\ s.byDay = {})  BY <1>2 DEF preselectStartWeekday
<1> QED  BY <1>1, <1>2

\* What the sheet's controls make of it.
LEMMA SessionChanges ==
    ASSUME NEW s, Session(s)
    PROVE  /\ \A v \in FREQS : Session([s EXCEPT !.freq = v])
           /\ \A v \in 1 .. MAX_INTERVAL : Session([s EXCEPT !.interval = v])
           /\ \A v \in SUBSET WEEKDAYS : Session([s EXCEPT !.byDay = v])
           /\ \A v \in Nat \ {0} : Session([s EXCEPT !.start = v])
<1>1. ASSUME NEW v
      PROVE  /\ v \in FREQS => Session([s EXCEPT !.freq = v])
             /\ v \in 1 .. MAX_INTERVAL => Session([s EXCEPT !.interval = v])
             /\ v \in SUBSET WEEKDAYS => Session([s EXCEPT !.byDay = v])
             /\ v \in Nat \ {0} => Session([s EXCEPT !.start = v])
  <2>1. PICK f, i, d, t :
          /\ f = [s EXCEPT !.freq = v] /\ i = [s EXCEPT !.interval = v]
          /\ d = [s EXCEPT !.byDay = v] /\ t = [s EXCEPT !.start = v]
    OBVIOUS
  <2>2. /\ f = [freq |-> v, interval |-> s.interval, byDay |-> s.byDay, start |-> s.start]
        /\ i = [freq |-> s.freq, interval |-> v, byDay |-> s.byDay, start |-> s.start]
        /\ d = [freq |-> s.freq, interval |-> s.interval, byDay |-> v, start |-> s.start]
        /\ t = [freq |-> s.freq, interval |-> s.interval, byDay |-> s.byDay, start |-> v]
    BY <2>1 DEF Session
  <2>3. v \in FREQS => Session(f)  BY <2>2 DEF Session
  <2>4. v \in 1 .. MAX_INTERVAL => Session(i)  BY <2>2 DEF Session
  <2>5. v \in SUBSET WEEKDAYS => Session(d)  BY <2>2 DEF Session
  <2>6. v \in Nat \ {0} => Session(t)  BY <2>2 DEF Session
  <2> QED  BY <2>1, <2>3, <2>4, <2>5, <2>6
<1> QED  BY <1>1

\* The field of the sheet is brought back to its bounds.
LEMMA ClampedIs ==
    ASSUME NEW n \in Int
    PROVE  Clamped(n) \in 1 .. MAX_INTERVAL
<1>1. PICK m \in Nat \ {0} : m = IF n < 1 THEN 1 ELSE n  OBVIOUS
<1>2. {MAX_INTERVAL, m} \subseteq Nat  BY DEF MAX_INTERVAL
<1>3. /\ Least({MAX_INTERVAL, m}) \in {MAX_INTERVAL, m}
      /\ \A y \in {MAX_INTERVAL, m} : Least({MAX_INTERVAL, m}) <= y
  BY <1>2, LeastOf
<1>4. Least({MAX_INTERVAL, m}) \in 1 .. MAX_INTERVAL  BY <1>3 DEF MAX_INTERVAL
<1> QED  BY <1>1, <1>4 DEF Clamped

\* The rule of a sheet.
LEMMA EditorRuleIs ==
    ASSUME NEW s, Session(s), recurrenceEditorRule(s) # NoRule
    PROVE  recurrenceEditorRule(s) \in Rules
<1>1. ~ (s.freq = "WEEKLY" /\ s.byDay = {})  BY DEF recurrenceEditorRule
<1>2. recurrenceEditorRule(s) =
        Rule(s.freq, s.interval, IF s.freq = "WEEKLY" THEN s.byDay ELSE {})
  BY <1>1 DEF recurrenceEditorRule
<1>3. s.freq \in FREQS /\ s.interval \in 1 .. MAX_INTERVAL /\ s.byDay \in SUBSET WEEKDAYS
  BY DEF Session
<1>4. CASE s.freq = "WEEKLY"  BY <1>2, <1>3, <1>4, RuleIs
<1>5. CASE s.freq # "WEEKLY"  BY <1>2, <1>3, <1>5, RuleIs
<1> QED  BY <1>4, <1>5

\* Its first date is one the rule allows.
LEMMA FirstAllowed ==
    ASSUME NEW start \in Nat \ {0}, NEW rule \in Rules
    PROVE  /\ firstOccurrenceOnOrAfter(start, rule) \in Nat \ {0}
           /\ firstOccurrenceOnOrAfter(start, rule) >= start
           /\ rule.byDay # {} => isoIndex(firstOccurrenceOnOrAfter(start, rule)) \in rule.byDay
<1>1. rule.byDay \in SUBSET (0 .. 6) /\ (rule.byDay # {} => rule.freq = "WEEKLY")
  BY DEF Rules, WEEKDAYS
<1>2. CASE rule.byDay = {}
  <2>1. firstOccurrenceOnOrAfter(start, rule) = start  BY <1>2 DEF firstOccurrenceOnOrAfter
  <2> QED  BY <1>2, <2>1
<1>3. CASE rule.byDay # {}
  <2>1. PICK S : S = {offset \in 0 .. 6 : isoIndex(start + offset) \in rule.byDay}  OBVIOUS
  <2>2. PICK d \in 0 .. 6 : d \in rule.byDay  BY <1>1, <1>3
  <2>3. PICK i \in 0 .. 6 : i = (start - 1) % 7  OBVIOUS
  <2>4. PICK o \in 0 .. 6 : o = (d - i) % 7  OBVIOUS
  <2>5. ((start + o) - 1) % 7 = d  BY <2>2, <2>3, <2>4
  <2>6. isoIndex(start + o) = d  BY <2>5 DEF isoIndex
  <2>7. o \in S  BY <2>1, <2>2, <2>6
  <2>8. Least(S) \in S
    <3>1. S \subseteq Nat  BY <2>1
    <3> QED  BY <2>7, <3>1, LeastOf
  <2>9. PICK l \in 0 .. 6 : l = Least(S) /\ isoIndex(start + l) \in rule.byDay  BY <2>1, <2>8
  <2>10. firstOccurrenceOnOrAfter(start, rule) = start + l
    BY <1>1, <1>3, <2>1, <2>9 DEF firstOccurrenceOnOrAfter
  <2> QED  BY <2>9, <2>10
<1> QED  BY <1>2, <1>3

-----------------------------------------------------------------------------
(* Every step keeps it *)

\* Today is a day.
LEMMA TodayIs ==
    ASSUME WholeCalendar, ClockInv
    PROVE  today \in Nat \ {0}
BY ClockIs DEF ClockInv, today

\* The parts that a step leaves alone.
LEMMA Unchanged ==
    ASSUME TaskInv
    PROVE  /\ UNCHANGED now => ClockInv' /\ today' = today
           /\ UNCHANGED <<request, now>> => PatchInv'
           /\ UNCHANGED editor => EditorInv'
           /\ UNCHANGED <<scan, sentFor, pushed>> => ScanInv' /\ LoopInv'
           /\ UNCHANGED item => Columns(item)'
           /\ UNCHANGED <<item, now, raced, broken, request>> => FitInv'
BY DEF TaskInv, ClockInv, today, PatchInv, EditorInv, ScanInv, LoopInv, FitInv

\* A request that begins writes a row in order.
LEMMA BeginKeeps ==
    ASSUME WholeCalendar, TaskInv, NextInv', NEW c \in Clients, NEW task, Row(task), Columns(task),
           task.next = item.next, Begin(c, task), EditorInv'
    PROVE  TaskInv'
<1>1. /\ Columns(item) /\ Row(item) /\ DOMAIN request = Clients /\ today \in Nat \ {0}
      /\ FitInv /\ PatchInv
  BY TodayIs DEF TaskInv, NextInv, ItemInv, RequestInv
<1>2. PICK next : next = applyRecurrenceLifecycle(task, item, today)  OBVIOUS
<1>3. PICK new : new = [task EXCEPT !.next = next]  OBVIOUS
<1>4. /\ new.done = task.done /\ new.due = task.due /\ new.next = next /\ new.rule = task.rule
      /\ new.end = task.end /\ Row(new)
  BY <1>3 DEF Row
<1>5. Scheduled(new, item, today)
  BY <1>2, <1>4 DEF Scheduled, applyRecurrenceLifecycle, Ended
<1>6. Columns(new)
  <2>1. [new EXCEPT !.next = item.next] = task  BY <1>3 DEF Row
  <2> QED  BY <1>1, <1>4, <1>5, <2>1, ScheduledFits
<1>7. PICK r : r = [pc |-> "update", before |-> item, day |-> today, item |-> new]  OBVIOUS
<1>8. /\ request' = [request EXCEPT ![c] = r] /\ request[c].pc = "none"
      /\ UNCHANGED <<item, sentFor, now, scan, raced, broken, pushed>>
  BY <1>2, <1>3, <1>7 DEF Begin, ghosts
<1>9. PatchOk(r, today)  BY <1>1, <1>5, <1>6, <1>7 DEF PatchOk
<1>10. today' = today  BY <1>8 DEF today
<1>11. PatchInv'
  <2>1. ASSUME NEW d \in Clients, request'[d].pc # "none" PROVE PatchOk(request'[d], today)
    BY <1>1, <1>8, <1>9, <2>1 DEF PatchInv
  <2> QED  BY <1>10, <2>1 DEF PatchInv
<1>12. FitInv'
  <2>1. \A d \in Clients : request[d].pc = "schedule" => request'[d].pc = "schedule"
    BY <1>1, <1>8
  <2> QED  BY <1>1, <1>8, <1>10, <2>1 DEF FitInv
<1> QED  BY <1>8, <1>11, <1>12, Unchanged DEF TaskInv

\* The reads of a PATCH keep it, whatever the request changes.
LEMMA PatchKeeps ==
    ASSUME WholeCalendar, TaskInv, NEW c \in Clients,
           SetDone(c) \/ Rename(c) \/ SetDue(c) \/ SetEnd(c) \/ SetRule(c) \/ Apply(c)
    PROVE  TaskInv'
<1>1. Columns(item) /\ Row(item) /\ EditorInv  BY DEF TaskInv, NextInv, ItemInv
<1>2. NextInv'  BY PatchBegins DEF TaskInv
<1>3. Dues \subseteq Dates /\ Ends \subseteq Dates  BY RecurringTaskAssumption
<1>4. CASE SetDone(c)
  <2>1. PICK task : task = [item EXCEPT !.done = ~item.done]  OBVIOUS
  <2>2. (~item.done) \in BOOLEAN  OBVIOUS
  <2>3. Row(task) /\ Columns(task)  BY <1>1, <2>1, <2>2, Fields, ColumnsChange
  <2>4. task.next = item.next  BY <1>1, <2>1 DEF Row
  <2>5. Begin(c, task) /\ EditorInv'  BY <1>1, <1>4, <2>1 DEF SetDone, EditorInv
  <2> QED  BY <1>2, <2>3, <2>4, <2>5, BeginKeeps
<1>5. CASE Rename(c)
  <2>1. Begin(c, item) /\ EditorInv'  BY <1>1, <1>5 DEF Rename, EditorInv
  <2> QED  BY <1>1, <1>2, <2>1, BeginKeeps
<1>6. CASE SetDue(c)
  <2>0. PICK date \in Dates : Begin(c, [item EXCEPT !.due = date])  BY <1>3, <1>6 DEF SetDue
  <2>1. PICK task : task = [item EXCEPT !.due = date]  OBVIOUS
  <2>2. EditorInv'  BY <1>1, <1>6 DEF SetDue, EditorInv
  <2>3. Row(task) /\ Columns(task)  BY <1>1, <2>1, Fields, ColumnsChange
  <2>4. task.next = item.next  BY <1>1, <2>1 DEF Row
  <2> QED  BY <1>2, <2>0, <2>1, <2>2, <2>3, <2>4, BeginKeeps
<1>7. CASE SetEnd(c)
  <2>0. PICK date \in Dates : Begin(c, [item EXCEPT !.end = date])  BY <1>3, <1>7 DEF SetEnd
  <2>1. PICK task : task = [item EXCEPT !.end = date]  OBVIOUS
  <2>2. EditorInv'  BY <1>1, <1>7 DEF SetEnd, EditorInv
  <2>3. Row(task) /\ Columns(task)  BY <1>1, <2>1, Fields, ColumnsChange
  <2>4. task.next = item.next  BY <1>1, <2>1 DEF Row
  <2> QED  BY <1>2, <2>0, <2>1, <2>2, <2>3, <2>4, BeginKeeps
<1>8. ASSUME NEW raw PROVE WithRule(item, raw).next = item.next
  <2>1. PICK end, rule : WithRule(item, raw) = [item EXCEPT !.rule = rule, !.end = end]
    BY <1>1 DEF WithRule, Row
  <2> QED  BY <1>1, <2>1 DEF Row
<1>9. CASE SetRule(c)
  <2>0. PICK raw \in Spellings \cup {NoRule} : Begin(c, WithRule(item, raw))  BY <1>9 DEF SetRule
  <2>1. PICK task : task = WithRule(item, raw)  OBVIOUS
  <2>2. EditorInv'  BY <1>1, <1>9 DEF SetRule, EditorInv
  <2>3. Stored(normalizeRule(raw))
    <3>1. Spelled(raw) \/ Stored(raw)  BY RecurringTaskAssumption DEF Stored
    <3> QED  BY <3>1, NormalizedIsStored
  <2>4. Row(task) /\ Columns(task)  BY <1>1, <2>1, <2>3, Fields, ColumnsChange
  <2>5. task.next = item.next  BY <1>8, <2>1
  <2> QED  BY <1>2, <2>0, <2>1, <2>2, <2>4, <2>5, BeginKeeps
<1>10. CASE Apply(c)
  <2>1. Session(editor) /\ recurrenceEditorRule(editor) # NoRule  BY <1>1, <1>10 DEF Apply, EditorInv
  <2>2. PICK rule \in Rules : rule = recurrenceEditorRule(editor)  BY <2>1, EditorRuleIs
  <2>3. PICK first \in Nat \ {0} : first = firstOccurrenceOnOrAfter(editor.start, rule)
    BY <2>1, <2>2, FirstAllowed DEF Session
  <2>4. PICK new : new = WithRule(item, formatRule(rule))  OBVIOUS
  <2>5. PICK task : task = [new EXCEPT !.due = first]  OBVIOUS
  <2>6. Begin(c, task) /\ editor' = NoRule  BY <1>10, <2>2, <2>3, <2>4, <2>5 DEF Apply
  <2>7. Stored(normalizeRule(formatRule(rule)))  BY RoundTrip DEF Stored
  <2>8. Row(new) /\ Columns(new)  BY <1>1, <2>4, <2>7, Fields, ColumnsChange
  <2>9. first \in Dates  BY DatesAre
  <2>10. Row(task) /\ Columns(task)  BY <2>5, <2>8, <2>9, Fields, ColumnsChange
  <2>11. task.next = item.next
    <3>1. task.next = new.next  BY <2>5, <2>8 DEF Row
    <3> QED  BY <1>8, <2>4, <3>1
  <2>12. EditorInv'  BY <2>6 DEF EditorInv
  <2> QED  BY <1>2, <2>6, <2>10, <2>11, <2>12, BeginKeeps
<1> QED  BY <1>4, <1>5, <1>6, <1>7, <1>9, <1>10

\* What a request writes with nothing between its statements fits.
LEMMA WrittenFits ==
    ASSUME WholeCalendar, NEW r, NEW day \in Nat \ {0}, PatchOk(r, day), Row(r.item), Row(r.before),
           Fits(r.before, day) \/ r.item.next # r.before.next
    PROVE  Fits(r.item, day)
<1>1. /\ Columns(r.item) /\ Columns(r.before) /\ r.day \in Nat \ {0} /\ r.day <= day
      /\ Scheduled(r.item, r.before, r.day)
  BY DEF PatchOk
<1>2. Columns([r.item EXCEPT !.next = r.before.next])
  <2>1. r.before.next \in Dates  BY <1>1 DEF Columns
  <2> QED  BY <1>1, <2>1, ColumnsChange
<1>3. Fits(r.item, r.day) \/ r.item = r.before  BY <1>1, <1>2, ScheduledFits
<1>4. CASE Fits(r.item, r.day)  BY <1>1, <1>4, FitsLater
<1>5. CASE r.item = r.before  BY <1>5
<1> QED  BY <1>3, <1>4, <1>5

\* So does the statement that writes the columns: of a row that nobody changed since it was read,
\* it leaves one that fits, or the other statement to come.
LEMMA UpdateKeeps ==
    ASSUME WholeCalendar, TaskInv, NEW c \in Clients, UpdateItem(c)
    PROVE  TaskInv'
<1>1. PICK r : r = request[c]  OBVIOUS
<1>2. /\ Columns(item) /\ Row(item) /\ DOMAIN request = Clients /\ today \in Nat \ {0}
      /\ FitInv /\ PatchInv
  BY TodayIs DEF TaskInv, NextInv, ItemInv, RequestInv
<1>3. /\ r.pc = "update" /\ Row(r.item) /\ Row(r.before)
      /\ \E day : r = [pc |-> "update", before |-> r.before, day |-> day, item |-> r.item]
  BY <1>1 DEF UpdateItem, TaskInv, NextInv, RequestInv
<1>4. /\ item' = [r.item EXCEPT !.next = item.next]
      /\ raced' = (raced \/ item # r.before)
      /\ request' = [request EXCEPT ![c] =
            IF r.item.next # r.before.next THEN [r EXCEPT !.pc = "schedule"] ELSE NoRequest]
      /\ UNCHANGED <<sentFor, now, scan, editor, broken, pushed>>
  BY <1>1 DEF UpdateItem
<1>5. PatchOk(r, today)  BY <1>1, <1>2, <1>3 DEF PatchInv
<1>6. NextInv'  BY UpdateStep DEF TaskInv
<1>7. today' = today  BY <1>4 DEF today
<1>8. Columns(item')
  <2>1. item.next \in Dates  BY <1>2 DEF Columns
  <2>2. Columns(r.item)  BY <1>5 DEF PatchOk
  <2> QED  BY <1>3, <1>4, <2>1, <2>2, ColumnsChange
<1>9. CASE r.item.next # r.before.next
  <2>1. PICK s : s = [r EXCEPT !.pc = "schedule"]  OBVIOUS
  <2>2. /\ s.pc = "schedule" /\ s.before = r.before /\ s.day = r.day /\ s.item = r.item
    BY <1>3, <2>1
  <2>3. PatchOk(s, today)  BY <1>5, <1>9, <2>2 DEF PatchOk
  <2>4. request' = [request EXCEPT ![c] = s]  BY <1>4, <1>9, <2>1
  <2>5. ASSUME NEW d \in Clients, request'[d].pc # "none" PROVE PatchOk(request'[d], today)
    BY <1>2, <2>3, <2>4, <2>5 DEF PatchInv
  <2>6. PatchInv'  BY <1>7, <2>5 DEF PatchInv
  <2>7. request'[c].pc = "schedule"  BY <1>2, <2>2, <2>4
  <2>8. FitInv'  BY <2>7 DEF FitInv
  <2> QED  BY <1>4, <1>6, <1>8, <2>6, <2>8, Unchanged DEF TaskInv
<1>10. CASE r.item.next = r.before.next
  <2>1. request' = [request EXCEPT ![c] = NoRequest]  BY <1>4, <1>10
  <2>2. ASSUME NEW d \in Clients, request'[d].pc # "none" PROVE PatchOk(request'[d], today)
    BY <1>2, <2>1, <2>2 DEF PatchInv, NoRequest
  <2>3. PatchInv'  BY <1>7, <2>2 DEF PatchInv
  <2>4. FitInv'
    <3>1. SUFFICES ASSUME ~raced', ~broken', ~ \E d \in Clients : request'[d].pc = "schedule"
                   PROVE  Fits(item', today')
      BY DEF FitInv
    <3>2. item = r.before /\ ~raced /\ ~broken  BY <1>4, <3>1
    <3>3. \A d \in Clients : request[d].pc # "schedule"  BY <1>1, <1>2, <1>3, <2>1, <3>1
    <3>4. Fits(r.before, today)  BY <1>2, <3>2, <3>3 DEF FitInv
    <3>5. Fits(r.item, today)  BY <1>2, <1>3, <1>5, <3>4, WrittenFits
    <3>6. item' = [r.item EXCEPT !.next = r.item.next]  BY <1>4, <1>10, <3>2
    <3>7. item' = r.item  BY <1>3, <3>6 DEF Row
    <3> QED  BY <1>7, <3>5, <3>7
  <2> QED  BY <1>4, <1>6, <1>8, <2>3, <2>4, Unchanged DEF TaskInv
<1> QED  BY <1>9, <1>10

\* So does the statement that writes the next occurrence.
LEMMA ScheduleKeeps ==
    ASSUME WholeCalendar, TaskInv, NEW c \in Clients, SetItemSchedule(c)
    PROVE  TaskInv'
<1>1. PICK r : r = request[c]  OBVIOUS
<1>2. /\ Columns(item) /\ Row(item) /\ DOMAIN request = Clients /\ today \in Nat \ {0}
      /\ FitInv /\ PatchInv
  BY TodayIs DEF TaskInv, NextInv, ItemInv, RequestInv
<1>3. r.pc = "schedule" /\ Row(r.item) /\ Row(r.before)
  BY <1>1 DEF SetItemSchedule, TaskInv, NextInv, RequestInv
<1>4. /\ item' = [item EXCEPT !.next = r.item.next]
      /\ raced' = (raced \/ item # [r.item EXCEPT !.next = r.before.next])
      /\ request' = [request EXCEPT ![c] = NoRequest]
      /\ UNCHANGED <<sentFor, now, scan, editor, broken, pushed>>
  BY <1>1 DEF SetItemSchedule
<1>5. PatchOk(r, today)  BY <1>1, <1>2, <1>3 DEF PatchInv
<1>6. NextInv'  BY ScheduleStep DEF TaskInv
<1>7. today' = today  BY <1>4 DEF today
<1>8. Columns(item')
  <2>1. r.item.next \in Dates  BY <1>5 DEF PatchOk, Columns
  <2> QED  BY <1>2, <1>4, <2>1, ColumnsChange
<1>9. ASSUME NEW d \in Clients, request'[d].pc # "none" PROVE PatchOk(request'[d], today)
  BY <1>2, <1>4, <1>9 DEF PatchInv, NoRequest
<1>10. PatchInv'  BY <1>7, <1>9 DEF PatchInv
<1>11. FitInv'
  <2>1. SUFFICES ASSUME ~raced' PROVE Fits(item', today')  BY DEF FitInv
  <2>2. item = [r.item EXCEPT !.next = r.before.next]  BY <1>4, <2>1
  <2>3. item' = r.item  BY <1>3, <1>4, <2>2 DEF Row
  <2>4. r.item.next # r.before.next  BY <1>3, <1>5 DEF PatchOk
  <2>5. Fits(r.item, today)  BY <1>2, <1>3, <1>5, <2>4, WrittenFits
  <2> QED  BY <1>7, <2>3, <2>5
<1> QED  BY <1>4, <1>6, <1>8, <1>10, <1>11, Unchanged DEF TaskInv

\* So does the statement that brings a task back.
LEMMA ActivateKeeps ==
    ASSUME WholeCalendar, TaskInv, NEW l \in Loops, ActivateNextOccurrence(l)
    PROVE  TaskInv'
<1>1. /\ UNCHANGED <<sentFor, now, request, editor, raced, broken, pushed>>
      /\ \/ item' = item
         \/ item' = [item EXCEPT !.done = FALSE, !.due = item.next, !.next = NoDate]
      /\ scan[l].pc = "activate" /\ Goes(l, AfterOccurrences(l))
  BY DEF ActivateNextOccurrence, ghosts
<1>2. Columns(item) /\ Row(item) /\ LoopInv /\ ScanInv /\ FitInv
  BY DEF TaskInv, NextInv, ItemInv
<1>3. NextInv'  BY ActivateStep DEF TaskInv
<1>4. Columns(item')
  <2>1. CASE item' = item  BY <1>2, <2>1
  <2>2. CASE item' = [item EXCEPT !.done = FALSE, !.due = item.next, !.next = NoDate]
    <3>1. item' = [done |-> FALSE, due |-> item.next, next |-> NoDate, rule |-> item.rule,
                   end |-> item.end]
      BY <1>2, <2>2 DEF Row
    <3> QED  BY <1>2, <3>1 DEF Columns, Dates
  <2> QED  BY <1>1, <2>1, <2>2
<1>5. FitInv'
  <2>1. CASE item' = item  BY <1>1, <1>2, <2>1, Unchanged
  <2>2. CASE item' = [item EXCEPT !.done = FALSE, !.due = item.next, !.next = NoDate]
    <3>1. ~item'.done  BY <1>2, <2>2 DEF Row
    <3> QED  BY <3>1 DEF FitInv, Fits
  <2> QED  BY <1>1, <2>1, <2>2
<1>6. LoopInv' /\ ScanInv'
  <2>1. PICK to : to = AfterOccurrences(l)  BY <1>1
  <2>2. to.pc = "none" \/ (l = "reminders" /\ to.pc = "list")
    BY <2>1 DEF AfterOccurrences, NoScan
  <2>3. /\ DOMAIN scan' = Loops /\ scan'[l] = to /\ \A k \in Loops \ {l} : scan'[k] = scan[k]
    BY <1>1, <1>2, <2>1, OneLoop
  <2>4. ScanInv'  BY <1>1, <1>2, <2>2, <2>3 DEF ScanInv
  <2>5. LoopInv'
    <3>1. CASE l = "occurrences"  BY <1>2, <2>2, <2>3, <3>1 DEF LoopInv, Loops
    <3>2. CASE l = "reminders"  BY <1>2, <2>2, <2>3, <3>2 DEF LoopInv, Loops
    <3> QED  BY <3>1, <3>2 DEF Loops
  <2> QED  BY <2>4, <2>5
<1> QED  BY <1>1, <1>3, <1>4, <1>5, <1>6, Unchanged DEF TaskInv

\* The other steps of the scans leave the row alone.
LEMMA ScanKeeps ==
    ASSUME WholeCalendar, TaskInv, NEW l \in Loops,
           \/ ListItemsAwaitingNextOccurrence(l) \/ ListItemsForDueReminderScan(l)
           \/ sendToUsers(l) \/ MarkDueReminderSent(l) \/ ScanFails(l)
    PROVE  TaskInv'
<1>1. UNCHANGED <<item, now, request, editor, raced, broken>>
  BY DEF ListItemsAwaitingNextOccurrence, ListItemsForDueReminderScan, sendToUsers,
     MarkDueReminderSent, ScanFails, ghosts
<1>2. Columns(item) /\ LoopInv /\ ScanInv /\ NextInv  BY DEF TaskInv
<1>3. NextInv'  BY <1>1, <1>2 DEF NextInv, RequestInv, ItemInv
<1>4. PICK to : /\ Goes(l, to)
                /\ \/ to.pc = "none"
                   \/ to.pc = "activate" /\ scan[l].pc = "none"
                   \/ to.pc = "list" /\ l = "reminders"
                   \/ /\ to.pc = "send" /\ scan[l].pc = "list"
                      /\ to = [pc |-> to.pc, due |-> to.due] /\ to.due \in Dates
                   \/ /\ to.pc = "mark" /\ scan[l].pc = "send"
                      /\ to = [pc |-> to.pc, due |-> to.due] /\ to.due \in Dates
                /\ sentFor' \in Dates /\ pushed' \in Dates
  <2>1. CASE ListItemsAwaitingNextOccurrence(l)
    <3>1. PICK to : /\ Goes(l, to) /\ scan[l].pc = "none"
                    /\ to = AfterOccurrences(l) \/ to = [pc |-> "activate", next |-> item.next]
      BY <2>1 DEF ListItemsAwaitingNextOccurrence
    <3>2. UNCHANGED <<sentFor, pushed>>  BY <2>1 DEF ListItemsAwaitingNextOccurrence, ghosts
    <3>3. \/ to.pc = "none" \/ to.pc = "activate" \/ (to.pc = "list" /\ l = "reminders")
      BY <3>1 DEF AfterOccurrences, NoScan
    <3> QED  BY <1>2, <3>1, <3>2, <3>3 DEF ScanInv
  <2>2. CASE ListItemsForDueReminderScan(l)
    <3>1. PICK to : /\ Goes(l, to) /\ scan[l].pc = "list"
                    /\ to = NoScan \/ to = [pc |-> "send", due |-> item.due]
      BY <2>2 DEF ListItemsForDueReminderScan
    <3>2. UNCHANGED <<sentFor, pushed>>  BY <2>2 DEF ListItemsForDueReminderScan, ghosts
    <3>3. to.pc = "none" \/ (to.pc = "send" /\ to = [pc |-> to.pc, due |-> to.due] /\ to.due \in Dates)
      BY <1>2, <3>1 DEF NoScan, Columns
    <3> QED  BY <1>2, <3>1, <3>2, <3>3 DEF ScanInv
  <2>3. CASE sendToUsers(l)
    <3>1. PICK to : /\ Goes(l, to) /\ scan[l].pc = "send" /\ to = [scan[l] EXCEPT !.pc = "mark"]
                    /\ pushed' = scan[l].due /\ sentFor' = sentFor
      BY <2>3 DEF sendToUsers
    <3>2. scan[l] = [pc |-> scan[l].pc, due |-> scan[l].due] /\ scan[l].due \in Dates
      BY <1>2, <3>1 DEF ScanInv
    <3>3. to.pc = "mark" /\ to = [pc |-> to.pc, due |-> to.due] /\ to.due = scan[l].due
      BY <3>1, <3>2
    <3> QED  BY <1>2, <3>1, <3>2, <3>3 DEF ScanInv
  <2>4. CASE MarkDueReminderSent(l)
    <3>1. Goes(l, NoScan) /\ scan[l].pc = "mark" /\ sentFor' = scan[l].due /\ pushed' = pushed
      BY <2>4 DEF MarkDueReminderSent
    <3>2. scan[l].due \in Dates  BY <1>2, <3>1 DEF ScanInv
    <3>3. NoScan.pc = "none"  BY DEF NoScan
    <3> QED  BY <1>2, <3>1, <3>2, <3>3 DEF ScanInv
  <2>5. CASE ScanFails(l)
    <3>1. PICK to : Goes(l, to) /\ (to = AfterOccurrences(l) \/ to = NoScan)
      BY <2>5 DEF ScanFails
    <3>2. UNCHANGED <<sentFor, pushed>>  BY <2>5 DEF ScanFails, ghosts
    <3>3. to.pc = "none" \/ (to.pc = "list" /\ l = "reminders")
      BY <3>1 DEF AfterOccurrences, NoScan
    <3> QED  BY <1>2, <3>1, <3>2, <3>3 DEF ScanInv
  <2> QED  BY <2>1, <2>2, <2>3, <2>4, <2>5
<1>5. /\ DOMAIN scan' = Loops /\ scan'[l] = to /\ \A k \in Loops \ {l} : scan'[k] = scan[k]
  BY <1>2, <1>4, OneLoop
<1>6. ScanInv'  BY <1>2, <1>4, <1>5 DEF ScanInv
<1>7. LoopInv'
  <2>1. CASE l = "occurrences"
    <3>1. scan[l].pc \notin {"list", "send", "mark"}  BY <1>2, <2>1 DEF LoopInv
    <3>2. to.pc \in {"none", "activate"}  BY <1>4, <2>1, <3>1
    <3> QED  BY <1>2, <1>5, <2>1, <3>2 DEF LoopInv, Loops
  <2>2. CASE l = "reminders"  BY <1>2, <1>4, <1>5, <2>2 DEF LoopInv, Loops
  <2> QED  BY <2>1, <2>2 DEF Loops
<1> QED  BY <1>1, <1>2, <1>3, <1>6, <1>7, Unchanged DEF TaskInv

\* So do the steps of the sheet.
LEMMA EditingKeeps ==
    ASSUME WholeCalendar, TaskInv, Editing
    PROVE  TaskInv'
<1>1. UNCHANGED <<item, now, request, scan, sentFor, pushed, raced, broken>>
  BY DEF Editing, openRecurrenceEditor, setRecurrenceEditorFreq, ToggleDay,
     setRecurrenceEditorInterval, SetStart, CloseEditor, ChangeEditor, ghosts
<1>2. Columns(item) /\ NextInv /\ EditorInv /\ today \in Nat \ {0}  BY TodayIs DEF TaskInv
<1>3. NextInv'  BY <1>1, <1>2 DEF NextInv, RequestInv, ItemInv
<1>4. editor' = NoRule \/ Session(editor')
  <2>1. CASE openRecurrenceEditor
    <3>1. PICK start \in Nat \ {0} : start = IF item.due = NoDate THEN today ELSE item.due
      BY <1>2, DatesAre DEF Columns
    <3>2. PICK parsed : parsed = parseRule(item.rule)  OBVIOUS
    <3>3. PICK s : /\ s = IF parsed = NoRule
                          THEN [freq |-> "WEEKLY", interval |-> 1, byDay |-> {}, start |-> start]
                          ELSE [freq |-> parsed.freq, interval |-> parsed.interval,
                                byDay |-> parsed.byDay, start |-> start]
                   /\ editor' = preselectStartWeekday(s)
      BY <2>1, <3>1, <3>2 DEF openRecurrenceEditor
    <3>4. Session(s)
      <4>1. CASE parsed = NoRule
        <5>1. s = [freq |-> "WEEKLY", interval |-> 1, byDay |-> {}, start |-> start]
          BY <3>3, <4>1
        <5>2. 1 \in 1 .. MAX_INTERVAL  BY DEF MAX_INTERVAL
        <5> QED  BY <5>1, <5>2 DEF Session, FREQS
      <4>2. CASE parsed # NoRule
        <5>1. s = [freq |-> parsed.freq, interval |-> parsed.interval,
                   byDay |-> parsed.byDay, start |-> start]
          BY <3>3, <4>2
        <5>2. item.rule # NoRule  BY <3>2, <4>2 DEF parseRule
        <5>3. parsed \in Rules  BY <1>2, <3>2, <5>2, StoredIs DEF Columns
        <5>4. /\ parsed.freq \in FREQS /\ parsed.interval \in 1 .. MAX_INTERVAL
              /\ parsed.byDay \in SUBSET WEEKDAYS
          BY <5>3 DEF Rules
        <5> QED  BY <5>1, <5>4 DEF Session
      <4> QED  BY <4>1, <4>2
    <3> QED  BY <3>3, <3>4, PreselectKeeps
  <2>2. CASE setRecurrenceEditorFreq
    <3>1. PICK freq \in FREQS : /\ editor # NoRule
                                /\ editor' = preselectStartWeekday([editor EXCEPT !.freq = freq])
      BY <2>2 DEF setRecurrenceEditorFreq, ChangeEditor
    <3>2. Session(editor)  BY <1>2, <3>1 DEF EditorInv
    <3>3. Session([editor EXCEPT !.freq = freq])  BY <3>2, SessionChanges
    <3> QED  BY <3>1, <3>3, PreselectKeeps
  <2>3. CASE ToggleDay
    <3>1. PICK day \in WEEKDAYS :
            /\ editor # NoRule
            /\ editor' = [editor EXCEPT !.byDay = IF day \in @ THEN @ \ {day} ELSE @ \cup {day}]
      BY <2>3 DEF ToggleDay, ChangeEditor
    <3>2. Session(editor)  BY <1>2, <3>1 DEF EditorInv
    <3>3. PICK days \in SUBSET WEEKDAYS :
            days = IF day \in editor.byDay THEN editor.byDay \ {day} ELSE editor.byDay \cup {day}
      BY <3>2 DEF Session
    <3>4. editor' = [editor EXCEPT !.byDay = days]
      <4>1. "byDay" \in DOMAIN editor  BY <3>2 DEF Session
      <4> QED  BY <3>1, <3>3, <4>1
    <3> QED  BY <3>2, <3>4, SessionChanges
  <2>4. CASE setRecurrenceEditorInterval
    <3>1. PICK n \in {0, editor.interval + 1} :
            editor # NoRule /\ editor' = [editor EXCEPT !.interval = Clamped(n)]
      BY <2>4 DEF setRecurrenceEditorInterval, ChangeEditor
    <3>2. Session(editor)  BY <1>2, <3>1 DEF EditorInv
    <3>3. n \in Int  BY <3>1, <3>2 DEF Session, MAX_INTERVAL
    <3>4. Clamped(n) \in 1 .. MAX_INTERVAL  BY <3>3, ClampedIs
    <3> QED  BY <3>1, <3>2, <3>4, SessionChanges
  <2>5. CASE SetStart
    <3>1. PICK date \in Dues \ {NoDate} :
            editor # NoRule /\ editor' = preselectStartWeekday([editor EXCEPT !.start = date])
      BY <2>5 DEF SetStart, ChangeEditor
    <3>2. Session(editor)  BY <1>2, <3>1 DEF EditorInv
    <3>3. date \in Nat \ {0}  BY <3>1, DatesAre, RecurringTaskAssumption
    <3>4. Session([editor EXCEPT !.start = date])  BY <3>2, <3>3, SessionChanges
    <3> QED  BY <3>1, <3>4, PreselectKeeps
  <2>6. CASE CloseEditor  BY <2>6 DEF CloseEditor
  <2> QED  BY <2>1, <2>2, <2>3, <2>4, <2>5, <2>6 DEF Editing
<1>5. EditorInv'  BY <1>4 DEF EditorInv
<1> QED  BY <1>1, <1>3, <1>5, Unchanged DEF TaskInv

\* Time passes, and a series that has ended has ended still.
LEMMA TickKeeps ==
    ASSUME WholeCalendar, TaskInv, Tick
    PROVE  TaskInv'
<1>1. PICK t \in Times : /\ t > now /\ now' = t
                         /\ UNCHANGED <<item, request, scan, editor, sentFor, pushed, raced, broken>>
  BY DEF Tick, ghosts
<1>2. Columns(item) /\ NextInv /\ ClockInv /\ PatchInv /\ FitInv  BY DEF TaskInv
<1>3. NextInv'  BY <1>1, <1>2 DEF NextInv, RequestInv, ItemInv
<1>4. ClockInv'  BY <1>1 DEF ClockInv
<1>5. now \in Nat /\ now' \in Nat  BY <1>2, <1>4, ClockIs DEF ClockInv
<1>6. today \in Nat \ {0} /\ today' \in Nat \ {0}
  <2>1. now \in Times \cup {Start} /\ now' \in Times \cup {Start}  BY <1>2, <1>4 DEF ClockInv
  <2> QED  BY <2>1, ClockIs DEF today
<1>7. today <= today'
  <2>1. PICK a \in Nat, b \in Nat : a = now /\ b = now'  BY <1>5
  <2>2. a < b  BY <1>1, <2>1
  <2>3. a \div 2 <= b \div 2  BY <2>2
  <2> QED  BY <2>1, <2>3 DEF today
<1>8. ASSUME NEW c \in Clients, request'[c].pc # "none" PROVE PatchOk(request'[c], today')
  <2>1. PatchOk(request[c], today)  BY <1>1, <1>2, <1>8 DEF PatchInv
  <2>2. PatchOk(request[c], today')
    <3>1. PICK a \in Nat, b \in Nat : a = today /\ b = today'  BY <1>6
    <3>2. PatchOk(request[c], a) /\ a <= b  BY <1>7, <2>1, <3>1
    <3>3. PatchOk(request[c], b)  BY <3>2, PatchLater
    <3> QED  BY <3>1, <3>3
  <2> QED  BY <1>1, <2>2
<1>9. PatchInv'  BY <1>8 DEF PatchInv
<1>10. FitInv'
  <2>1. PICK a \in Nat \ {0}, b \in Nat \ {0} : a = today /\ b = today' /\ a <= b  BY <1>6, <1>7
  <2>2. Fits(item, a) => Fits(item, b)  BY <1>2, <2>1, FitsLater
  <2> QED  BY <1>1, <1>2, <2>1, <2>2 DEF FitInv
<1> QED  BY <1>1, <1>3, <1>4, <1>9, <1>10, Unchanged DEF TaskInv

\* A request that stops between its statements is one that was broken.
LEMMA FailKeeps ==
    ASSUME WholeCalendar, TaskInv, Restart \/ \E c \in Clients : RequestFails(c), NextInv'
    PROVE  TaskInv'
<1>1. /\ UNCHANGED <<item, now, editor, sentFor, pushed, raced>>
      /\ \A c \in Clients : request'[c] = NoRequest \/ request'[c] = request[c]
      /\ \A c \in Clients : request[c].pc = "schedule" => broken' \/ request'[c] = request[c]
      /\ broken => broken'
      /\ scan' = scan \/ scan' = [l \in Loops |-> NoScan]
  <2>1. CASE Restart  BY <2>1 DEF Restart
  <2>2. ASSUME NEW c \in Clients, RequestFails(c)
        PROVE  /\ UNCHANGED <<item, now, editor, sentFor, pushed, raced, scan>>
               /\ request' = [request EXCEPT ![c] = NoRequest]
               /\ broken' = (broken \/ request[c].pc = "schedule")
    BY <2>2 DEF RequestFails
  <2>3. DOMAIN request = Clients  BY DEF TaskInv, NextInv, RequestInv
  <2>4. CASE \E c \in Clients : RequestFails(c)  BY <2>2, <2>3, <2>4
  <2> QED  BY <2>1, <2>4
<1>2. PatchInv /\ FitInv /\ LoopInv /\ ScanInv  BY DEF TaskInv
<1>3. today' = today  BY <1>1 DEF today
<1>4. PatchInv'  BY <1>1, <1>2, <1>3 DEF PatchInv, NoRequest
<1>5. FitInv'  BY <1>1, <1>2, <1>3 DEF FitInv
<1>6. LoopInv' /\ ScanInv'
  <2>1. CASE scan' = scan  BY <1>1, <2>1, Unchanged
  <2>2. CASE scan' = [l \in Loops |-> NoScan]
    BY <1>1, <1>2, <2>2 DEF LoopInv, ScanInv, Loops, NoScan
  <2> QED  BY <1>1, <2>1, <2>2
<1> QED  BY <1>1, <1>4, <1>5, <1>6, Unchanged DEF TaskInv

\* Every step keeps what every state holds.
LEMMA TaskStep ==
    ASSUME WholeCalendar, TaskInv, [Next]_vars
    PROVE  TaskInv'
<1>1. NextInv'  BY NextStep DEF TaskInv
<1>2. CASE Editing  BY <1>2, EditingKeeps
<1>3. CASE Patch  BY <1>3, PatchKeeps, UpdateKeeps, ScheduleKeeps DEF Patch
<1>4. CASE Scan  BY <1>4, ActivateKeeps, ScanKeeps DEF Scan
<1>5. CASE Tick  BY <1>5, TickKeeps
<1>6. CASE Fails  BY <1>1, <1>6, FailKeeps, ScanKeeps DEF Fails
<1>7. CASE UNCHANGED vars  BY <1>1, <1>7, Unchanged DEF TaskInv, vars
<1> QED  BY <1>2, <1>3, <1>4, <1>5, <1>6, <1>7 DEF Next

\* A row starts open, and nothing is in progress.
LEMMA TaskInit ==
    ASSUME WholeCalendar, Init
    PROVE  TaskInv
<1>1. PICK start \in Starts : item = start.item  BY DEF Init
<1>2. Created(item)  BY <1>1, RecurringTaskAssumption
<1>3. /\ item = [done |-> FALSE, due |-> item.due, next |-> NoDate, rule |-> item.rule,
                 end |-> item.end]
      /\ item.due \in Dates /\ item.end \in Dates
      /\ item.rule = NoRule \/ \E raw \in Spellings : item.rule = normalizeRule(raw)
  BY <1>2 DEF Created
<1>4. item.done = FALSE /\ item.next = NoDate  BY <1>3
<1>5. Stored(item.rule)
  <2>1. CASE item.rule = NoRule  BY <2>1 DEF Stored
  <2>2. CASE \E raw \in Spellings : item.rule = normalizeRule(raw)
    <3>1. PICK raw \in Spellings : item.rule = normalizeRule(raw)  BY <2>2
    <3>2. Spelled(raw)  BY RecurringTaskAssumption
    <3> QED  BY <3>1, <3>2, NormalizedIsStored
  <2> QED  BY <1>3, <2>1, <2>2
<1>6. Columns(item) /\ Row(item) /\ NextOfDone(item)
  BY <1>3, <1>4, <1>5 DEF Columns, Row, NextOfDone, Dates
<1>7. request = [c \in Clients |-> NoRequest] /\ scan = [l \in Loops |-> NoScan]
      /\ editor = NoRule /\ now = Start /\ sentFor = NoDate /\ pushed = NoDate
  BY DEF Init
<1>8. NextInv  BY <1>6, <1>7 DEF NextInv, RequestInv, ItemInv, NoRequest
<1>9. LoopInv /\ ScanInv  BY <1>7 DEF LoopInv, ScanInv, Loops, NoScan, Dates
<1>10. PatchInv /\ EditorInv /\ ClockInv
  BY <1>7 DEF PatchInv, EditorInv, ClockInv, NoRequest
<1>11. FitInv  BY <1>4 DEF FitInv, Fits
<1> QED  BY <1>6, <1>8, <1>9, <1>10, <1>11 DEF TaskInv

\* Every state of the system holds it.
LEMMA TaskAlways ==
    ASSUME WholeCalendar
    PROVE  Spec => []TaskInv
<1>1. Init => TaskInv  BY TaskInit
<1>2. TaskInv /\ [Next]_vars => TaskInv'  BY TaskStep
<1> QED  BY <1>1, <1>2, PTL DEF Spec

\* Every column of the row, date of a reminder, rule, request and sheet is of its type: what is
\* stored of a rule is its own canonical spelling (internal/recurrence, Normalize), and the number
\* of the sheet stays within its bounds (recurrence-editor.js).
THEOREM Types ==
    ASSUME WholeCalendar
    PROVE  Spec => []TypeOK
<1>1. ASSUME TaskInv PROVE TypeOK
  <2>1. /\ Columns(item) /\ LoopInv /\ ScanInv /\ EditorInv /\ ClockInv /\ RequestInv
    BY <1>1 DEF TaskInv, NextInv
  <2>2. item.rule = NoRule \/ normalizeRule(item.rule) = item.rule
    BY <2>1, StoredIs DEF Columns
  <2>3. editor = NoRule \/ editor.interval \in 1 .. MAX_INTERVAL
    BY <2>1 DEF EditorInv, Session
  <2>4. item.done \in BOOLEAN /\ {item.due, item.next, item.end, sentFor, pushed} \subseteq Dates
    BY <2>1 DEF Columns, ScanInv
  <2>5. \A c \in Clients : request[c].pc \in {"none", "update", "schedule"}
    BY <2>1 DEF RequestInv
  <2> QED  BY <2>1, <2>2, <2>3, <2>4, <2>5 DEF TypeOK, LoopInv, ClockInv
<1> QED  BY <1>1, TaskAlways, PTL

\* The next occurrence a PATCH works out (recurrence.go, applyRecurrenceLifecycle) is the first
\* date after today that the rule means, or none past its end; the worker's mirror (sw.js) and the
\* page (list_view.js) come to the same, for every rule, date and number of steps.
THEOREM NextAgreed ==
    ASSUME WholeCalendar
    PROVE  Spec => []NextAgrees
<1>1. ASSUME TaskInv PROVE NextAgrees
  <2>1. ASSUME NEW r \in Writing
        PROVE  /\ Columns(r.item) /\ Columns(r.before) /\ Row(r.item) /\ Row(r.before)
               /\ r.day \in Nat \ {0} /\ Scheduled(r.item, r.before, r.day)
    <3>1. PICK c \in Clients : r = request[c] /\ request[c].pc = "update"
      BY <2>1 DEF Writing
    <3>2. PatchOk(r, today) /\ Row(r.item) /\ Row(r.before)
      BY <1>1, <3>1 DEF TaskInv, PatchInv, NextInv, RequestInv
    <3> QED  BY <3>2 DEF PatchOk
  <2>2. NextIsFirst
    <3> SUFFICES ASSUME NEW r \in Writing
                 PROVE  LET from == IF r.item.due = NoDate THEN r.day ELSE r.item.due
                            rule == parseRule(r.item.rule)
                            missed == {d \in (from + 1) .. r.day : Falls(rule, from, d)}
                            last == IF from > r.day THEN from ELSE r.day
                            later == {d \in (last + 1) .. (last + Period(rule)) : Falls(rule, from, d)}
                        IN r.item.done /\ r.item.rule # NoRule /\ ~r.before.done
                              /\ Cardinality(missed) <= MaxSteps
                           => r.item.next = IF Ended(r.item, Least(later)) THEN NoDate ELSE Least(later)
      BY DEF NextIsFirst
    <3> DEFINE from == IF r.item.due = NoDate THEN r.day ELSE r.item.due
               rule == parseRule(r.item.rule)
               missed == {d \in (from + 1) .. r.day : Falls(rule, from, d)}
               last == IF from > r.day THEN from ELSE r.day
               later == {d \in (last + 1) .. (last + Period(rule)) : Falls(rule, from, d)}
    <3>1. ASSUME r.item.done, r.item.rule # NoRule, ~r.before.done,
                 Cardinality(missed) <= MaxSteps
          PROVE  r.item.next = IF Ended(r.item, Least(later)) THEN NoDate ELSE Least(later)
      <4>1. PICK f, u, l, n : f = from /\ u = rule /\ l = last /\ n = Least(later)  OBVIOUS
      <4>2. /\ Cardinality({d \in (f + 1) .. r.day : Falls(u, f, d)}) <= MaxSteps
            /\ n = Least({d \in (l + 1) .. (l + Period(u)) : Falls(u, f, d)})
        BY <3>1, <4>1
      <4>3. /\ f = (IF r.item.due = NoDate THEN r.day ELSE r.item.due) /\ u = parseRule(r.item.rule)
            /\ l = IF f > r.day THEN f ELSE r.day
        BY <4>1
      <4>4. r.item.next = IF Ended(r.item, n) THEN NoDate ELSE n
        BY <2>1, <3>1, <4>2, <4>3, FirstMeant
      <4> QED  BY <4>1, <4>4
    <3> QED  BY <3>1
  <2>3. PortsAgree
    <3>1. SUFFICES ASSUME NEW r \in Writing
          PROVE  /\ \A raw \in {r.before.rule} \cup {s \in Spellings : normalizeRule(s) = r.before.rule} :
                      applyRecurrenceLifecycleOffline(r.item, [r.before EXCEPT !.rule = raw], r.day)
                        = r.item.next
                 /\ /\ r.item.done # r.before.done /\ NextOfDone(r.before)
                    /\ r.item = [r.before EXCEPT !.done = r.item.done, !.next = r.item.next]
                    => setItemDoneOptimistic(r.before, r.item.done, r.day) = r.item
      BY Zenon DEF PortsAgree
    <3>2. normalizeRule(r.before.rule) = r.before.rule  BY <2>1, StoredIs DEF Columns
    <3>3. ASSUME NEW raw \in {r.before.rule} \cup {s \in Spellings : normalizeRule(s) = r.before.rule}
          PROVE  applyRecurrenceLifecycleOffline(r.item, [r.before EXCEPT !.rule = raw], r.day)
                    = r.item.next
      <4>1. normalizeRule(raw) = r.before.rule  BY <3>2
      <4> QED  BY <2>1, <4>1, OfflineAgrees
    <3>4. ASSUME r.item.done # r.before.done, NextOfDone(r.before),
                 r.item = [r.before EXCEPT !.done = r.item.done, !.next = r.item.next]
          PROVE  setItemDoneOptimistic(r.before, r.item.done, r.day) = r.item
      BY <2>1, <3>4, PageAgrees
    <3> QED  BY <3>3, <3>4
  <2> QED  BY <2>2, <2>3 DEF NextAgrees
<1> QED  BY <1>1, TaskAlways, PTL

\* Between requests that were not disturbed, only a done recurring task has a next occurrence, and
\* its badge (list_view.js, upcomingDueDate) announces it; one that has none has ended, and has
\* still ended on every later day, unless its rule skips weeks and it has no date (Drifts).
THEOREM ScheduleFits ==
    ASSUME WholeCalendar
    PROVE  Spec => []ScheduleConsistent
<1>1. ASSUME TaskInv PROVE ScheduleConsistent
  <2>1. SUFFICES ASSUME Undisturbed
                 PROVE  /\ NextOfDone(item)
                        /\ item.done /\ ~Drifts(item) => upcomingDueDate(item, today) = item.next
    BY DEF ScheduleConsistent
  <2>2. /\ ~raced /\ ~broken /\ \A c \in Clients : request[c].pc # "schedule"
    BY <2>1 DEF Undisturbed, Resting
  <2>3. NextOfDone(item)  BY <1>1, <2>2 DEF TaskInv, NextInv, ItemInv
  <2>4. Fits(item, today) /\ Columns(item)  BY <1>1, <2>2 DEF TaskInv, FitInv
  <2>5. PICK day \in Nat \ {0} : day = today  BY <1>1, TodayIs DEF TaskInv
  <2>6. item.done /\ ~Drifts(item) => upcomingDueDate(item, day) = item.next
    BY <2>3, <2>4, <2>5, BadgeFits
  <2> QED  BY <2>3, <2>5, <2>6
<1> QED  BY <1>1, TaskAlways, PTL

\* The rule of the sheet is read back as it was made, and its first date is one it allows.
LEMMA EditorAccepted ==
    ASSUME WholeCalendar, TaskInv
    PROVE  EditorRuleAccepted
<1>1. SUFFICES ASSUME editor # NoRule, recurrenceEditorRule(editor) # NoRule,
                      NEW rule, rule = recurrenceEditorRule(editor),
                      NEW first, first = firstOccurrenceOnOrAfter(editor.start, rule)
               PROVE  /\ parseRule(formatRule(rule)) = rule
                      /\ normalizeRule(formatRule(rule)) = formatRule(rule)
                      /\ first >= editor.start
                      /\ rule.byDay # {} => isoIndex(first) \in rule.byDay
  BY Zenon DEF EditorRuleAccepted
<1>2. Session(editor)  BY <1>1 DEF TaskInv, EditorInv
<1>3. rule \in Rules  BY <1>1, <1>2, EditorRuleIs
<1>4. editor.start \in Nat \ {0}  BY <1>2 DEF Session
<1> QED  BY <1>1, <1>3, <1>4, RoundTrip, FirstAllowed

-----------------------------------------------------------------------------
(* The occurrences of a series *)

\* The least of two sets is that of both.
LEMMA LeastTogether ==
    ASSUME NEW S, S \subseteq Nat, S # {}, NEW B, B \subseteq Nat
    PROVE  Least(S \cup B) = Least({Least(S)} \cup B)
<1>1. PICK l \in S : l = Least(S) /\ \A y \in S : l <= y
  <2>1. Least(S) \in S /\ \A y \in S : Least(S) <= y  BY LeastOf
  <2> QED  BY <2>1
<1>2. {l} \cup B \subseteq Nat /\ {l} \cup B # {} /\ S \cup B \subseteq Int
  <2>1. l \in Nat  BY <1>1
  <2>2. {l} \subseteq Nat  BY <2>1
  <2>3. S \subseteq Int /\ B \subseteq Int  OBVIOUS
  <2> QED  BY <2>2, <2>3
<1>3. PICK k \in {l} \cup B : k = Least({l} \cup B) /\ \A y \in {l} \cup B : k <= y
  <2>1. Least({l} \cup B) \in {l} \cup B /\ \A y \in {l} \cup B : Least({l} \cup B) <= y
    BY <1>2, LeastOf
  <2> QED  BY <2>1
<1>4. k \in S \cup B  BY <1>1, <1>3
<1>5. \A y \in S \cup B : k <= y
  <2>1. k \in Nat /\ l \in Nat /\ k <= l  BY <1>1, <1>2, <1>3
  <2>2. ASSUME NEW y \in S PROVE k <= y
    <3>1. y \in Nat /\ l <= y  BY <1>1
    <3> QED  BY <2>1, <3>1
  <2> QED  BY <1>3, <2>2
<1>6. Least(S \cup B) = k  BY <1>2, <1>4, <1>5, LeastIs
<1> QED  BY <1>1, <1>3, <1>6

\* The multiples up to a sum.
LEMMA PassedTogether ==
    ASSUME NEW k \in Nat \ {0}, NEW a \in Nat, a % k = 0, NEW b \in Nat, NEW c \in Nat, c = a + b
    PROVE  Passed(k, c) = Passed(k, a) \cup {a + i : i \in Passed(k, b)}
<1>1. ASSUME NEW m \in Int PROVE (a + m) % k = 0 <=> m % k = 0
  <2>1. a \in Int  OBVIOUS
  <2> QED  BY <2>1, Multiples
<1>2. ASSUME NEW x \in Passed(k, c) PROVE x \in Passed(k, a) \cup {a + i : i \in Passed(k, b)}
  <2>1. x \in Int /\ 1 <= x /\ x <= a + b /\ x % k = 0  BY <1>2 DEF Passed
  <2>2. CASE x <= a  BY <2>1, <2>2 DEF Passed
  <2>3. CASE ~ (x <= a)
    <3>1. PICK m \in Int : m = x - a  BY <2>1
    <3>2. x = a + m /\ 1 <= m /\ m <= b  BY <2>1, <2>3, <3>1
    <3>3. m % k = 0  BY <1>1, <2>1, <3>2
    <3>4. m \in Passed(k, b)  BY <3>2, <3>3 DEF Passed
    <3> QED  BY <3>2, <3>4
  <2> QED  BY <2>2, <2>3
<1>3. Passed(k, a) \subseteq Passed(k, c)  BY DEF Passed
<1>4. ASSUME NEW m \in Passed(k, b) PROVE a + m \in Passed(k, c)
  <2>1. m \in Int /\ 1 <= m /\ m <= b /\ m % k = 0  BY DEF Passed
  <2>2. (a + m) % k = 0  BY <1>1, <2>1
  <2>3. a + m \in 1 .. (a + b)  BY <2>1
  <2> QED  BY <2>2, <2>3 DEF Passed
<1> QED  BY <1>2, <1>3, <1>4

\* So the day of the month is carried on from any month of the series.
LEMMA DayTogether ==
    ASSUME WholeCalendar, NEW from \in Nat \ {0}, NEW next \in Nat \ {0}, NEW k \in Nat \ {0},
           NEW a \in Nat, a % k = 0, NEW b \in Nat, NEW c \in Nat, c = a + b,
           MonthNumber(next) = MonthNumber(from) + a, Day(next) = DayAfter(from, k, a)
    PROVE  DayAfter(next, k, b) = DayAfter(from, k, c)
<1>1. PICK m \in Nat : m = MonthNumber(from)  BY DayOfMonth
<1>2. DEFINE S == {Day(from)} \cup {LastDay(m + i) : i \in Passed(k, a)}
             B == {LastDay(m + (a + i)) : i \in Passed(k, b)}
<1>3. Passed(k, a) \subseteq Nat /\ Passed(k, b) \subseteq Nat  BY DEF Passed
<1>4. ASSUME NEW i \in Nat PROVE LastDay(m + i) \in Nat
  <2>1. m + i \in Int  BY <1>1
  <2>2. LastDay(m + i) \in 28 .. 31  BY <2>1, MonthDays
  <2> QED  BY <2>2
<1>5. Day(from) \in Nat
  <2>1. Day(from) \in 1 .. LastDay(m) /\ LastDay(m) \in 28 .. 31  BY <1>1, DayOfMonth, MonthDays
  <2> QED  BY <2>1
<1>6. S \subseteq Nat /\ S # {} /\ B \subseteq Nat
  <2>1. \A i \in Passed(k, a) : LastDay(m + i) \in Nat  BY <1>3, <1>4
  <2>2. \A i \in Passed(k, b) : LastDay(m + (a + i)) \in Nat
    <3>1. \A i \in Passed(k, b) : a + i \in Nat  BY <1>3
    <3> QED  BY <1>4, <3>1
  <2> QED  BY <1>5, <2>1, <2>2
<1>7. Least(S) = Day(next)  BY <1>1 DEF DayAfter
<1>8. DayAfter(next, k, b) = Least({Day(next)} \cup B)
  <2>1. \A i \in Passed(k, b) : (m + a) + i = m + (a + i)  BY <1>1, <1>3
  <2>2. {LastDay((m + a) + i) : i \in Passed(k, b)} = B  BY <2>1
  <2>3. DayAfter(next, k, b) = Least({Day(next)} \cup {LastDay((m + a) + i) : i \in Passed(k, b)})
    BY <1>1 DEF DayAfter
  <2> QED  BY <2>2, <2>3
<1>9. DayAfter(from, k, c) = Least(S \cup B)
  <2>1. Passed(k, c) = Passed(k, a) \cup {a + i : i \in Passed(k, b)}  BY PassedTogether
  <2>2. {LastDay(m + i) : i \in Passed(k, c)} = {LastDay(m + i) : i \in Passed(k, a)} \cup B
    BY <2>1
  <2>3. {Day(from)} \cup {LastDay(m + i) : i \in Passed(k, c)} = S \cup B  BY <2>2
  <2> QED  BY <1>1, <2>3 DEF DayAfter
<1>10. Least(S \cup B) = Least({Least(S)} \cup B)  BY <1>6, LeastTogether
<1> QED  BY <1>7, <1>8, <1>9, <1>10

\* Are two numbers a multiple apart?
Apart(k, a, b) == (b - a) % k = 0

\* Numbers a multiple apart are alike for every other number.
LEMMA ApartOn ==
    ASSUME NEW k \in Nat \ {0}, NEW a \in Int, NEW b \in Int, NEW c \in Int, Apart(k, a, b)
    PROVE  Apart(k, a, c) <=> Apart(k, b, c)
<1>1. b - a \in Int /\ c - b \in Int /\ c - a = (b - a) + (c - b) /\ (b - a) % k = 0
  BY DEF Apart
<1>2. ((b - a) + (c - b)) % k = 0 <=> (c - b) % k = 0  BY <1>1, Multiples
<1> QED  BY <1>1, <1>2 DEF Apart

\* A series goes on from any of its occurrences as it did from the first.
LEMMA SeriesGoesOn ==
    ASSUME WholeCalendar, NEW rule \in Rules, NEW from \in Nat \ {0}, NEW next \in Nat \ {0},
           from < next, Falls(rule, from, next), NEW x \in Nat \ {0}, next < x
    PROVE  Falls(rule, from, x) <=> Falls(rule, next, x)
<1>1. PICK n \in Nat \ {0} : n = rule.interval  BY DEF Rules, MAX_INTERVAL
<1>2. CASE rule.freq = "DAILY"
  <2>1. /\ Falls(rule, from, x) <=> Apart(n, from, x)
        /\ Falls(rule, next, x) <=> Apart(n, next, x)
        /\ Falls(rule, from, next) <=> Apart(n, from, next)
    BY <1>1, <1>2, Frequencies DEF Apart
  <2>2. from \in Int /\ next \in Int /\ x \in Int  OBVIOUS
  <2>3. Apart(n, from, x) <=> Apart(n, next, x)  BY <1>1, <2>1, <2>2, ApartOn
  <2> QED  BY <2>1, <2>3
<1>3. CASE rule.freq = "WEEKLY" /\ rule.byDay = {}
  <2>0. PICK k \in Nat \ {0} : k = 7 * n  OBVIOUS
  <2>1. /\ Falls(rule, from, x) <=> Apart(k, from, x)
        /\ Falls(rule, next, x) <=> Apart(k, next, x)
        /\ Falls(rule, from, next) <=> Apart(k, from, next)
    BY <1>1, <1>3, <2>0, Frequencies DEF Apart
  <2>2. from \in Int /\ next \in Int /\ x \in Int  OBVIOUS
  <2>3. Apart(k, from, x) <=> Apart(k, next, x)  BY <2>0, <2>1, <2>2, ApartOn
  <2> QED  BY <2>1, <2>3
<1>4. CASE rule.freq = "WEEKLY" /\ rule.byDay # {}
  <2>1. PICK a \in Int, b \in Int, c \in Int :
            a = (from - 1) \div 7 /\ b = (next - 1) \div 7 /\ c = (x - 1) \div 7
    OBVIOUS
  <2>2. /\ Falls(rule, from, x) <=> isoIndex(x) \in rule.byDay /\ Apart(n, a, c)
        /\ Falls(rule, next, x) <=> isoIndex(x) \in rule.byDay /\ Apart(n, b, c)
        /\ Falls(rule, from, next) <=> isoIndex(next) \in rule.byDay /\ Apart(n, a, b)
    BY <1>1, <1>4, <2>1, Frequencies DEF Apart
  <2>3. Apart(n, a, c) <=> Apart(n, b, c)  BY <1>1, <2>2, ApartOn
  <2> QED  BY <2>2, <2>3
<1>5. CASE rule.freq # "DAILY" /\ rule.freq # "WEEKLY"
  <2>1. PICK k \in Nat \ {0} : k = MonthsOf(rule)
    <3>1. 12 * n \in Nat \ {0} /\ 1 * n \in Nat \ {0}  OBVIOUS
    <3> QED  BY <1>1, <3>1 DEF MonthsOf
  <2>2. PICK a \in Nat, b \in Nat, c \in Nat :
            a = MonthNumber(from) /\ b = MonthNumber(next) /\ c = MonthNumber(x)
    BY DayOfMonth
  <2>3. /\ Falls(rule, from, x) <=>
              c - a > 0 /\ (c - a) % k = 0 /\ Day(x) = DayAfter(from, k, c - a)
        /\ Falls(rule, next, x) <=>
              c - b > 0 /\ (c - b) % k = 0 /\ Day(x) = DayAfter(next, k, c - b)
        /\ Falls(rule, from, next) <=>
              b - a > 0 /\ (b - a) % k = 0 /\ Day(next) = DayAfter(from, k, b - a)
    BY <1>5, <2>1, <2>2, MonthFrequencies
  <2>4. b <= c  BY <2>2, MonthsFollow
  <2>5. PICK e \in Nat, f \in Nat, g \in Nat :
            e = b - a /\ f = c - b /\ g = c - a /\ g = e + f /\ b = a + e
    BY <2>3, <2>4
  <2>6. DayAfter(next, k, f) = DayAfter(from, k, g)
    <3>1. e % k = 0 /\ Day(next) = DayAfter(from, k, e)  BY <2>3, <2>5
    <3>2. MonthNumber(next) = MonthNumber(from) + e  BY <2>2, <2>5
    <3>3. k \in Nat \ {0} /\ e \in Nat /\ f \in Nat /\ g \in Nat /\ g = e + f  BY <2>1, <2>5
    <3> QED  BY <3>1, <3>2, <3>3, DayTogether
  <2>7. (c - a) % k = 0 <=> (c - b) % k = 0
    <3>1. Apart(k, a, b)  BY <2>3 DEF Apart
    <3>2. Apart(k, a, c) <=> Apart(k, b, c)  BY <2>1, <2>2, <3>1, ApartOn
    <3> QED  BY <3>2 DEF Apart
  <2>8. Falls(rule, from, x) => c - b > 0
    <3>1. SUFFICES ASSUME Falls(rule, from, x), c = b PROVE FALSE  BY <2>4
    <3>2. Day(x) = Day(next)  BY <2>3, <3>1
    <3>3. x = Before(c) + Day(x) /\ next = Before(b) + Day(next)  BY <2>2, DayOfMonth
    <3>4. x = next  BY <3>1, <3>2, <3>3
    <3> QED  BY <3>4
  <2>9. c - b > 0 => c - a > 0  BY <2>3
  <2> QED  BY <2>3, <2>5, <2>6, <2>7, <2>8, <2>9
<1> QED  BY <1>2, <1>3, <1>4, <1>5

-----------------------------------------------------------------------------
(* The walk of the budget *)

\* Does an occurrence count, and which do from one on?
CountedIn(task, rangeEnd, date) == date <= rangeEnd /\ ~Ended(task, date)
From(task, rangeEnd, date) ==
    {date} \cup {x \in (date + 1) .. rangeEnd :
                    ~Ended(task, x) /\ Falls(parseRule(task.rule), date, x)}
WalkTo(f, task, rangeEnd) ==
    f = [date \in Calendar |->
            LET next == occurrenceAfter(date, parseRule(task.rule))
            IN {date} \cup (IF CountedIn(task, rangeEnd, next) THEN f[next] ELSE {})]

\* The occurrences from a date on are that date, and those from the next one on.
LEMMA FromStep ==
    ASSUME WholeCalendar, NEW task, parseRule(task.rule) \in Rules, task.end \in Int,
           NEW rangeEnd \in Int, NEW date \in Nat \ {0},
           NEW next, next = occurrenceAfter(date, parseRule(task.rule))
    PROVE  /\ next \in Nat \ {0} /\ date < next
           /\ From(task, rangeEnd, date) =
                {date} \cup (IF CountedIn(task, rangeEnd, next) THEN From(task, rangeEnd, next) ELSE {})
<1>1. PICK rule \in Rules : rule = parseRule(task.rule)  OBVIOUS
<1>2. FirstAfter(rule, date, date, next)
  <2>1. next = After(date, rule)  BY <1>1, PortsStep
  <2> QED  BY <2>1, StepIsFirst
<1>3. next \in Nat \ {0} /\ date < next /\ Falls(rule, date, next)  BY <1>2 DEF FirstAfter
<1>4. ASSUME NEW x \in Nat \ {0}, next < x PROVE Falls(rule, date, x) <=> Falls(rule, next, x)
  BY <1>3, <1>4, SeriesGoesOn
<1>5. ASSUME NEW x \in Nat \ {0}, date < x, x < next PROVE ~ Falls(rule, date, x)
  BY <1>2, <1>5 DEF FirstAfter
<1>6. CASE CountedIn(task, rangeEnd, next)
  <2>1. next <= rangeEnd /\ ~Ended(task, next)  BY <1>6 DEF CountedIn
  <2>2. ASSUME NEW x \in From(task, rangeEnd, date)
        PROVE  x = date \/ x \in From(task, rangeEnd, next)
    <3>1. SUFFICES ASSUME x # date PROVE x \in From(task, rangeEnd, next)  OBVIOUS
    <3>2. /\ x \in Nat \ {0} /\ date < x /\ x <= rangeEnd /\ ~Ended(task, x)
          /\ Falls(rule, date, x)
      BY <1>1, <3>1 DEF From
    <3>3. next <= x  BY <1>3, <1>5, <3>2
    <3>4. x = next \/ (next < x /\ Falls(rule, next, x))  BY <1>3, <1>4, <3>2, <3>3
    <3> QED  BY <1>1, <1>3, <3>2, <3>4 DEF From
  <2>3. ASSUME NEW x \in From(task, rangeEnd, next) PROVE x \in From(task, rangeEnd, date)
    <3>1. CASE x = next  BY <1>1, <1>3, <2>1, <3>1 DEF From
    <3>2. CASE x # next
      <4>1. /\ x \in Nat \ {0} /\ next < x /\ x <= rangeEnd /\ ~Ended(task, x)
            /\ Falls(rule, next, x)
        BY <1>1, <1>3, <3>2 DEF From
      <4>2. Falls(rule, date, x)  BY <1>4, <4>1
      <4>3. x \in (date + 1) .. rangeEnd  BY <1>3, <4>1
      <4> QED  BY <1>1, <4>1, <4>2, <4>3 DEF From
    <3> QED  BY <3>1, <3>2
  <2>4. date \in From(task, rangeEnd, date)  BY DEF From
  <2>5. From(task, rangeEnd, date) = {date} \cup From(task, rangeEnd, next)
    BY <2>2, <2>3, <2>4
  <2> QED  BY <1>3, <1>6, <2>5
<1>7. CASE ~ CountedIn(task, rangeEnd, next)
  <2>1. ASSUME NEW x \in From(task, rangeEnd, date) PROVE x = date
    <3>1. SUFFICES ASSUME x # date PROVE FALSE  OBVIOUS
    <3>2. /\ x \in Nat \ {0} /\ date < x /\ x <= rangeEnd /\ ~Ended(task, x)
          /\ Falls(rule, date, x)
      BY <1>1, <3>1 DEF From
    <3>3. next <= x  BY <1>3, <1>5, <3>2
    <3>4. next <= rangeEnd  BY <1>3, <3>2, <3>3
    <3>5. Ended(task, next)  BY <1>7, <3>4 DEF CountedIn
    <3> QED  BY <1>3, <3>2, <3>3, <3>5 DEF Ended
  <2>2. date \in From(task, rangeEnd, date)  BY DEF From
  <2>3. From(task, rangeEnd, date) = {date}  BY <2>1, <2>2
  <2> QED  BY <1>3, <1>7, <2>3
<1> QED  BY <1>6, <1>7

\* The walk goes through those occurrences.
LEMMA WalkIs ==
    ASSUME WholeCalendar, NEW task, parseRule(task.rule) \in Rules, task.end \in Int,
           NEW rangeEnd \in Int, NEW f, WalkTo(f, task, rangeEnd), NEW date \in Nat \ {0}
    PROVE  f[date] = From(task, rangeEnd, date)
<1> DEFINE Bad == {n \in Nat : \E d \in Nat \ {0} : /\ f[d] # From(task, rangeEnd, d)
                                                    /\ d + n = rangeEnd}
<1>1. ASSUME NEW d \in Nat \ {0}, f[d] # From(task, rangeEnd, d)
      PROVE  \E e \in Nat \ {0} : d < e /\ e <= rangeEnd /\ f[e] # From(task, rangeEnd, e)
  <2>1. PICK next : next = occurrenceAfter(d, parseRule(task.rule))  OBVIOUS
  <2>2. /\ next \in Nat \ {0} /\ d < next
        /\ From(task, rangeEnd, d) =
            {d} \cup (IF CountedIn(task, rangeEnd, next) THEN From(task, rangeEnd, next) ELSE {})
    BY <2>1, FromStep
  <2>3. f[d] = {d} \cup (IF CountedIn(task, rangeEnd, next) THEN f[next] ELSE {})
    BY <2>1, Zenon DEF WalkTo, WholeCalendar
  <2>4. CountedIn(task, rangeEnd, next) /\ f[next] # From(task, rangeEnd, next)
    BY <1>1, <2>2, <2>3
  <2>5. next <= rangeEnd  BY <2>4 DEF CountedIn
  <2> QED  BY <2>2, <2>4, <2>5
<1>2. SUFFICES ASSUME f[date] # From(task, rangeEnd, date) PROVE FALSE  OBVIOUS
<1>3. Bad # {}
  <2>1. PICK e \in Nat \ {0} : e <= rangeEnd /\ f[e] # From(task, rangeEnd, e)  BY <1>1, <1>2
  <2>2. rangeEnd - e \in Nat /\ e + (rangeEnd - e) = rangeEnd  BY <2>1
  <2> QED  BY <2>1, <2>2
<1>4. PICK n \in Bad : \A k \in Bad : n <= k
  <2>1. Bad \subseteq Nat  OBVIOUS
  <2> QED  BY <1>3, <2>1, LeastNumber
<1>5. PICK d \in Nat \ {0} : f[d] # From(task, rangeEnd, d) /\ d + n = rangeEnd /\ n \in Nat
  BY <1>4
<1>6. PICK e \in Nat \ {0} : d < e /\ e <= rangeEnd /\ f[e] # From(task, rangeEnd, e)
  BY <1>1, <1>5
<1>7. PICK k \in Nat : k = rangeEnd - e /\ e + k = rangeEnd /\ k < n
  <2>1. rangeEnd - e \in Nat /\ e + (rangeEnd - e) = rangeEnd /\ rangeEnd - e < n
    BY <1>5, <1>6
  <2> QED  BY <2>1
<1>8. k \in Bad  BY <1>6, <1>7
<1> QED  BY <1>4, <1>5, <1>7, <1>8

\* There is a walk: the occurrences themselves are one.
LEMMA WalkExists ==
    ASSUME WholeCalendar, NEW task, parseRule(task.rule) \in Rules, task.end \in Int,
           NEW rangeEnd \in Int
    PROVE  \E f : WalkTo(f, task, rangeEnd)
<1>1. PICK f : f = [date \in Nat \ {0} |-> From(task, rangeEnd, date)]  OBVIOUS
<1>2. ASSUME NEW date \in Nat \ {0}
      PROVE  f[date] = LET next == occurrenceAfter(date, parseRule(task.rule))
                       IN {date} \cup (IF CountedIn(task, rangeEnd, next) THEN f[next] ELSE {})
  <2>1. PICK next : next = occurrenceAfter(date, parseRule(task.rule))  OBVIOUS
  <2>2. /\ next \in Nat \ {0}
        /\ From(task, rangeEnd, date) =
            {date} \cup (IF CountedIn(task, rangeEnd, next) THEN From(task, rangeEnd, next) ELSE {})
    BY <2>1, FromStep
  <2>3. f[date] = From(task, rangeEnd, date) /\ f[next] = From(task, rangeEnd, next)
    BY <1>1, <2>2
  <2> QED  BY <2>1, <2>2, <2>3
<1>3. f = [date \in Calendar |-> f[date]]  BY <1>1 DEF WholeCalendar
<1>4. WalkTo(f, task, rangeEnd)  BY <1>2, <1>3, Zenon DEF WalkTo, WholeCalendar
<1> QED  BY <1>4

\* The budget goes through the occurrences that count, from the one it starts at.
LEMMA WalkGoes ==
    ASSUME WholeCalendar, NEW task, parseRule(task.rule) \in Rules, task.end \in Int,
           NEW rangeEnd \in Int, NEW current \in Nat \ {0}
    PROVE  Walk(task, rangeEnd, current) =
             {d \in current .. rangeEnd :
                ~Ended(task, d) /\ (d = current \/ Falls(parseRule(task.rule), current, d))}
<1> DEFINE Counts == {d \in current .. rangeEnd :
                ~Ended(task, d) /\ (d = current \/ Falls(parseRule(task.rule), current, d))}
<1>1. \E f : WalkTo(f, task, rangeEnd)  BY WalkExists
<1>2. PICK f : /\ WalkTo(f, task, rangeEnd)
               /\ Walk(task, rangeEnd, current) =
                    IF CountedIn(task, rangeEnd, current) THEN f[current] ELSE {}
  BY <1>1 DEF Walk, WalkTo, CountedIn
<1>3. f[current] = From(task, rangeEnd, current)  BY <1>2, WalkIs
<1>4. CASE CountedIn(task, rangeEnd, current)
  <2>1. current <= rangeEnd /\ ~Ended(task, current)  BY <1>4 DEF CountedIn
  <2>2. From(task, rangeEnd, current) = Counts
    <3>1. Counts \subseteq From(task, rangeEnd, current)  BY <2>1 DEF From
    <3>2. From(task, rangeEnd, current) \subseteq Counts  BY <2>1 DEF From
    <3> QED  BY <3>1, <3>2
  <2> QED  BY <1>2, <1>3, <1>4, <2>2
<1>5. CASE ~ CountedIn(task, rangeEnd, current)
  <2>1. ASSUME NEW d \in Counts PROVE FALSE
    <3>1. d \in Nat /\ current <= d /\ d <= rangeEnd /\ ~Ended(task, d)  OBVIOUS
    <3>2. current <= rangeEnd  BY <3>1
    <3>3. Ended(task, current)  BY <1>5, <3>2 DEF CountedIn
    <3>4. Ended(task, d)  BY <3>1, <3>3 DEF Ended
    <3> QED  BY <3>1, <3>4
  <2> QED  BY <1>2, <1>5, <2>1
<1> QED  BY <1>4, <1>5

\* The days of a month are those that are in it.
LEMMA DaysOfMonth ==
    ASSUME WholeCalendar, NEW month \in Nat, NEW d \in Nat \ {0}
    PROVE  d \in DaysOf(month) <=> MonthNumber(d) = month
<1>1. /\ UTC(0, month, 1) = Before(month) + 1 /\ UTC(0, month + 1, 0) = Before(month + 1)
  <2>1. PICK y \in Int, m \in Int, n \in Int, o \in Int :
            y = 0 /\ m = month /\ n = month + 1 /\ o = 1
    OBVIOUS
  <2>2. UTC(y, m, o) = Before(12 * y + m) + o /\ UTC(y, n, y) = Before(12 * y + n) + y
    BY UTCIs
  <2>3. Before(n) \in Int  BY MonthDays
  <2>4. 12 * y + m = m /\ 12 * y + n = n  BY <2>1
  <2> QED  BY <2>1, <2>2, <2>3, <2>4
<1>2. /\ Before(month) \in Int /\ Before(month + 1) \in Int
      /\ LastDay(month) = Before(month + 1) - Before(month) /\ LastDay(month) \in 28 .. 31
  BY MonthDays
<1>3. d \in DaysOf(month) <=> Before(month) < d /\ d <= Before(month + 1)
  BY <1>1, <1>2 DEF DaysOf
<1>4. ASSUME MonthNumber(d) = month PROVE Before(month) < d /\ d <= Before(month + 1)
  <2>1. d = Before(month) + Day(d) /\ Day(d) \in 1 .. LastDay(month)  BY <1>4, DayOfMonth
  <2> QED  BY <1>2, <2>1
<1>5. ASSUME Before(month) < d, d <= Before(month + 1) PROVE MonthNumber(d) = month
  <2>1. PICK i \in 1 .. LastDay(month) : d = Before(month) + i
    <3>1. d - Before(month) \in 1 .. LastDay(month) /\ d = Before(month) + (d - Before(month))
      BY <1>2, <1>5
    <3> QED  BY <3>1
  <2>2. month \in Int  OBVIOUS
  <2> QED  BY <2>1, <2>2, MonthIs
<1> QED  BY <1>3, <1>4, <1>5

\* The occurrence a projection starts from, and the days it may then find: the dates of the rule up
\* to the end of the second month, until the repeat ends, as many as a walk may pass.
StartOf(task, day) ==
    IF task.done THEN task.next ELSE IF task.due # NoDate THEN task.due ELSE day
MeantFrom(task, month, current) ==
    Capped({d \in current .. UTC(0, month + 2, 0) :
             ~Ended(task, d) /\ (d = current \/ Falls(parseRule(task.rule), current, d))})

\* The months a projection counts hold the days the rule means: the walk through a row's
\* occurrences passes those and no other.
LEMMA ProjectionIs ==
    ASSUME WholeCalendar, NEW task, Columns(task), task.rule # NoRule, NEW day \in Nat \ {0},
           NEW month \in Nat, NEW current \in Nat \ {0}, current = StartOf(task, day)
    PROVE  projectRecurringOccurrences(task, <<month, month + 1>>, day) =
             [i \in 1 .. 2 |-> Cardinality(MeantFrom(task, month, current)
                                             \cap DaysOf(<<month, month + 1>>[i]))]
<1>0. PICK dates : dates = MeantFrom(task, month, current)  OBVIOUS
<1>1. PICK range : range = <<month, month + 1>>  OBVIOUS
<1>2. /\ DOMAIN range = 1 .. 2 /\ Len(range) = 2 /\ range[Len(range)] + 1 = month + 2
      /\ \A i \in 1 .. 2 : range[i] \in Nat
  BY <1>1
<1>3. PICK rangeEnd \in Int : rangeEnd = UTC(0, month + 2, 0)
  <2>1. PICK y \in Int, m \in Int : y = 0 /\ m = month + 2  OBVIOUS
  <2>2. UTC(y, m, y) = Before(12 * y + m) + y  BY UTCIs
  <2>3. 12 * y + m \in Int  BY <2>1
  <2>4. Before(12 * y + m) \in Int  BY <2>3, MonthDays
  <2>5. UTC(y, m, y) \in Int  BY <2>1, <2>2, <2>4
  <2> QED  BY <2>1, <2>5
<1>4. parseRule(task.rule) \in Rules /\ task.end \in Int
  BY StoredIs, DatesAre DEF Columns
<1>5. current # NoDate  BY DatesAre
<1>6. dates = Capped(Walk(task, rangeEnd, current))
  BY <1>0, <1>3, <1>4, WalkGoes DEF MeantFrom
<1>7. dates \subseteq Nat \ {0}
  BY <1>0, <1>3 DEF Capped, MeantFrom
<1>8. projectRecurringOccurrences(task, range, day) =
        [i \in DOMAIN range |-> Cardinality({d \in dates : MonthNumber(d) = range[i]})]
  BY <1>2, <1>3, <1>5, <1>6 DEF projectRecurringOccurrences, StartOf
<1>9. ASSUME NEW i \in 1 .. 2
      PROVE  {d \in dates : MonthNumber(d) = range[i]} = dates \cap DaysOf(range[i])
  <2>1. range[i] \in Nat  BY <1>2
  <2>2. \A d \in dates : d \in DaysOf(range[i]) <=> MonthNumber(d) = range[i]
    BY <1>7, <2>1, DaysOfMonth
  <2> QED  BY <2>2
<1>10. projectRecurringOccurrences(task, range, day) =
        [i \in 1 .. 2 |-> Cardinality(dates \cap DaysOf(range[i]))]
  BY <1>2, <1>8, <1>9
<1> QED  BY <1>0, <1>1, <1>10

\* The budget counts, in this month and the next, the occurrences that the row's rule means.
LEMMA ProjectionHolds ==
    ASSUME WholeCalendar, TaskInv
    PROVE  ProjectionAgrees
<1> DEFINE month == MonthNumber(today)
           range == <<month, month + 1>>
           current == IF item.done THEN item.next ELSE IF item.due # NoDate THEN item.due ELSE today
           rule == parseRule(item.rule)
           Counts(date) == date = current \/ Falls(rule, current, date)
           dates == Capped({d \in current .. UTC(0, month + 2, 0) : ~Ended(item, d) /\ Counts(d)})
<1>1. SUFFICES ASSUME Resting, item.rule # NoRule, current # NoDate
               PROVE  projectRecurringOccurrences(item, range, today) =
                        [i \in 1 .. 2 |-> Cardinality(dates \cap DaysOf(range[i]))]
  BY DEF ProjectionAgrees
<1>2. PICK day \in Nat \ {0} : day = today  BY TodayIs DEF TaskInv
<1>3. Columns(item)  BY DEF TaskInv
<1>4. PICK m \in Nat : m = month  BY <1>2, DayOfMonth
<1>5. PICK c \in Nat \ {0} : c = current  BY <1>1, <1>2, <1>3, DatesAre DEF Columns
<1>6. current = StartOf(item, today)  BY DEF StartOf
<1>7. dates = MeantFrom(item, month, current)  BY DEF MeantFrom
<1>8. projectRecurringOccurrences(item, <<m, m + 1>>, day) =
        [i \in 1 .. 2 |-> Cardinality(MeantFrom(item, m, c) \cap DaysOf(<<m, m + 1>>[i]))]
  <2>1. c = StartOf(item, day)  BY <1>2, <1>5, <1>6
  <2> QED  BY <1>1, <1>3, <2>1, ProjectionIs
<1> QED  BY <1>2, <1>4, <1>5, <1>7, <1>8

\* The budget (planning.js) counts the occurrences the rule means, in this month and the next, and
\* the sheet (recurrence-editor.js) hands over a rule that is read back as it was made.
THEOREM RuleIsHonored ==
    ASSUME WholeCalendar
    PROVE  Spec => []RuleHonored
<1>1. ASSUME TaskInv PROVE RuleHonored
  BY <1>1, ProjectionHolds, EditorAccepted DEF RuleHonored
<1> QED  BY <1>1, TaskAlways, PTL
=============================================================================
