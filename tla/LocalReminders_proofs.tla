------------------------ MODULE LocalReminders_proofs ------------------------
(***************************************************************************)
(* Proofs about the reminders of the Android app (LocalReminders), for any *)
(* tasks, moments, handlers and number of writes and faults: types; the    *)
(* phone shows what the page has written down; turned off, nothing is left *)
(* to ring; and what was checked off does not come back.                   *)
(***************************************************************************)
EXTENDS LocalReminders, SequenceTheorems, WellFoundedInduction, TLAPS

-----------------------------------------------------------------------------
(* Types *)

Ids == Tasks \cup {"summary"}
Schedules == [Tasks -> Moment \cup {None}]

WorldInv ==
    /\ server \in [Tasks -> [done : BOOLEAN, deleted : BOOLEAN]]
    /\ prefs \in [reminders : BOOLEAN, summary : BOOLEAN]
    /\ outgoing \in Seq([kind : Kinds, ids : SUBSET Tasks])
    /\ granted \in BOOLEAN /\ net \in BOOLEAN
    /\ now \in 0 .. MaxNow /\ writes \in 0 .. MaxWrites /\ faults \in 0 .. MaxFaults

RecordsInv ==
    /\ phone \subseteq Notification
    /\ enabled \in BOOLEAN
    /\ scheduled \in Schedules
    /\ suppressed \in [Tasks -> [at : Moment, since : Nat] \cup {None}]
    /\ summary \in Entry \cup {None}

\* A sync that was answered holds the answer until its end.
Answered == {"answer", "pending", "cancelled", "scheduled"}
SyncInv ==
    /\ sync \in [pc : {"idle", "permission", "fetch"} \cup Answered, answer : Answer \cup {None},
                 entry : Entry \cup {None}, pending : SUBSET Ids, alone : BOOLEAN]
    /\ sync.pc \in Answered => sync.answer \in Answer
    /\ again \in BOOLEAN /\ timer \in BOOLEAN

\* What a handler holds from one await to the next.
HandlerShape(r) ==
    /\ r \in [pc : {"idle", "note", "cancelled", "restored", "off", "disable", "disabled"},
              kind : Kinds \cup {None}, ids : SUBSET Ids, snap : Schedules \cup Moment \cup {None}]
    /\ r.pc \in {"note", "cancelled", "restored"} => r.kind \in Kinds /\ r.ids \subseteq Tasks
    /\ r.pc \in {"note", "restored"} /\ r.kind = "uncheck" => \E t \in Tasks : r.ids = {t}
    /\ r.pc = "cancelled" => r.kind # "uncheck" /\ r.snap \in Schedules
    /\ r.pc = "restored" => r.kind = "uncheck" /\ r.snap \in Moment
    /\ r.pc = "off" => r.kind \in {"remindersOff", "summaryOff"}

HandlersInv ==
    DOMAIN handler = Handlers /\ \A h \in Handlers : HandlerShape(handler[h])

GhostsInv ==
    /\ checked \subseteq [id : Tasks, at : Moment, since : Nat]
    /\ unheard \subseteq Tasks /\ raced \in BOOLEAN

TypeInv == WorldInv /\ RecordsInv /\ SyncInv /\ HandlersInv /\ GhostsInv

\* The last summary's moment: a set of naturals has a least element.
LEMMA LeastOf ==
    ASSUME NEW S, S \subseteq Nat, S # {}
    PROVE  \E s \in S : \A u \in S : s <= u
<1> DEFINE R == OpToRel(<, Nat)
<1>1. IsWellFoundedOn(R, Nat)
  BY NatLessThanWellFounded
<1>2. \A u, s \in Nat : u < s => <<u, s>> \in R
  BY DEF OpToRel
<1> HIDE DEF R
<1>3. PICK s \in S : \A u \in S : <<u, s>> \notin R
  BY <1>1, WFMin
<1>4. ASSUME NEW u \in S PROVE s <= u
  <2>1. s \in Nat /\ u \in Nat
    OBVIOUS
  <2>2. ~(u < s)
    BY <1>2, <1>3, <2>1
  <2> QED
    BY <2>1, <2>2
<1> QED
  BY <1>3, <1>4

\* What the server answers.
LEMMA UpcomingType ==
    ASSUME WorldInv
    PROVE  Upcoming \in Answer
<1>1. upcomingReminders \in SUBSET [id : Tasks, at : Moment]
  <2>1. \A t \in Tasks : Returned(t) \in Moment
    BY LocalRemindersAssumption DEF Returned, Moment
  <2> QED
    BY <2>1 DEF upcomingReminders
<1>2. nextOverdueSummary \in Summary \cup {None}
  <2> DEFINE ids == {t \in Tasks : Due[t] = 0 /\ ~server[t].done /\ ~server[t].deleted}
             ahead == {s \in SummaryTimes : s > now}
             at == CHOOSE s \in ahead : \A u \in ahead : s <= u
  <2>1. CASE ~prefs.summary \/ ids = {} \/ ahead = {}
    BY <2>1 DEF nextOverdueSummary
  <2>2. CASE prefs.summary /\ ids # {} /\ ahead # {}
    <3>1. ahead \subseteq Nat
      BY LocalRemindersAssumption
    <3>2. \E s \in ahead : \A u \in ahead : s <= u
      BY <2>2, <3>1, LeastOf
    <3>3. at \in Moment
      BY <3>1, <3>2 DEF Moment
    <3>4. nextOverdueSummary = [at |-> at, ids |-> ids]
      BY <2>2 DEF nextOverdueSummary
    <3> HIDE DEF at
    <3> QED
      BY <3>3, <3>4 DEF Summary
  <2> QED
    BY <2>1, <2>2 DEF WorldInv
<1> QED
  BY <1>1, <1>2 DEF Upcoming, Answer

\* A write is of a kind, about tasks.
LEMMA AppliedType ==
    ASSUME NEW tasks \in [Tasks -> [done : BOOLEAN, deleted : BOOLEAN]],
           NEW w \in [kind : Kinds, ids : SUBSET Tasks]
    PROVE  AppliedTo(tasks, w) \in [Tasks -> [done : BOOLEAN, deleted : BOOLEAN]]
<1>1. ASSUME NEW t \in Tasks
      PROVE  AppliedTo(tasks, w)[t] \in [done : BOOLEAN, deleted : BOOLEAN]
  BY DEF AppliedTo, Kinds
<1> QED
  BY <1>1 DEF AppliedTo

\* A write leaves two preferences.
LEMMA AppliedPrefsType ==
    ASSUME WorldInv, NEW w \in [kind : Kinds, ids : SUBSET Tasks]
    PROVE  AppliedPrefs(w) \in [reminders : BOOLEAN, summary : BOOLEAN]
BY DEF WorldInv, AppliedPrefs, Kinds

\* A request is of a kind, about tasks; of one task, when it is checked off or back.
LEMMA RequestType ==
    ASSUME NEW w \in Requests
    PROVE  /\ w \in [kind : Kinds, ids : SUBSET Tasks]
           /\ w.kind \in {"check", "uncheck", "delete"} => \E t \in Tasks : w.ids = {t}
           /\ w.kind \in {"remindersOff", "summaryOff", "prefsOn"} => w.ids = {}
BY DEF Requests, Kinds

\* Every step keeps the types of the server, of the queue and of the clock.
LEMMA WorldStep ==
    ASSUME TypeInv, [Next]_vars
    PROVE  WorldInv'
<1>0. WorldInv
  BY DEF TypeInv
<1> USE <1>0, LocalRemindersAssumption
<1>1. CASE UNCHANGED world
  BY <1>1 DEF WorldInv, world
<1>2. ASSUME NEW h \in Handlers, Write(h) PROVE WorldInv'
  <2>1. PICK w \in Requests : Request(h, w)
    BY <1>2 DEF Write
  <2>2. w \in [kind : Kinds, ids : SUBSET Tasks]
    BY RequestType
  <2>3. /\ server' \in [Tasks -> [done : BOOLEAN, deleted : BOOLEAN]]
        /\ prefs' \in [reminders : BOOLEAN, summary : BOOLEAN]
    <3>1. server' = Applied(w) \/ server' = server
      BY <2>1 DEF Request
    <3>2. prefs' = AppliedPrefs(w) \/ prefs' = prefs
      BY <2>1 DEF Request
    <3>3. server \in [Tasks -> [done : BOOLEAN, deleted : BOOLEAN]]
      BY DEF WorldInv
    <3>4. Applied(w) \in [Tasks -> [done : BOOLEAN, deleted : BOOLEAN]]
      BY <2>2, <3>3, AppliedType DEF Applied
    <3>5. AppliedPrefs(w) \in [reminders : BOOLEAN, summary : BOOLEAN]
      BY <2>2, AppliedPrefsType
    <3>6. prefs \in [reminders : BOOLEAN, summary : BOOLEAN]
      BY DEF WorldInv
    <3> QED
      BY <3>1, <3>2, <3>3, <3>4, <3>5, <3>6
  <2>4. outgoing' \in Seq([kind : Kinds, ids : SUBSET Tasks])
    <3>1. outgoing' = Append(outgoing, w) \/ outgoing' = outgoing
      BY <2>1 DEF Request
    <3> DEFINE S == [kind : Kinds, ids : SUBSET Tasks]
    <3>2. outgoing \in Seq(S) /\ w \in S
      BY <2>2 DEF WorldInv
    <3> HIDE DEF S
    <3>3. Append(outgoing, w) \in Seq(S)
      BY <3>2, AppendProperties
    <3> QED
      BY <3>1, <3>2, <3>3 DEF S
  <2>5. UNCHANGED <<granted, net, now, faults>>
    BY <2>1 DEF Request
  <2>6. writes' \in 0 .. MaxWrites
    BY <2>1 DEF Request, Open, WorldInv
  <2> QED
    BY <2>3, <2>4, <2>5, <2>6 DEF WorldInv
<1>3. ASSUME NEW h \in Handlers, Disable(h) \/ Enable(h) PROVE WorldInv'
  <2>1. UNCHANGED <<server, prefs, outgoing, net, now, faults>> /\ granted' \in BOOLEAN
    BY <1>3 DEF Disable, Enable, WorldInv
  <2>2. writes' \in 0 .. MaxWrites
    <3>1. writes < MaxWrites /\ writes' = writes + 1
      BY <1>3 DEF Disable, Enable, Open
    <3> QED
      BY <3>1 DEF WorldInv
  <2> QED
    BY <2>1, <2>2 DEF WorldInv
<1>4. CASE Deliver \/ Refuse
  <2>1. outgoing' = Tail(outgoing) /\ outgoing # <<>>
    BY <1>4 DEF Deliver, Refuse
  <2>2. outgoing' \in Seq([kind : Kinds, ids : SUBSET Tasks])
    BY <2>1, HeadTailProperties DEF WorldInv
  <2>3. Head(outgoing) \in [kind : Kinds, ids : SUBSET Tasks]
    BY <2>1, HeadTailProperties DEF WorldInv
  <2>4. /\ server' \in [Tasks -> [done : BOOLEAN, deleted : BOOLEAN]]
        /\ prefs' \in [reminders : BOOLEAN, summary : BOOLEAN]
    <3> PICK w \in [kind : Kinds, ids : SUBSET Tasks] : w = Head(outgoing)
      BY <2>3
    <3>1. server' = AppliedTo(server, w) \/ server' = server
      BY <1>4 DEF Deliver, Refuse, Applied
    <3>2. prefs' = AppliedPrefs(w) \/ prefs' = prefs
      BY <1>4 DEF Deliver, Refuse
    <3>3. AppliedTo(server, w) \in [Tasks -> [done : BOOLEAN, deleted : BOOLEAN]]
      BY AppliedType DEF WorldInv
    <3>4. AppliedPrefs(w) \in [reminders : BOOLEAN, summary : BOOLEAN]
      BY AppliedPrefsType
    <3> QED
      BY <3>1, <3>2, <3>3, <3>4 DEF WorldInv
  <2>5. UNCHANGED <<granted, net, now, writes, faults>>
    BY <1>4 DEF Deliver, Refuse
  <2> QED
    BY <2>2, <2>4, <2>5 DEF WorldInv
<1>5. CASE OtherDevice
  <2>1. /\ UNCHANGED <<prefs, outgoing, granted, net, now, writes>>
        /\ faults > 0 /\ faults' = faults - 1
    BY <1>5 DEF OtherDevice, Fault
  <2>2. PICK t \in Tasks : server' = [server EXCEPT ![t].done = ~@]
    BY <1>5 DEF OtherDevice
  <2>3. server' \in [Tasks -> [done : BOOLEAN, deleted : BOOLEAN]]
    BY <2>2 DEF WorldInv
  <2> QED
    BY <2>1, <2>3 DEF WorldInv
<1>6. CASE Disconnect \/ Connect \/ Resume \/ Revoke
  <2>1. UNCHANGED <<server, prefs, outgoing, now>>
    BY <1>6 DEF Disconnect, Connect, Resume, Revoke
  <2>2. net' \in BOOLEAN /\ granted' \in BOOLEAN
    BY <1>6 DEF Disconnect, Connect, Resume, Revoke, WorldInv
  <2>3. writes' \in 0 .. MaxWrites
    BY <1>6 DEF Disconnect, Connect, Resume, Revoke, WorldInv
  <2>4. faults' \in 0 .. MaxFaults
    BY <1>6 DEF Disconnect, Connect, Resume, Revoke, Fault, WorldInv
  <2> QED
    BY <2>1, <2>2, <2>3, <2>4 DEF WorldInv
<1>7. CASE Kill \/ PluginFails
  <2>1. UNCHANGED <<server, prefs, outgoing, granted, net, now, writes>>
    BY <1>7 DEF Kill, PluginFails
  <2>2. faults' \in 0 .. MaxFaults
    BY <1>7 DEF Kill, PluginFails, Fault, WorldInv
  <2> QED
    BY <2>1, <2>2 DEF WorldInv
<1>8. CASE Tick
  <2>1. UNCHANGED <<server, prefs, outgoing, granted, net, writes, faults>>
    BY <1>8 DEF Tick
  <2>2. now' \in 0 .. MaxNow
    BY <1>8 DEF Tick, WorldInv
  <2> QED
    BY <2>1, <2>2 DEF WorldInv
<1>9. CASE SyncStart \/ Sync
  <2>1. UNCHANGED world
    BY <1>9 DEF SyncStart, Sync, SyncPermission, SyncFetch, SyncCompute, SyncCancel,
                SyncSchedule, SyncRecord
  <2> QED
    BY <1>1, <2>1
<1>10. ASSUME NEW h \in Handlers, Handle(h) PROVE WorldInv'
  <2>1. UNCHANGED world
    BY <1>10 DEF Handle, Suppress, Suppressed, Restore, Restored, PreferenceOff,
                 PreferenceRecorded, Other, DisableCancel, DisableRecorded
  <2> QED
    BY <1>1, <2>1
<1> QED
  BY <1>1, <1>2, <1>3, <1>4, <1>5, <1>6, <1>7, <1>8, <1>9, <1>10 DEF Next, vars

\* What an entry of the summary is, with a task marked or not.
LEMMA MarkSummaryType ==
    ASSUME TypeInv, NEW h \in Handlers, NEW done \in BOOLEAN, MarkSummary(h, done),
           handler[h].pc \in {"note", "cancelled", "restored"}
    PROVE  /\ summary' \in Entry \cup {None}
           /\ phone' \subseteq Notification
           /\ handler' = [handler EXCEPT ![h] = IdleHandler]
           /\ timer' = (timer \/ enabled)
<1>0. RecordsInv /\ HandlersInv
  BY DEF TypeInv
<1> DEFINE ids == IF handler[h].kind = "deleteList" THEN {} ELSE handler[h].ids
           marked == IF summary = None THEN {} ELSE ids \cap summary.summary.ids
           entry == [summary EXCEPT !.done = IF done THEN @ \cup marked ELSE @ \ marked]
<1>1. handler' = [handler EXCEPT ![h] = IdleHandler] /\ timer' = (timer \/ enabled)
  BY DEF MarkSummary, HandlerEnds, ScheduleSync
<1>2. CASE marked = {}
  <2>1. summary' = summary /\ phone' = phone
    BY <1>2 DEF MarkSummary
  <2> QED
    BY <1>0, <1>1, <2>1 DEF RecordsInv
<1>3. CASE marked # {}
  <2>1. /\ summary' = entry
        /\ phone' = IF HasOpenTasks(summary) /\ ~HasOpenTasks(entry)
                    THEN Cancel({"summary"})
                    ELSE IF ~HasOpenTasks(summary) /\ HasOpenTasks(entry)
                            /\ entry.summary.at > now
                    THEN Schedule({[id |-> "summary", at |-> entry.summary.at]})
                    ELSE phone
    BY <1>3 DEF MarkSummary
  <2>2. summary \in Entry /\ marked \subseteq Tasks
    <3>1. summary # None
      BY <1>3
    <3>2. summary \in Entry
      BY <1>0, <3>1 DEF RecordsInv
    <3> QED
      BY <3>1, <3>2 DEF Entry, Summary
  <2> HIDE DEF marked
  <2>3. entry \in Entry
    BY <2>2 DEF Entry
  <2> HIDE DEF entry
  <2>4. [id |-> "summary", at |-> entry.summary.at] \in Notification
    BY <2>3 DEF Entry, Summary, Notification
  <2>5. phone' \subseteq Notification
    BY <1>0, <2>1, <2>4 DEF Cancel, Schedule, RecordsInv
  <2> QED
    BY <1>1, <2>1, <2>3, <2>5
<1> QED
  BY <1>2, <1>3

\* What a sync schedules.
LEMMA SyncNotificationsType ==
    ASSUME SyncInv, sync.pc \in Answered
    PROVE  SyncNotifications \subseteq Notification
<1>1. sync.answer.reminders \subseteq Notification
  BY DEF SyncInv, Answer, Notification
<1>2. sync.entry # None => [id |-> "summary", at |-> sync.entry.summary.at] \in Notification
  BY DEF SyncInv, Entry, Summary, Notification
<1> QED
  BY <1>1, <1>2 DEF SyncNotifications

\* What the page writes down of a summary.
LEMMA SummaryEntryType ==
    ASSUME RecordsInv, NEW s \in Summary \cup {None}
    PROVE  SummaryEntry(s) \in Entry \cup {None}
BY DEF RecordsInv, SummaryEntry, Entry, Summary

\* What is left of the suppressions.
LEMMA PrunedType ==
    ASSUME RecordsInv, NEW answer
    PROVE  PrunedSuppressions(answer) \in [Tasks -> [at : Moment, since : Nat] \cup {None}]
BY DEF RecordsInv, PrunedSuppressions

\* A step of the sync keeps the types of what outlives the page.
LEMMA RecordsOfSync ==
    ASSUME TypeInv, SyncStart \/ Sync
    PROVE  RecordsInv'
<1>0. RecordsInv /\ SyncInv
  BY DEF TypeInv
<1>1. CASE SyncStart \/ SyncPermission \/ SyncFetch
  BY <1>0, <1>1 DEF SyncStart, SyncPermission, SyncFetch, RecordsInv, records
<1>2. CASE SyncCompute
  <2>1. suppressed' = PrunedSuppressions(sync.answer)
    BY <1>2 DEF SyncCompute
  <2>2. UNCHANGED <<phone, enabled, scheduled, summary>>
    BY <1>2 DEF SyncCompute
  <2> QED
    BY <1>0, <2>1, <2>2, PrunedType DEF RecordsInv
<1>3. CASE SyncCancel
  BY <1>0, <1>3 DEF SyncCancel, Cancel, RecordsInv, records
<1>4. CASE SyncSchedule
  <2>1. sync.pc \in Answered
    BY <1>4 DEF SyncSchedule, Answered
  <2>2. phone' \subseteq Notification
    BY <1>0, <1>4, <2>1, SyncNotificationsType DEF SyncSchedule, Schedule, RecordsInv
  <2>3. UNCHANGED <<enabled, suppressed>> /\ scheduled' = Nothing /\ summary' = None
    BY <1>4 DEF SyncSchedule
  <2>4. Nothing \in Schedules
    BY DEF Nothing, Schedules
  <2> QED
    BY <1>0, <2>2, <2>3, <2>4 DEF RecordsInv
<1>5. CASE SyncRecord
  <2>1. sync.answer.reminders \subseteq [id : Tasks, at : Moment]
    <3>1. sync.pc \in Answered
      BY <1>5 DEF SyncRecord, Answered
    <3> QED
      BY <1>0, <3>1 DEF SyncInv, Answer
  <2> DEFINE A == sync.answer.reminders
  <2>2. scheduled' = [t \in Tasks |-> IF \E r \in A : r.id = t
                                      THEN (CHOOSE r \in A : r.id = t).at ELSE None]
    BY <1>5 DEF SyncRecord
  <2> HIDE DEF A
  <2>3. ASSUME NEW t \in Tasks, \E r \in A : r.id = t
        PROVE  (CHOOSE r \in A : r.id = t).at \in Moment
    <3>1. (CHOOSE r \in A : r.id = t) \in A
      BY <2>3
    <3> QED
      BY <2>1, <3>1 DEF A
  <2>4. scheduled' \in Schedules
    BY <2>2, <2>3 DEF Schedules
  <2>5. UNCHANGED <<phone, enabled, suppressed>> /\ summary' = sync.entry
    BY <1>5 DEF SyncRecord
  <2> QED
    BY <1>0, <2>4, <2>5 DEF RecordsInv, SyncInv
<1> QED
  BY <1>1, <1>2, <1>3, <1>4, <1>5 DEF Sync

\* So does a step of a handler.
LEMMA RecordsOfHandler ==
    ASSUME TypeInv, NEW h \in Handlers, Handle(h)
    PROVE  RecordsInv'
<1>0. RecordsInv /\ HandlerShape(handler[h]) /\ now \in Nat
  BY LocalRemindersAssumption DEF TypeInv, HandlersInv, WorldInv
<1>1. CASE Suppress(h)
  <2>1. handler[h].pc \in {"note", "cancelled", "restored"}
    BY <1>1 DEF Suppress
  <2>2. UNCHANGED <<enabled, scheduled, suppressed>>
    BY <1>1 DEF Suppress
  <2>3. \/ MarkSummary(h, TRUE)
        \/ phone' \subseteq phone /\ summary' = summary
    BY <1>1 DEF Suppress, Cancel
  <2>4. phone' \subseteq Notification /\ summary' \in Entry \cup {None}
    BY <1>0, <2>1, <2>3, MarkSummaryType DEF RecordsInv
  <2> QED
    BY <1>0, <2>2, <2>4 DEF RecordsInv
<1>2. CASE Suppressed(h)
  <2>1. handler[h].snap \in Schedules /\ handler[h].ids \subseteq Tasks
    BY <1>0, <1>2 DEF Suppressed, HandlerShape
  <2> DEFINE snap == handler[h].snap
             ids == {t \in handler[h].ids : snap[t] # None}
  <2>2. /\ suppressed' = [t \in Tasks |-> IF t \in ids THEN Suppression(snap[t])
                                          ELSE suppressed[t]]
        /\ scheduled' = [t \in Tasks |-> IF t \in ids THEN None ELSE snap[t]]
        /\ MarkSummary(h, TRUE) /\ enabled' = enabled
    BY <1>2 DEF Suppressed
  <2>3. scheduled' \in Schedules
    BY <2>1, <2>2 DEF Schedules
  <2>4. \A t \in ids : Suppression(snap[t]) \in [at : Moment, since : Nat]
    BY <1>0, <2>1 DEF Suppression, Schedules
  <2>5. suppressed' \in [Tasks -> [at : Moment, since : Nat] \cup {None}]
    BY <1>0, <2>2, <2>4 DEF RecordsInv
  <2>6. phone' \subseteq Notification /\ summary' \in Entry \cup {None}
    BY <1>2, <2>2, MarkSummaryType DEF Suppressed
  <2> QED
    BY <1>0, <2>2, <2>3, <2>5, <2>6 DEF RecordsInv
<1>3. CASE Restore(h)
  <2> DEFINE t == CHOOSE u \in Tasks : handler[h].ids = {u}
  <2>1. t \in Tasks
    BY <1>0, <1>3 DEF Restore, HandlerShape
  <2>2. /\ suppressed' = [suppressed EXCEPT ![t] = None]
        /\ \/ /\ suppressed[t] # None
              /\ phone' = Schedule({[id |-> t, at |-> suppressed[t].at]})
              /\ summary' = summary
           \/ MarkSummary(h, FALSE)
        /\ UNCHANGED <<enabled, scheduled>>
    BY <1>3 DEF Restore
  <2> HIDE DEF t
  <2>3. suppressed[t] # None => [id |-> t, at |-> suppressed[t].at] \in Notification
    BY <1>0, <2>1 DEF RecordsInv, Notification
  <2>4. phone' \subseteq Notification /\ summary' \in Entry \cup {None}
    <3>1. CASE MarkSummary(h, FALSE)
      BY <1>3, <3>1, MarkSummaryType DEF Restore
    <3>2. CASE ~MarkSummary(h, FALSE)
      BY <1>0, <2>2, <2>3, <3>2 DEF RecordsInv, Schedule
    <3> QED
      BY <3>1, <3>2
  <2> QED
    BY <1>0, <2>1, <2>2, <2>4 DEF RecordsInv
<1>4. CASE Restored(h)
  <2> DEFINE t == CHOOSE u \in Tasks : handler[h].ids = {u}
  <2>1. scheduled' = [scheduled EXCEPT ![t] = handler[h].snap] /\ MarkSummary(h, FALSE)
        /\ UNCHANGED <<enabled, suppressed>>
    BY <1>4 DEF Restored, Recorded
  <2>2. handler[h].snap \in Moment
    BY <1>0, <1>4 DEF Restored, HandlerShape
  <2> HIDE DEF t
  <2>3. scheduled' \in Schedules
    BY <1>0, <2>1, <2>2 DEF RecordsInv, Schedules
  <2>4. phone' \subseteq Notification /\ summary' \in Entry \cup {None}
    BY <1>4, <2>1, MarkSummaryType DEF Restored
  <2> QED
    BY <1>0, <2>1, <2>3, <2>4 DEF RecordsInv
<1>5. CASE PreferenceOff(h) \/ DisableCancel(h) \/ Other(h)
  BY <1>0, <1>5 DEF PreferenceOff, DisableCancel, Other, Cancel, RecordsInv, records
<1>6. CASE PreferenceRecorded(h) \/ DisableRecorded(h)
  <2>1. Nothing \in Schedules
    BY DEF Nothing, Schedules
  <2>2. Nothing \in [Tasks -> [at : Moment, since : Nat] \cup {None}]
    BY DEF Nothing
  <2>3. phone' = phone /\ enabled' = enabled
    BY <1>6 DEF PreferenceRecorded, DisableRecorded
  <2>4. /\ scheduled' \in {scheduled, Nothing} /\ suppressed' \in {suppressed, Nothing}
        /\ summary' \in {summary, None}
    BY <1>6 DEF PreferenceRecorded, DisableRecorded
  <2> QED
    BY <1>0, <2>1, <2>2, <2>3, <2>4 DEF RecordsInv
<1> QED
  BY <1>1, <1>2, <1>3, <1>4, <1>5, <1>6 DEF Handle

\* So does every step.
LEMMA RecordsStep ==
    ASSUME TypeInv, [Next]_vars
    PROVE  RecordsInv'
<1>0. RecordsInv
  BY DEF TypeInv
<1>1. CASE SyncStart \/ Sync
  BY <1>1, RecordsOfSync
<1>2. ASSUME NEW h \in Handlers, Handle(h) PROVE RecordsInv'
  BY <1>2, RecordsOfHandler
<1>3. ASSUME NEW h \in Handlers, Write(h) PROVE RecordsInv'
  BY <1>0, <1>3 DEF Write, Request, RecordsInv, records
<1>4. ASSUME NEW h \in Handlers, Disable(h) \/ Enable(h) PROVE RecordsInv'
  <2>1. UNCHANGED <<phone, scheduled, summary>> /\ suppressed' \in {suppressed, Nothing}
    BY <1>4 DEF Disable, Enable
  <2>2. enabled' \in BOOLEAN
    BY <1>4 DEF Disable, Enable, TypeInv, WorldInv
  <2>3. Nothing \in [Tasks -> [at : Moment, since : Nat] \cup {None}]
    BY DEF Nothing
  <2> QED
    BY <1>0, <2>1, <2>2, <2>3 DEF RecordsInv
<1>5. CASE Tick
  BY <1>0, <1>5 DEF Tick, RecordsInv, records
<1>6. CASE \/ Deliver \/ Refuse \/ OtherDevice \/ Disconnect \/ Connect \/ Resume \/ Revoke
           \/ Kill \/ PluginFails \/ UNCHANGED vars
  <2>1. UNCHANGED <<phone, records>>
    BY <1>6 DEF Deliver, Refuse, OtherDevice, Disconnect, Connect, Resume, Revoke, Kill,
                PluginFails, vars
  <2> QED
    BY <1>0, <2>1 DEF RecordsInv, records
<1> QED
  BY <1>1, <1>2, <1>3, <1>4, <1>5, <1>6 DEF Next

\* A sync that begins, or ends.
LEMMA FreshSyncType ==
    /\ FreshSync.pc = "permission" /\ IdleSync.pc = "idle"
    /\ {FreshSync, IdleSync}
         \subseteq [pc : {"idle", "permission", "fetch"} \cup Answered, answer : Answer \cup {None},
                    entry : Entry \cup {None}, pending : SUBSET Ids, alone : BOOLEAN]
BY DEF FreshSync, IdleSync, SyncAt

\* The sync after a step that only marks it overlapped.
LEMMA OverlappedType ==
    ASSUME SyncInv, sync' \in {sync, Overlapped, IdleSync}, again' \in BOOLEAN, timer' \in BOOLEAN
    PROVE  SyncInv'
<1>1. CASE sync' = sync
  BY <1>1 DEF SyncInv
<1>2. CASE sync' = Overlapped
  BY <1>2 DEF SyncInv, Overlapped, Answered
<1>3. CASE sync' = IdleSync
  BY <1>3, FreshSyncType DEF SyncInv, Answered
<1> QED
  BY <1>1, <1>2, <1>3

\* Every step keeps what the sync holds.
LEMMA SyncStep ==
    ASSUME TypeInv, [Next]_vars
    PROVE  SyncInv'
<1>0. SyncInv /\ RecordsInv /\ WorldInv
  BY DEF TypeInv
<1>1. CASE SyncStart
  <2>1. again' \in BOOLEAN /\ timer' \in BOOLEAN
    BY <1>0, <1>1 DEF SyncStart, SyncInv
  <2>2. sync' = sync \/ sync' = FreshSync
    BY <1>1 DEF SyncStart
  <2> QED
    BY <1>0, <2>1, <2>2, FreshSyncType DEF SyncInv, Answered
<1>2. CASE SyncPermission
  <2>1. UNCHANGED <<again, timer>>
    BY <1>2 DEF SyncPermission
  <2>2. sync' = [sync EXCEPT !.pc = "fetch"] \/ sync' = IdleSync
    BY <1>2 DEF SyncPermission, SyncStops
  <2> QED
    BY <1>0, <2>1, <2>2, FreshSyncType DEF SyncInv, Answered
<1>3. CASE SyncFetch
  <2>1. UNCHANGED <<again, timer>>
    BY <1>3 DEF SyncFetch
  <2>2. sync' = [sync EXCEPT !.pc = "answer", !.answer = Upcoming] \/ sync' = IdleSync
    BY <1>3 DEF SyncFetch, SyncStops
  <2>3. Upcoming \in Answer
    BY <1>0, UpcomingType
  <2> QED
    BY <1>0, <2>1, <2>2, <2>3, FreshSyncType DEF SyncInv, Answered
<1>4. CASE SyncCompute
  <2> DEFINE kept == PrunedSuppressions(sync.answer)
             reminders == Wanted(sync.answer, kept)
             entry == SummaryEntry(sync.answer.summary)
             pending == {n.id : n \in phone}
  <2>1. /\ UNCHANGED <<again, timer>> /\ sync.pc = "answer"
        /\ sync' = [sync EXCEPT !.pc = "pending", !.answer.reminders = reminders,
                                !.entry = entry, !.pending = pending]
    BY <1>4 DEF SyncCompute
  <2>2. sync.answer \in Answer
    BY <1>0, <2>1 DEF SyncInv, Answered
  <2>3. reminders \in SUBSET [id : Tasks, at : Moment]
    BY <2>2 DEF Wanted, Answer
  <2>4. entry \in Entry \cup {None}
    BY <1>0, <2>2, SummaryEntryType DEF Answer
  <2>5. pending \in SUBSET Ids
    BY <1>0 DEF RecordsInv, Notification, Ids
  <2> HIDE DEF reminders, entry, pending
  <2>6. [sync.answer EXCEPT !.reminders = reminders] \in Answer
    BY <2>2, <2>3 DEF Answer
  <2> QED
    BY <1>0, <2>1, <2>2, <2>4, <2>5, <2>6 DEF SyncInv, Answered
<1>5. CASE SyncCancel \/ SyncSchedule
  <2>1. /\ UNCHANGED <<again, timer>> /\ sync.pc \in Answered
        /\ \/ sync' = [sync EXCEPT !.pc = "cancelled"]
           \/ sync' = [sync EXCEPT !.pc = "scheduled"]
    BY <1>5 DEF SyncCancel, SyncSchedule, Answered
  <2> QED
    BY <1>0, <2>1 DEF SyncInv, Answered
<1>6. CASE SyncRecord
  <2>1. again' = FALSE /\ timer' = timer
    BY <1>6 DEF SyncRecord
  <2>2. sync' = FreshSync \/ sync' = IdleSync
    BY <1>6 DEF SyncRecord, SyncNext
  <2> QED
    BY <1>0, <2>1, <2>2, FreshSyncType DEF SyncInv, Answered
<1>7. ASSUME NEW h \in Handlers, Write(h) \/ Handle(h) \/ Disable(h) \/ Enable(h)
      PROVE  SyncInv'
  <2>1. sync' = Overlapped /\ again' = again
    BY <1>7 DEF Write, Request, Handle, Disable, Enable, Suppress, Suppressed, Restore, Restored,
                PreferenceOff, PreferenceRecorded, Other, DisableCancel, DisableRecorded
  <2>2. timer' \in BOOLEAN
    <3>1. timer' = timer \/ timer' = (timer \/ enabled) \/ timer' = (timer \/ granted')
      BY <1>7 DEF Write, Request, Handle, Disable, Enable, Suppress, Suppressed, Restore,
                  Restored, PreferenceOff, PreferenceRecorded, Other, DisableCancel,
                  DisableRecorded, MarkSummary, ScheduleSync
    <3>2. timer \in BOOLEAN /\ enabled \in BOOLEAN
      BY <1>0 DEF SyncInv, RecordsInv
    <3> QED
      BY <3>1, <3>2
  <2> QED
    BY <1>0, <2>1, <2>2, OverlappedType DEF SyncInv
<1>8. CASE Kill \/ PluginFails
  <2>1. sync' \in {sync, IdleSync} /\ again' \in {again, FALSE}
    BY <1>8 DEF Kill, PluginFails, SyncStops
  <2>2. timer' = timer \/ timer' = enabled
        \/ \E h \in Handlers : timer' = (timer \/ (enabled /\ handler[h].pc = "note"))
    BY <1>8 DEF Kill, PluginFails
  <2>3. timer' \in BOOLEAN
    BY <1>0, <2>2 DEF SyncInv, RecordsInv
  <2> QED
    BY <1>0, <2>1, <2>3, OverlappedType DEF SyncInv
<1>9. CASE \/ Deliver \/ Refuse \/ OtherDevice \/ Disconnect \/ Connect \/ Resume \/ Revoke
           \/ Tick \/ UNCHANGED vars
  <2>1. sync' = sync /\ again' = again
    BY <1>9 DEF Deliver, Refuse, OtherDevice, Disconnect, Connect, Resume, Revoke, Tick, vars
  <2>2. timer' \in BOOLEAN
    <3>1. \/ timer' = timer \/ timer' = TRUE \/ timer' = (timer \/ enabled)
          \/ timer' = (timer \/ (enabled /\ Tail(outgoing) = <<>>))
      BY <1>9 DEF Deliver, Refuse, OtherDevice, Disconnect, Connect, Resume, Revoke, Tick, vars,
                  ScheduleSync
    <3> QED
      BY <1>0, <3>1 DEF SyncInv, RecordsInv
  <2> QED
    BY <1>0, <2>1, <2>2, OverlappedType DEF SyncInv
<1> QED
  BY <1>1, <1>2, <1>3, <1>4, <1>5, <1>6, <1>7, <1>8, <1>9 DEF Next, Sync

\* One handler moves, to a state it may be in.
LEMMA HandlerMoves ==
    ASSUME HandlersInv, NEW h \in Handlers, NEW to, HandlerShape(to),
           handler' = [handler EXCEPT ![h] = to]
    PROVE  HandlersInv'
<1>1. DOMAIN handler' = Handlers /\ \A g \in Handlers : handler'[g] = to \/ handler'[g] = handler[g]
  BY DEF HandlersInv
<1>2. \A g \in Handlers : HandlerShape(handler'[g])
  <2> TAKE g \in Handlers
  <2>1. CASE handler'[g] = to
    BY <2>1
  <2>2. CASE handler'[g] = handler[g]
    BY <2>2 DEF HandlersInv
  <2> QED
    BY <1>1, <2>1, <2>2
<1>3. HandlersInv' <=> (DOMAIN handler' = Handlers /\ \A g \in Handlers : HandlerShape(handler'[g]))
  BY DEF HandlersInv, HandlerShape
<1> QED
  BY <1>1, <1>2, <1>3

\* A handler that waits holds nothing.
LEMMA IdleShape == HandlerShape(IdleHandler)
BY DEF HandlerShape, IdleHandler

\* A handler goes from one await to the next with what it needs there.
LEMMA HandlersOfHandler ==
    ASSUME TypeInv, NEW h \in Handlers, Handle(h)
    PROVE  HandlersInv'
<1>0. HandlersInv /\ RecordsInv /\ HandlerShape(handler[h]) /\ DOMAIN handler = Handlers
  BY DEF TypeInv, HandlersInv
<1> DEFINE r == handler[h]
<1>1. CASE handler' = [handler EXCEPT ![h] = IdleHandler]
  BY <1>0, <1>1, IdleShape, HandlerMoves
<1>2. CASE Suppress(h) /\ handler' = [handler EXCEPT ![h].pc = "cancelled", ![h].snap = scheduled]
  <2> DEFINE to == [r EXCEPT !.pc = "cancelled", !.snap = scheduled]
  <2>1. HandlerShape(to)
    BY <1>0, <1>2 DEF HandlerShape, Suppress, RecordsInv
  <2>2. handler' = [handler EXCEPT ![h] = to]
    BY <1>0, <1>2
  <2> QED
    BY <1>0, <2>1, <2>2, HandlerMoves
<1>3. CASE Restore(h) /\ ~MarkSummary(h, FALSE)
  <2> DEFINE t == CHOOSE u \in Tasks : handler[h].ids = {u}
  <2>1. /\ handler' = [handler EXCEPT ![h].pc = "restored", ![h].snap = suppressed[t].at]
        /\ suppressed[t] # None /\ r.pc = "note" /\ r.kind = "uncheck"
    BY <1>3 DEF Restore
  <2>2. t \in Tasks
    BY <1>0, <2>1 DEF HandlerShape
  <2> HIDE DEF t
  <2>3. suppressed[t].at \in Moment
    BY <1>0, <2>1, <2>2 DEF RecordsInv
  <2> DEFINE to == [r EXCEPT !.pc = "restored", !.snap = suppressed[t].at]
  <2>4. HandlerShape(to)
    BY <1>0, <2>1, <2>3 DEF HandlerShape
  <2>5. handler' = [handler EXCEPT ![h] = to]
    BY <1>0, <2>1
  <2> QED
    BY <1>0, <2>4, <2>5, HandlerMoves
<1>4. CASE PreferenceOff(h) \/ DisableCancel(h)
  <2>1. PICK pc \in {"off", "disabled"} :
          /\ handler' = [handler EXCEPT ![h].pc = pc]
          /\ pc = "off" => r.kind \in {"remindersOff", "summaryOff"}
    BY <1>4 DEF PreferenceOff, DisableCancel
  <2> DEFINE to == [r EXCEPT !.pc = pc]
  <2>2. HandlerShape(to)
    BY <1>0, <2>1 DEF HandlerShape
  <2>3. handler' = [handler EXCEPT ![h] = to]
    BY <1>0, <2>1
  <2> QED
    BY <1>0, <2>2, <2>3, HandlerMoves
<1>5. CASE Suppress(h) \/ Suppressed(h) \/ Restored(h) \/ PreferenceRecorded(h) \/ Other(h)
           \/ DisableRecorded(h)
  <2>1. \/ handler' = [handler EXCEPT ![h] = IdleHandler]
        \/ Suppress(h) /\ handler' = [handler EXCEPT ![h].pc = "cancelled", ![h].snap = scheduled]
    BY <1>5 DEF Suppress, Suppressed, Restored, PreferenceRecorded, Other, DisableRecorded,
                MarkSummary, HandlerEnds
  <2> QED
    BY <1>1, <1>2, <2>1
<1>6. CASE Restore(h) /\ MarkSummary(h, FALSE)
  BY <1>1, <1>6 DEF MarkSummary, HandlerEnds
<1> QED
  BY <1>3, <1>4, <1>5, <1>6 DEF Handle

\* Every step keeps what the handlers hold.
LEMMA HandlersStep ==
    ASSUME TypeInv, [Next]_vars
    PROVE  HandlersInv'
<1>0. HandlersInv /\ RecordsInv
  BY DEF TypeInv
<1>1. CASE UNCHANGED handler
  BY <1>0, <1>1 DEF HandlersInv, HandlerShape
<1>2. ASSUME NEW h \in Handlers, Handle(h) PROVE HandlersInv'
  BY <1>2, HandlersOfHandler
<1>3. ASSUME NEW h \in Handlers, Write(h) PROVE HandlersInv'
  <2>1. PICK w \in Requests : Request(h, w)
    BY <1>3 DEF Write
  <2> DEFINE to == [pc |-> "note", kind |-> w.kind, ids |-> w.ids, snap |-> None]
  <2>2. handler' = [handler EXCEPT ![h] = to] \/ handler' = handler
    BY <2>1 DEF Request
  <2>3. HandlerShape(to)
    BY RequestType DEF HandlerShape, Ids
  <2> QED
    BY <1>0, <1>1, <2>2, <2>3, HandlerMoves
<1>4. ASSUME NEW h \in Handlers, Disable(h) PROVE HandlersInv'
  <2> DEFINE ids == {n.id : n \in phone}
             to == [pc |-> "disable", kind |-> None, ids |-> ids, snap |-> None]
  <2>1. handler' = [handler EXCEPT ![h] = to]
    BY <1>4 DEF Disable
  <2>2. ids \subseteq Ids
    BY <1>0 DEF RecordsInv, Notification, Ids
  <2> HIDE DEF ids
  <2>3. HandlerShape(to)
    BY <2>2 DEF HandlerShape
  <2> QED
    BY <1>0, <2>1, <2>3, HandlerMoves
<1>5. CASE Kill
  <2>1. handler' = [h \in Handlers |-> IdleHandler]
    BY <1>5 DEF Kill
  <2>2. \A h \in Handlers : HandlerShape(handler'[h])
    BY <2>1, IdleShape
  <2>3. HandlersInv' <=> (DOMAIN handler' = Handlers
                            /\ \A h \in Handlers : HandlerShape(handler'[h]))
    BY DEF HandlersInv, HandlerShape
  <2> QED
    BY <2>1, <2>2, <2>3
<1>6. CASE PluginFails
  <2>1. handler' = handler \/ \E h \in Handlers : handler' = [handler EXCEPT ![h] = IdleHandler]
    BY <1>6 DEF PluginFails, HandlerEnds
  <2> QED
    BY <1>0, <1>1, <2>1, IdleShape, HandlerMoves
<1>7. CASE \/ SyncStart \/ Sync \/ Deliver \/ Refuse \/ OtherDevice \/ Disconnect \/ Connect
           \/ Resume \/ Revoke \/ Tick \/ UNCHANGED vars
  <2>1. UNCHANGED handler
    BY <1>7 DEF SyncStart, Sync, SyncPermission, SyncFetch, SyncCompute, SyncCancel,
                SyncSchedule, SyncRecord, Deliver, Refuse, OtherDevice, Disconnect, Connect,
                Resume, Revoke, Tick, vars
  <2> QED
    BY <1>1, <2>1
<1>8. ASSUME NEW h \in Handlers, Enable(h) PROVE HandlersInv'
  BY <1>1, <1>8 DEF Enable
<1> QED
  BY <1>2, <1>3, <1>4, <1>5, <1>6, <1>7, <1>8 DEF Next

\* Every step keeps the types of what happened.
LEMMA GhostsStep ==
    ASSUME TypeInv, [Next]_vars
    PROVE  GhostsInv'
<1>0. GhostsInv /\ RecordsInv /\ WorldInv /\ now \in Nat
  BY LocalRemindersAssumption DEF TypeInv, WorldInv
<1>1. raced' \in BOOLEAN
  <2> DEFINE Racing == \/ raced' = raced \/ raced' = TRUE \/ raced' = (raced \/ Busy)
                      \/ raced' = (~sync.alone \/ ~enabled)
                      \/ \E h \in Handlers : raced' = (raced \/ Shared(h))
  <2>1. Racing
    <3>1. ASSUME SyncStart \/ Sync
          PROVE  Racing
      BY <3>1 DEF SyncStart, Sync, SyncPermission, SyncFetch, SyncCompute, SyncCancel,
                SyncSchedule, SyncRecord, ghosts
    <3>2. ASSUME NEW h \in Handlers, Write(h) \/ Handle(h) \/ Disable(h) \/ Enable(h)
          PROVE  Racing
      BY <3>2 DEF Write, Request, Handle, Disable, Enable, Suppress, Suppressed, Restore,
                Restored, PreferenceOff, PreferenceRecorded, Other, DisableCancel, DisableRecorded,
                Disturb, ghosts
    <3>3. ASSUME \/ Deliver \/ Refuse \/ OtherDevice \/ Disconnect \/ Connect \/ Resume
                 \/ Revoke \/ Kill \/ PluginFails \/ Tick \/ UNCHANGED vars
          PROVE  Racing
      BY <3>3 DEF Deliver, Refuse, OtherDevice, Disconnect, Connect, Resume, Revoke, Kill,
                PluginFails, CutShort, Tick, vars, ghosts
    <3> QED
      BY <3>1, <3>2, <3>3 DEF Next
  <2> QED
    BY <1>0, <2>1 DEF GhostsInv
<1>2. unheard' \subseteq Tasks
  <2> DEFINE Heard == \/ unheard' = unheard \/ unheard' = {} \/ unheard' = Tasks
                     \/ \E t \in Tasks : unheard' = unheard \cup {t}
  <2>1. Heard
    <3>1. ASSUME SyncStart \/ Sync
          PROVE  Heard
      BY <3>1 DEF SyncStart, Sync, SyncPermission, SyncFetch, SyncCompute, SyncCancel,
                SyncSchedule, SyncRecord, ghosts
    <3>2. ASSUME NEW h \in Handlers, Write(h) \/ Handle(h) \/ Disable(h) \/ Enable(h)
          PROVE  Heard
      BY <3>2 DEF Write, Request, Handle, Disable, Enable, Suppress, Suppressed, Restore,
                Restored, PreferenceOff, PreferenceRecorded, Other, DisableCancel, DisableRecorded,
                Disturb, ghosts
    <3>3. ASSUME \/ Deliver \/ Refuse \/ OtherDevice \/ Disconnect \/ Connect \/ Resume
                 \/ Revoke \/ Kill \/ PluginFails \/ Tick \/ UNCHANGED vars
          PROVE  Heard
      BY <3>3 DEF Deliver, Refuse, OtherDevice, Disconnect, Connect, Resume, Revoke, Kill,
                PluginFails, CutShort, Tick, vars, ghosts
    <3> QED
      BY <3>1, <3>2, <3>3 DEF Next
  <2> QED
    BY <1>0, <2>1 DEF GhostsInv
<1>3. checked' \subseteq [id : Tasks, at : Moment, since : Nat]
  <2> DEFINE Marked == \/ checked' \subseteq checked
                      \/ \E w \in Requests : checked' = checked \cup CheckedOff(w.ids)
  <2>1. Marked
    <3>1. ASSUME SyncStart \/ Sync
          PROVE  Marked
      BY <3>1 DEF SyncStart, Sync, SyncPermission, SyncFetch, SyncCompute, SyncCancel,
                SyncSchedule, SyncRecord, ghosts
    <3>2. ASSUME NEW h \in Handlers, Write(h) \/ Handle(h) \/ Disable(h) \/ Enable(h)
          PROVE  Marked
      BY <3>2 DEF Write, Request, Handle, Disable, Enable, Suppress, Suppressed, Restore,
                Restored, PreferenceOff, PreferenceRecorded, Other, DisableCancel, DisableRecorded,
                Disturb, ghosts
    <3>3. ASSUME \/ Deliver \/ Refuse \/ OtherDevice \/ Disconnect \/ Connect \/ Resume
                 \/ Revoke \/ Kill \/ PluginFails \/ Tick \/ UNCHANGED vars
          PROVE  Marked
      BY <3>3 DEF Deliver, Refuse, OtherDevice, Disconnect, Connect, Resume, Revoke, Kill,
                PluginFails, CutShort, Tick, vars, ghosts
    <3> QED
      BY <3>1, <3>2, <3>3 DEF Next
  <2>2. ASSUME NEW w \in Requests
        PROVE  CheckedOff(w.ids) \subseteq [id : Tasks, at : Moment, since : Nat]
    <3>1. w.ids \subseteq Tasks
      BY RequestType
    <3> QED
      BY <1>0, <3>1 DEF CheckedOff, RecordsInv, Notification
  <2> QED
    BY <1>0, <2>1, <2>2 DEF GhostsInv
<1> QED
  BY <1>1, <1>2, <1>3 DEF GhostsInv

\* At first nothing is pending, scheduled or suppressed.
LEMMA TypeInit == Init => TypeInv
<1> SUFFICES ASSUME Init PROVE TypeInv
  OBVIOUS
<1>1. WorldInv
  <2>1. outgoing \in Seq([kind : Kinds, ids : SUBSET Tasks])
    BY EmptySeq DEF Init
  <2> QED
    BY <2>1, LocalRemindersAssumption DEF Init, WorldInv
<1>2. RecordsInv
  BY DEF Init, RecordsInv, Nothing, Schedules
<1>3. SyncInv
  BY FreshSyncType DEF Init, SyncInv, Answered
<1>4. HandlersInv
  BY IdleShape DEF Init, HandlersInv
<1>5. GhostsInv
  BY DEF Init, GhostsInv
<1> QED
  BY <1>1, <1>2, <1>3, <1>4, <1>5 DEF TypeInv

\* The types, with what the sync and the handlers hold where they await.
LEMMA TypeIsInvariant == Spec => []TypeInv
<1>1. TypeInv /\ [Next]_vars => TypeInv'
  BY WorldStep, RecordsStep, SyncStep, HandlersStep, GhostsStep DEF TypeInv
<1> QED
  BY TypeInit, <1>1, PTL DEF Spec

\* For any tasks, moments and handlers: what the page, the phone and the server hold
\* keeps its type.
THEOREM TypeCorrect == Spec => []TypeOK
<1>1. TypeInv => TypeOK
  <2> SUFFICES ASSUME TypeInv PROVE TypeOK
    OBVIOUS
  <2>1. \A i \in DOMAIN outgoing : outgoing[i] \in [kind : Kinds, ids : SUBSET Tasks]
    <3> DEFINE S == [kind : Kinds, ids : SUBSET Tasks]
    <3>1. outgoing \in Seq(S)
      BY DEF TypeInv, WorldInv
    <3> HIDE DEF S
    <3>2. \A i \in 1 .. Len(outgoing) : outgoing[i] \in S
      BY <3>1, ElementOfSeq
    <3> QED
      BY <3>1, <3>2, LenProperties DEF S
  <2>2. sync.pc \in {"idle", "permission", "fetch", "answer", "pending", "cancelled", "scheduled"}
    BY DEF TypeInv, SyncInv, Answered
  <2>3. sync.answer \in Answer \cup {None} /\ sync.alone \in BOOLEAN
        /\ again \in BOOLEAN /\ timer \in BOOLEAN
    BY DEF TypeInv, SyncInv
  <2>4. \A h \in Handlers : handler[h].pc \in
            {"idle", "note", "cancelled", "restored", "off", "disable", "disabled"}
    BY DEF TypeInv, HandlersInv, HandlerShape
  <2>5. \A c \in checked : c.id \in Tasks /\ c.at \in Moment
    BY DEF TypeInv, GhostsInv
  <2>6. /\ scheduled \in [Tasks -> Moment \cup {None}]
        /\ suppressed \in [Tasks -> [at : Moment, since : Nat] \cup {None}]
        /\ summary \in Entry \cup {None}
        /\ phone \subseteq Notification /\ enabled \in BOOLEAN
    BY DEF TypeInv, RecordsInv, Schedules
  <2>7. unheard \subseteq Tasks /\ raced \in BOOLEAN
    BY DEF TypeInv, GhostsInv
  <2> QED
    BY <2>1, <2>2, <2>3, <2>4, <2>5, <2>6, <2>7 DEF TypeInv, WorldInv, TypeOK
<1> QED
  BY <1>1, TypeIsInvariant, PTL

-----------------------------------------------------------------------------
(* The phone and the records *)

\* The phone holds a task's reminder as it was written down, until it is due.
TaskMatches(t) ==
    /\ \A n \in phone : n.id = t => n.at = scheduled[t]
    /\ scheduled[t] # None /\ scheduled[t] > now => \E n \in phone : n.id = t

\* ... and the summary, while it has a task left.
Rings(entry) == entry # None /\ HasOpenTasks(entry)
HoldsSummary(entry) ==
    /\ \A n \in phone : n.id = "summary" => Rings(entry) /\ n.at = entry.summary.at
    /\ Rings(entry) /\ entry.summary.at > now => \E n \in phone : n.id = "summary"
SummaryMatches == HoldsSummary(summary)

Matches == SummaryMatches /\ \A t \in Tasks : TaskMatches(t)

\* Between two awaits of a handler that nothing overlaps, the phone is ahead of the
\* records, by what the handler holds.
CancelledPhase(r) ==
    /\ r.snap = scheduled /\ SummaryMatches
    /\ \A t \in Tasks : IF t \in r.ids /\ r.snap[t] # None THEN \A n \in phone : n.id # t
                        ELSE TaskMatches(t)
RestoredPhase(r) ==
    /\ SummaryMatches
    /\ \A t \in Tasks \ r.ids : TaskMatches(t)
    /\ \A t \in r.ids : /\ \A n \in phone : n.id = t => n.at = r.snap
                        /\ r.snap > now => \E n \in phone : n.id = t
OffPhase(r) ==
    IF r.kind = "remindersOff" THEN SummaryMatches /\ \A n \in phone : n.id = "summary"
    ELSE (\A t \in Tasks : TaskMatches(t)) /\ \A n \in phone : n.id # "summary"

HandlerPhase(r) ==
    /\ r.pc = "note" => Matches
    /\ r.pc = "cancelled" => CancelledPhase(r)
    /\ r.pc = "restored" => RestoredPhase(r)
    /\ r.pc = "off" => OffPhase(r)
    /\ r.pc = "disable" => \A n \in phone : n.id \in r.ids
    /\ r.pc = "disabled" => phone = {}

AllIdle == \A h \in Handlers : handler[h].pc = "idle"

\* Until the sync cancels what is pending, the phone is the handlers'.
Early == sync.pc \in {"idle", "permission", "fetch", "answer"}
HandlersPart ==
    ~raced =>
        /\ \A g, h \in Handlers : handler[g].pc # "idle" /\ handler[h].pc # "idle" => g = h
        /\ Early /\ AllIdle => Matches
        /\ Early => \A h \in Handlers : HandlerPhase(handler[h])

\* From there on a sync that nothing overlaps empties it, and fills it.
RoundPhase ==
    /\ AllIdle
    /\ sync.pc = "pending" => \A n \in phone : n.id \in sync.pending
    /\ sync.pc = "cancelled" => phone = {}
    /\ sync.pc = "scheduled" =>
         /\ \A n \in phone : n.id # "summary" => n \in sync.answer.reminders
         /\ \A r \in sync.answer.reminders : r.at > now => \E n \in phone : n.id = r.id
         /\ HoldsSummary(sync.entry)
RoundPart ==
    /\ sync.pc \in Answered =>
         \A r, s \in sync.answer.reminders : r.id = s.id => r = s
    /\ sync.alone /\ sync.pc # "idle" => RoundPhase

\* Turned off, what is pending waits for the handler that cancels it.
OffPart ==
    ~raced /\ ~enabled =>
        /\ sync.pc = "idle"
        /\ \A h \in Handlers : handler[h].pc \in {"idle", "disable", "disabled"}
        /\ AllIdle => phone = {}

\* Nothing pending is due.
AheadPart == \A n \in phone : n.at > now

PhoneInv == AheadPart /\ HandlersPart /\ RoundPart /\ OffPart

\* A task's reminder stays as it is when only the summary's notification changes.
LEMMA TaskKept ==
    ASSUME NEW t \in Tasks, now' = now, scheduled'[t] = scheduled[t], TaskMatches(t),
           \A n \in phone \cup phone' : n.id = t => (n \in phone <=> n \in phone')
    PROVE  TaskMatches(t)'
BY DEF TaskMatches

\* The summary's notification stays as it is when only the tasks' change.
LEMMA SummaryKept ==
    ASSUME now' = now, summary' = summary, SummaryMatches,
           \A n \in phone \cup phone' : n.id = "summary" => (n \in phone <=> n \in phone')
    PROVE  SummaryMatches'
BY DEF SummaryMatches, HoldsSummary, Rings, HasOpenTasks

\* None is no moment, and nothing written down of a summary.
LEMMA NoneIsNone == None \notin Entry /\ None \notin Moment
BY LocalRemindersAssumption

\* The summary's notification is no task's.
LEMMA NotATask == \A t \in Tasks : t # "summary"
BY LocalRemindersAssumption

\* Marking tasks keeps the summary's notification in step, and the other ones.
LEMMA MarkKeeps ==
    ASSUME TypeInv, NEW h \in Handlers, NEW done \in BOOLEAN, MarkSummary(h, done),
           handler[h].pc \in {"note", "cancelled", "restored"}, now' = now, AheadPart
    PROVE  /\ SummaryMatches => SummaryMatches'
           /\ \A n \in phone \cup phone' : n.id # "summary" => (n \in phone <=> n \in phone')
           /\ AheadPart'
<1>0. RecordsInv /\ HandlersInv
  BY DEF TypeInv
<1> DEFINE ids == IF handler[h].kind = "deleteList" THEN {} ELSE handler[h].ids
           marked == IF summary = None THEN {} ELSE ids \cap summary.summary.ids
           entry == [summary EXCEPT !.done = IF done THEN @ \cup marked ELSE @ \ marked]
<1>2. CASE marked = {}
  <2>1. summary' = summary /\ phone' = phone
    BY <1>2 DEF MarkSummary
  <2> QED
    BY <2>1, SummaryKept DEF AheadPart
<1>3. CASE marked # {}
  <2>1. /\ summary' = entry
        /\ phone' = IF HasOpenTasks(summary) /\ ~HasOpenTasks(entry)
                    THEN Cancel({"summary"})
                    ELSE IF ~HasOpenTasks(summary) /\ HasOpenTasks(entry)
                            /\ entry.summary.at > now
                    THEN Schedule({[id |-> "summary", at |-> entry.summary.at]})
                    ELSE phone
    BY <1>3 DEF MarkSummary
  <2>2. summary \in Entry /\ marked \subseteq Tasks /\ summary # None
    <3>1. summary # None
      BY <1>3
    <3>2. summary \in Entry
      BY <1>0, <3>1 DEF RecordsInv
    <3> QED
      BY <3>1, <3>2 DEF Entry, Summary
  <2> HIDE DEF marked
  <2>3. entry \in Entry /\ entry.summary = summary.summary
    BY <2>2 DEF Entry
  <2>4. SummaryMatches => HoldsSummary(summary)
    BY DEF SummaryMatches
  <2>5. SummaryMatches' <=>
          /\ \A n \in phone' : n.id = "summary" => Rings(summary') /\ n.at = summary'.summary.at
          /\ Rings(summary') /\ summary'.summary.at > now => \E n \in phone' : n.id = "summary"
    BY DEF SummaryMatches, HoldsSummary, Rings, HasOpenTasks
  <2>6. Rings(summary') => HasOpenTasks(entry)
    BY <2>1 DEF Rings
  <2>7. HasOpenTasks(summary) => Rings(summary)
    BY <2>2 DEF Rings
  <2> HIDE DEF entry
  <2>8. CASE HasOpenTasks(summary) /\ ~HasOpenTasks(entry)
    <3>1. phone' = {n \in phone : n.id # "summary"}
      BY <2>1, <2>8 DEF Cancel
    <3> QED
      BY <2>5, <2>6, <2>8, <3>1 DEF AheadPart
  <2>9. CASE ~HasOpenTasks(summary) /\ HasOpenTasks(entry) /\ entry.summary.at > now
    <3> DEFINE m == [id |-> "summary", at |-> entry.summary.at]
    <3>1. phone' = Schedule({m})
      BY <2>1, <2>9
    <3>2. phone' = {n \in phone : n.id # "summary"} \cup {m}
      BY <2>9, <3>1 DEF Schedule
    <3>3. m.id = "summary" /\ m.at = entry.summary.at
      OBVIOUS
    <3> HIDE DEF m
    <3>4. AheadPart'
      BY <2>9, <3>2, <3>3 DEF AheadPart
    <3>5. Rings(summary') \/ summary' = None
      BY <2>1, <2>9 DEF Rings
    <3>6. summary' # None
      BY <2>1, <2>3, NoneIsNone
    <3> QED
      BY <2>1, <2>5, <3>2, <3>3, <3>4, <3>5, <3>6
  <2>10. CASE /\ ~(HasOpenTasks(summary) /\ ~HasOpenTasks(entry))
              /\ ~(~HasOpenTasks(summary) /\ HasOpenTasks(entry) /\ entry.summary.at > now)
    <3>1. phone' = phone
      BY <2>1, <2>10
    <3>2. AheadPart'
      BY <3>1 DEF AheadPart
    <3>3. ASSUME SummaryMatches PROVE SummaryMatches'
      <4>1. ASSUME NEW n \in phone, n.id = "summary"
            PROVE  Rings(summary') /\ n.at = summary'.summary.at
        <5>1. Rings(summary) /\ n.at = summary.summary.at
          BY <2>4, <3>3, <4>1 DEF HoldsSummary
        <5> QED
          BY <2>1, <2>3, <2>10, <5>1, NoneIsNone DEF Rings
      <4>2. ASSUME Rings(summary'), summary'.summary.at > now
            PROVE  \E n \in phone : n.id = "summary"
        <5>1. HasOpenTasks(summary)
          BY <2>1, <2>6, <2>10, <4>2
        <5> QED
          BY <2>1, <2>3, <2>4, <2>7, <3>3, <4>2, <5>1 DEF HoldsSummary
      <4> QED
        BY <2>5, <3>1, <4>1, <4>2
    <3> QED
      BY <3>1, <3>2, <3>3
  <2> QED
    BY <2>8, <2>9, <2>10
<1> QED
  BY <1>2, <1>3

\* A step of a handler: while nothing overlaps it, the others are idle, and so is the sync.
LEMMA HandlerSteps ==
    ASSUME TypeInv, PhoneInv, NEW h \in Handlers,
           raced' = (raced \/ Shared(h)), sync' = Overlapped,
           \A g \in Handlers \ {h} : handler'[g] = handler[g],
           AheadPart',
           ~raced /\ ~Shared(h) => /\ handler'[h].pc = "idle" => Matches'
                                   /\ HandlerPhase(handler[h])',
           ~raced /\ ~Shared(h) /\ ~enabled' =>
                /\ handler'[h].pc \in {"idle", "disable", "disabled"}
                /\ handler'[h].pc = "idle" => phone' = {}
    PROVE  PhoneInv'
<1>1. /\ sync'.pc = sync.pc /\ sync'.alone = FALSE /\ sync'.answer = sync.answer
      /\ raced \in BOOLEAN
  BY DEF TypeInv, SyncInv, GhostsInv, Overlapped
<1>2. RoundPart'
  <2>1. RoundPart' <=>
          /\ sync'.pc \in Answered =>
               \A r, s \in sync'.answer.reminders : r.id = s.id => r = s
          /\ sync'.alone /\ sync'.pc # "idle" => RoundPhase'
    BY DEF RoundPart, Answered
  <2> QED
    BY <1>1, <2>1 DEF PhoneInv, RoundPart
<1>3. ASSUME ~raced' PROVE ~raced /\ ~Shared(h) /\ sync.pc = "idle"
                           /\ \A g \in Handlers \ {h} : handler[g].pc = "idle"
  BY <1>3 DEF Shared
<1>4. HandlersPart'
  <2> SUFFICES ASSUME ~raced'
               PROVE  /\ \A g, k \in Handlers :
                            handler'[g].pc # "idle" /\ handler'[k].pc # "idle" => g = k
                      /\ AllIdle' => Matches'
                      /\ \A k \in Handlers : HandlerPhase(handler[k])'
    BY DEF HandlersPart, Early
  <2>1. \A g \in Handlers \ {h} : handler'[g].pc = "idle"
    BY <1>3
  <2>2. AllIdle' => Matches'
    BY <1>3 DEF AllIdle
  <2>3. ASSUME NEW k \in Handlers PROVE HandlerPhase(handler[k])'
    <3>1. CASE k = h
      BY <1>3, <3>1
    <3>2. CASE k # h
      BY <2>1, <3>2 DEF HandlerPhase
    <3> QED
      BY <3>1, <3>2
  <2> QED
    BY <2>1, <2>2, <2>3
<1>5. OffPart'
  <2> SUFFICES ASSUME ~raced', ~enabled'
               PROVE  /\ sync'.pc = "idle"
                      /\ \A g \in Handlers : handler'[g].pc \in {"idle", "disable", "disabled"}
                      /\ AllIdle' => phone' = {}
    BY DEF OffPart
  <2> QED
    BY <1>1, <1>3 DEF AllIdle
<1> QED
  BY <1>2, <1>4, <1>5 DEF PhoneInv

\* What holds of the handler that steps, while nothing overlaps it.
LEMMA HandlerBefore ==
    ASSUME TypeInv, PhoneInv, NEW h \in Handlers, ~raced, ~Shared(h)
    PROVE  /\ handler[h].pc = "idle" => Matches
           /\ HandlerPhase(handler[h])
           /\ ~enabled => /\ handler[h].pc \in {"idle", "disable", "disabled"}
                          /\ handler[h].pc = "idle" => phone = {}
<1>1. Early
  BY DEF Early, Shared
<1>2. handler[h].pc = "idle" => AllIdle
  BY DEF AllIdle, Shared
<1> QED
  BY <1>1, <1>2 DEF PhoneInv, HandlersPart, OffPart

\* A write begins a handler, and touches nothing.
LEMMA PhoneOfWrite ==
    ASSUME TypeInv, PhoneInv, NEW h \in Handlers, Write(h)
    PROVE  PhoneInv'
<1>1. PICK w \in Requests : Request(h, w)
  BY DEF Write
<1>2. /\ handler[h].pc = "idle" /\ raced' = (raced \/ Shared(h)) /\ sync' = Overlapped
      /\ UNCHANGED <<now, phone, enabled, scheduled, summary>>
  BY <1>1 DEF Request, Open, records
<1>3. IF enabled
      THEN handler' = [handler EXCEPT ![h] =
                           [pc |-> "note", kind |-> w.kind, ids |-> w.ids, snap |-> None]]
      ELSE handler' = handler
  BY <1>1 DEF Request
<1>4. DOMAIN handler = Handlers
  BY DEF TypeInv, HandlersInv
<1>5. \A g \in Handlers \ {h} : handler'[g] = handler[g]
  BY <1>3, <1>4
<1>6. IF enabled THEN handler'[h].pc = "note" ELSE handler'[h] = handler[h]
  BY <1>3, <1>4
<1>7. AheadPart'
  BY <1>2 DEF PhoneInv, AheadPart
<1>8. Matches => Matches'
  BY <1>2 DEF Matches, SummaryMatches, HoldsSummary, Rings, HasOpenTasks, TaskMatches
<1>9. ASSUME ~raced, ~Shared(h)
      PROVE  /\ handler'[h].pc = "idle" => Matches'
             /\ HandlerPhase(handler[h])'
             /\ ~enabled' => /\ handler'[h].pc \in {"idle", "disable", "disabled"}
                             /\ handler'[h].pc = "idle" => phone' = {}
  <2>1. Matches /\ (~enabled => phone = {})
    BY <1>2, <1>9, HandlerBefore
  <2>2. handler'[h].pc \in {"note", "idle"} /\ (~enabled => handler'[h].pc = "idle")
    BY <1>2, <1>6
  <2>3. HandlerPhase(handler[h])'
    BY <1>8, <2>1, <2>2 DEF HandlerPhase
  <2> QED
    BY <1>2, <1>8, <2>1, <2>2, <2>3
<1> QED
  BY <1>2, <1>5, <1>7, <1>9, HandlerSteps

\* The switch turned off leaves the phone to its handler; turned on, it is empty.
LEMMA PhoneOfSwitch ==
    ASSUME TypeInv, PhoneInv, NEW h \in Handlers, Disable(h) \/ Enable(h)
    PROVE  PhoneInv'
<1>1. /\ handler[h].pc = "idle" /\ raced' = (raced \/ Shared(h)) /\ sync' = Overlapped
      /\ UNCHANGED <<now, phone, scheduled, summary>>
  BY DEF Disable, Enable, Open, Disturb
<1>2. \A g \in Handlers \ {h} : handler'[g] = handler[g]
  BY DEF Disable, Enable, TypeInv, HandlersInv
<1>3. AheadPart'
  BY <1>1 DEF PhoneInv, AheadPart
<1>4. Matches => Matches'
  BY <1>1 DEF Matches, SummaryMatches, HoldsSummary, Rings, HasOpenTasks, TaskMatches
<1>5. CASE Disable(h)
  <2> DEFINE to == [pc |-> "disable", kind |-> None, ids |-> {n.id : n \in phone}, snap |-> None]
  <2>1. handler'[h] = to
    BY <1>5 DEF Disable, TypeInv, HandlersInv
  <2>2. handler'[h].pc = "disable" /\ \A n \in phone' : n.id \in handler'[h].ids
    BY <1>1, <2>1
  <2>3. HandlerPhase(handler[h])'
    BY <2>2 DEF HandlerPhase
  <2> QED
    BY <1>1, <1>2, <1>3, <2>2, <2>3, HandlerSteps
<1>6. CASE Enable(h)
  <2>1. handler'[h] = handler[h] /\ ~enabled
    BY <1>6 DEF Enable
  <2>2. HandlerPhase(handler[h])'
    BY <1>1, <2>1 DEF HandlerPhase
  <2>3. ~raced /\ ~Shared(h) => Matches' /\ phone' = {}
    BY <1>1, <1>4, <2>1, HandlerBefore
  <2> QED
    BY <1>1, <1>2, <1>3, <2>1, <2>2, <2>3, HandlerSteps
<1> QED
  BY <1>5, <1>6

\* A step of handler h in progress: the others stay, and it goes to one state.
LEMMA HandleIs ==
    ASSUME TypeInv, NEW h \in Handlers, Handle(h)
    PROVE  /\ raced' = (raced \/ Shared(h)) /\ sync' = Overlapped
           /\ UNCHANGED <<now, enabled>>
           /\ DOMAIN handler = Handlers /\ HandlerShape(handler[h])
           /\ \A g \in Handlers \ {h} : handler'[g] = handler[g]
<1>1. /\ raced' = (raced \/ Shared(h)) /\ sync' = Overlapped
      /\ UNCHANGED <<now, enabled>>
  BY DEF Handle, Suppress, Suppressed, Restore, Restored, PreferenceOff, PreferenceRecorded, Other,
         DisableCancel, DisableRecorded, Disturb, world, records
<1>2. DOMAIN handler = Handlers /\ HandlerShape(handler[h])
  BY DEF TypeInv, HandlersInv
<1>3. \E to : handler' = [handler EXCEPT ![h] = to]
  BY DEF Handle, Suppress, Suppressed, Restore, Restored, PreferenceOff, PreferenceRecorded, Other,
         DisableCancel, DisableRecorded, MarkSummary, HandlerEnds
<1> QED
  BY <1>1, <1>2, <1>3

\* The reminders to suppress are cancelled ahead of the records.
LEMMA PhoneOfSuppress ==
    ASSUME TypeInv, PhoneInv, NEW h \in Handlers, Suppress(h)
    PROVE  PhoneInv'
<1> DEFINE ids == {t \in handler[h].ids : scheduled[t] # None}
<1>1. /\ handler[h].pc = "note" /\ scheduled' = scheduled /\ Handle(h)
      /\ IF ids = {} THEN MarkSummary(h, TRUE)
         ELSE /\ phone' = Cancel(ids) /\ summary' = summary
              /\ handler' = [handler EXCEPT ![h].pc = "cancelled", ![h].snap = scheduled]
  BY DEF Suppress, Handle
<1>2. /\ raced' = (raced \/ Shared(h)) /\ sync' = Overlapped
      /\ UNCHANGED <<now, enabled>>
      /\ DOMAIN handler = Handlers /\ HandlerShape(handler[h])
      /\ \A g \in Handlers \ {h} : handler'[g] = handler[g]
  BY <1>1, HandleIs
<1>3. AheadPart
  BY DEF PhoneInv
<1>4. handler[h].ids \subseteq Tasks
  BY <1>1, <1>2 DEF HandlerShape
<1>5. ~raced /\ ~Shared(h) => Matches /\ enabled
  BY <1>1, HandlerBefore DEF HandlerPhase
<1>6. CASE ids = {}
  <2>1. handler'[h] = IdleHandler
    BY <1>1, <1>2, <1>6 DEF MarkSummary, HandlerEnds
  <2>2. handler'[h].pc = "idle"
    BY <2>1 DEF IdleHandler
  <2>3. /\ SummaryMatches => SummaryMatches'
        /\ \A n \in phone \cup phone' : n.id # "summary" => (n \in phone <=> n \in phone')
        /\ AheadPart'
    BY <1>1, <1>2, <1>3, <1>6, MarkKeeps
  <2>4. Matches => Matches'
    BY <1>1, <1>2, <2>3, NotATask, TaskKept DEF Matches
  <2>5. HandlerPhase(handler[h])'
    BY <2>2 DEF HandlerPhase
  <2> QED
    BY <1>2, <1>5, <2>2, <2>3, <2>4, <2>5, HandlerSteps
<1>7. CASE ids # {}
  <2>1. /\ handler'[h].pc = "cancelled" /\ handler'[h].snap = scheduled
        /\ handler'[h].ids = handler[h].ids
    <3> DEFINE r == handler[h]
               to == [r EXCEPT !.pc = "cancelled", !.snap = scheduled]
    <3>1. handler' = [handler EXCEPT ![h].pc = "cancelled", ![h].snap = scheduled]
      BY <1>1, <1>7
    <3>2. to.pc = "cancelled" /\ to.snap = scheduled /\ to.ids = r.ids
      BY <1>2 DEF HandlerShape
    <3>3. handler' = [handler EXCEPT ![h] = to]
      BY <1>2, <3>1
    <3> HIDE DEF to
    <3> QED
      BY <1>2, <3>2, <3>3
  <2>2. phone' = {n \in phone : n.id \notin ids} /\ summary' = summary
    BY <1>1, <1>7 DEF Cancel
  <2>3. AheadPart'
    BY <1>2, <1>3, <2>2 DEF AheadPart
  <2>4. ASSUME Matches PROVE CancelledPhase(handler[h])'
    <3>1. SummaryMatches'
      <4>1. \A n \in phone \cup phone' : n.id = "summary" => (n \in phone <=> n \in phone')
        BY <1>4, <2>2, NotATask
      <4> QED
        BY <1>2, <2>2, <2>4, <4>1, SummaryKept DEF Matches
    <3>2. ASSUME NEW t \in Tasks
          PROVE  IF t \in handler'[h].ids /\ handler'[h].snap[t] # None
                 THEN \A n \in phone' : n.id # t ELSE TaskMatches(t)'
      <4>1. CASE t \in ids
        BY <2>1, <2>2, <4>1
      <4>2. CASE t \notin ids
        <5>1. \A n \in phone \cup phone' : n.id = t => (n \in phone <=> n \in phone')
          BY <2>2, <4>2
        <5>2. TaskMatches(t)'
          BY <1>1, <1>2, <2>4, <5>1, TaskKept DEF Matches
        <5> QED
          BY <2>1, <4>2, <5>2
      <4> QED
        BY <4>1, <4>2
    <3> QED
      BY <1>1, <2>1, <3>1, <3>2 DEF CancelledPhase
  <2>5. Matches => HandlerPhase(handler[h])'
    BY <2>1, <2>4 DEF HandlerPhase
  <2> QED
    BY <1>2, <1>5, <2>1, <2>3, <2>5, HandlerSteps
<1> QED
  BY <1>6, <1>7

\* Then the records follow, if nothing changed them meanwhile.
LEMMA PhoneOfSuppressed ==
    ASSUME TypeInv, PhoneInv, NEW h \in Handlers, Suppressed(h)
    PROVE  PhoneInv'
<1> DEFINE snap == handler[h].snap
           ids == {t \in handler[h].ids : snap[t] # None}
<1>1. /\ handler[h].pc = "cancelled" /\ Handle(h) /\ MarkSummary(h, TRUE)
      /\ scheduled' = [t \in Tasks |-> IF t \in ids THEN None ELSE snap[t]]
  BY DEF Suppressed, Handle
<1>2. /\ raced' = (raced \/ Shared(h)) /\ sync' = Overlapped
      /\ UNCHANGED <<now, enabled>>
      /\ DOMAIN handler = Handlers /\ HandlerShape(handler[h])
      /\ \A g \in Handlers \ {h} : handler'[g] = handler[g]
  BY <1>1, HandleIs
<1>3. AheadPart
  BY DEF PhoneInv
<1>4. handler'[h].pc = "idle"
  BY <1>1, <1>2 DEF MarkSummary, HandlerEnds, IdleHandler
<1>5. ~raced /\ ~Shared(h) => CancelledPhase(handler[h]) /\ enabled
  BY <1>1, HandlerBefore DEF HandlerPhase
<1>6. /\ SummaryMatches => SummaryMatches'
      /\ \A n \in phone \cup phone' : n.id # "summary" => (n \in phone <=> n \in phone')
      /\ AheadPart'
  BY <1>1, <1>2, <1>3, MarkKeeps
<1>7. ASSUME CancelledPhase(handler[h]) PROVE Matches'
  <2>1. SummaryMatches'
    BY <1>6, <1>7 DEF CancelledPhase
  <2>2. ASSUME NEW t \in Tasks PROVE TaskMatches(t)'
    <3>1. CASE t \in ids
      <4>1. \A n \in phone : n.id # t
        BY <1>7, <3>1 DEF CancelledPhase
      <4>2. \A n \in phone' : n.id # t
        BY <1>6, <4>1, NotATask
      <4>3. scheduled'[t] = None
        BY <1>1, <3>1
      <4> QED
        BY <4>2, <4>3 DEF TaskMatches
    <3>2. CASE t \notin ids
      <4>1. TaskMatches(t) /\ snap = scheduled
        BY <1>7, <3>2 DEF CancelledPhase
      <4>2. scheduled'[t] = scheduled[t]
        BY <1>1, <3>2, <4>1
      <4>3. \A n \in phone \cup phone' : n.id = t => (n \in phone <=> n \in phone')
        BY <1>6, NotATask
      <4> QED
        BY <1>2, <4>1, <4>2, <4>3, TaskKept
    <3> QED
      BY <3>1, <3>2
  <2> QED
    BY <2>1, <2>2 DEF Matches
<1>8. HandlerPhase(handler[h])'
  BY <1>4 DEF HandlerPhase
<1> QED
  BY <1>2, <1>4, <1>5, <1>6, <1>7, <1>8, HandlerSteps

\* A reminder comes back ahead of the records.
LEMMA PhoneOfRestore ==
    ASSUME TypeInv, PhoneInv, NEW h \in Handlers, Restore(h)
    PROVE  PhoneInv'
<1>1. handler[h].pc = "note" /\ handler[h].kind = "uncheck" /\ Handle(h)
  BY DEF Restore, Handle
<1>2. /\ raced' = (raced \/ Shared(h)) /\ sync' = Overlapped
      /\ UNCHANGED <<now, enabled>>
      /\ DOMAIN handler = Handlers /\ HandlerShape(handler[h])
      /\ \A g \in Handlers \ {h} : handler'[g] = handler[g]
  BY <1>1, HandleIs
<1>3. PICK t \in Tasks : handler[h].ids = {t}
  BY <1>1, <1>2 DEF HandlerShape
<1>4. (CHOOSE u \in Tasks : handler[h].ids = {u}) = t
  BY <1>3
<1>5. /\ scheduled' = scheduled
      /\ IF suppressed[t] # None /\ suppressed[t].at > now
         THEN /\ phone' = Schedule({[id |-> t, at |-> suppressed[t].at]})
              /\ handler' = [handler EXCEPT ![h].pc = "restored", ![h].snap = suppressed[t].at]
              /\ summary' = summary
         ELSE MarkSummary(h, FALSE)
  BY <1>4 DEF Restore
<1>6. AheadPart
  BY DEF PhoneInv
<1>7. ~raced /\ ~Shared(h) => Matches /\ enabled
  BY <1>1, HandlerBefore DEF HandlerPhase
<1>8. CASE ~(suppressed[t] # None /\ suppressed[t].at > now)
  <2>1. handler'[h].pc = "idle"
    BY <1>2, <1>5, <1>8 DEF MarkSummary, HandlerEnds, IdleHandler
  <2>2. /\ SummaryMatches => SummaryMatches'
        /\ \A n \in phone \cup phone' : n.id # "summary" => (n \in phone <=> n \in phone')
        /\ AheadPart'
    BY <1>1, <1>2, <1>5, <1>6, <1>8, MarkKeeps
  <2>3. Matches => Matches'
    BY <1>2, <1>5, <2>2, NotATask, TaskKept DEF Matches
  <2>4. HandlerPhase(handler[h])'
    BY <2>1 DEF HandlerPhase
  <2> QED
    BY <1>2, <1>7, <2>1, <2>2, <2>3, <2>4, HandlerSteps
<1>9. CASE suppressed[t] # None /\ suppressed[t].at > now
  <2> DEFINE m == [id |-> t, at |-> suppressed[t].at]
             r == handler[h]
             to == [r EXCEPT !.pc = "restored", !.snap = suppressed[t].at]
  <2>1. to.pc = "restored" /\ to.snap = m.at /\ to.ids = {t}
    BY <1>2, <1>3 DEF HandlerShape
  <2>2. handler' = [handler EXCEPT ![h] = to]
    BY <1>2, <1>5, <1>9
  <2>3. phone' = {n \in phone : n.id # t} \cup {m} /\ m.id = t /\ m.at > now
    <3>1. phone' = Schedule({m}) /\ m.id = t /\ m.at > now
      BY <1>5, <1>9
    <3> HIDE DEF m
    <3> QED
      BY <3>1 DEF Schedule
  <2> HIDE DEF to, m
  <2>4. handler'[h].pc = "restored" /\ handler'[h].snap = m.at /\ handler'[h].ids = {t}
    BY <1>2, <2>1, <2>2
  <2>5. AheadPart'
    BY <1>2, <1>6, <2>3 DEF AheadPart
  <2>6. ASSUME Matches PROVE RestoredPhase(handler[h])'
    <3>1. SummaryMatches'
      <4>1. \A n \in phone \cup phone' : n.id = "summary" => (n \in phone <=> n \in phone')
        BY <2>3, NotATask
      <4> QED
        BY <1>2, <1>5, <1>9, <2>6, <4>1, SummaryKept DEF Matches
    <3>2. ASSUME NEW u \in Tasks \ {t} PROVE TaskMatches(u)'
      <4>1. \A n \in phone \cup phone' : n.id = u => (n \in phone <=> n \in phone')
        BY <2>3
      <4> QED
        BY <1>2, <1>5, <2>6, <4>1, TaskKept DEF Matches
    <3>3. /\ \A n \in phone' : n.id = t => n.at = m.at
          /\ \E n \in phone' : n.id = t
      BY <2>3
    <3> QED
      BY <2>4, <3>1, <3>2, <3>3 DEF RestoredPhase
  <2>7. Matches => HandlerPhase(handler[h])'
    BY <2>4, <2>6 DEF HandlerPhase
  <2> QED
    BY <1>2, <1>7, <2>4, <2>5, <2>7, HandlerSteps
<1> QED
  BY <1>8, <1>9

\* Then it is written down.
LEMMA PhoneOfRestored ==
    ASSUME TypeInv, PhoneInv, NEW h \in Handlers, Restored(h)
    PROVE  PhoneInv'
<1>1. handler[h].pc = "restored" /\ Handle(h) /\ MarkSummary(h, FALSE)
  BY DEF Restored, Handle
<1>2. /\ raced' = (raced \/ Shared(h)) /\ sync' = Overlapped
      /\ UNCHANGED <<now, enabled>>
      /\ DOMAIN handler = Handlers /\ HandlerShape(handler[h])
      /\ \A g \in Handlers \ {h} : handler'[g] = handler[g]
  BY <1>1, HandleIs
<1>3. PICK t \in Tasks : handler[h].ids = {t}
  BY <1>1, <1>2 DEF HandlerShape
<1>4. (CHOOSE u \in Tasks : handler[h].ids = {u}) = t
  BY <1>3
<1>5. scheduled' = [scheduled EXCEPT ![t] = handler[h].snap]
  BY <1>4 DEF Restored, Recorded
<1>6. AheadPart /\ DOMAIN scheduled = Tasks
  BY DEF PhoneInv, TypeInv, RecordsInv, Schedules
<1>7. handler'[h].pc = "idle"
  BY <1>1, <1>2 DEF MarkSummary, HandlerEnds, IdleHandler
<1>8. ~raced /\ ~Shared(h) => RestoredPhase(handler[h]) /\ enabled
  BY <1>1, HandlerBefore DEF HandlerPhase
<1>9. /\ SummaryMatches => SummaryMatches'
      /\ \A n \in phone \cup phone' : n.id # "summary" => (n \in phone <=> n \in phone')
      /\ AheadPart'
  BY <1>1, <1>2, <1>6, MarkKeeps
<1>10. ASSUME RestoredPhase(handler[h]) PROVE Matches'
  <2>1. SummaryMatches'
    BY <1>9, <1>10 DEF RestoredPhase
  <2>2. ASSUME NEW u \in Tasks PROVE TaskMatches(u)'
    <3>1. \A n \in phone \cup phone' : n.id = u => (n \in phone <=> n \in phone')
      BY <1>9, NotATask
    <3>2. CASE u = t
      <4>1. /\ \A n \in phone : n.id = t => n.at = handler[h].snap
            /\ handler[h].snap > now => \E n \in phone : n.id = t
        BY <1>3, <1>10 DEF RestoredPhase
      <4>2. scheduled'[t] = handler[h].snap
        BY <1>5, <1>6
      <4> QED
        BY <1>2, <3>1, <3>2, <4>1, <4>2 DEF TaskMatches
    <3>3. CASE u # t
      <4>1. TaskMatches(u)
        BY <1>3, <1>10, <3>3 DEF RestoredPhase
      <4>2. scheduled'[u] = scheduled[u]
        BY <1>5, <3>3
      <4> QED
        BY <1>2, <3>1, <4>1, <4>2, TaskKept
    <3> QED
      BY <3>2, <3>3
  <2> QED
    BY <2>1, <2>2 DEF Matches
<1>11. HandlerPhase(handler[h])'
  BY <1>7 DEF HandlerPhase
<1> QED
  BY <1>2, <1>7, <1>8, <1>9, <1>10, <1>11, HandlerSteps

\* A preference turned off cancels what it is about, then forgets it.
LEMMA PhoneOfPreference ==
    ASSUME TypeInv, PhoneInv, NEW h \in Handlers,
           PreferenceOff(h) \/ PreferenceRecorded(h) \/ Other(h)
    PROVE  PhoneInv'
<1>1. Handle(h)
  BY DEF Handle
<1>2. /\ raced' = (raced \/ Shared(h)) /\ sync' = Overlapped
      /\ UNCHANGED <<now, enabled>>
      /\ DOMAIN handler = Handlers /\ HandlerShape(handler[h])
      /\ \A g \in Handlers \ {h} : handler'[g] = handler[g]
  BY <1>1, HandleIs
<1>3. AheadPart
  BY DEF PhoneInv
<1>4. \A t \in Tasks : \A n \in phone : n.id = t /\ scheduled[t] = n.at => scheduled[t] # None
  BY NoneIsNone DEF TypeInv, RecordsInv, Notification
<1>5. \A n \in phone : n.id \in Tasks \/ n.id = "summary"
  BY DEF TypeInv, RecordsInv, Notification
<1>6. CASE PreferenceOff(h)
  <2>1. /\ handler[h].pc = "note" /\ handler[h].kind \in {"remindersOff", "summaryOff"}
        /\ UNCHANGED <<scheduled, summary>>
        /\ phone' = Cancel(IF handler[h].kind = "remindersOff"
                           THEN {t \in Tasks : scheduled[t] # None}
                           ELSE IF summary = None THEN {} ELSE {"summary"})
        /\ handler' = [handler EXCEPT ![h].pc = "off"]
    BY <1>6 DEF PreferenceOff, records
  <2>2. handler'[h].pc = "off" /\ handler'[h].kind = handler[h].kind
    BY <1>2, <2>1 DEF HandlerShape
  <2>3. AheadPart' /\ phone' \subseteq phone
    BY <1>2, <1>3, <2>1 DEF AheadPart, Cancel
  <2>4. ASSUME Matches PROVE OffPhase(handler[h])'
    <3>1. CASE handler[h].kind = "remindersOff"
      <4>1. phone' = {n \in phone : n.id \notin {t \in Tasks : scheduled[t] # None}}
        BY <2>1, <3>1 DEF Cancel
      <4>2. \A n \in phone' : n.id = "summary"
        BY <1>4, <1>5, <2>4, <4>1 DEF Matches, TaskMatches
      <4>3. \A n \in phone \cup phone' : n.id = "summary" => (n \in phone <=> n \in phone')
        BY <4>1, NotATask
      <4>4. SummaryMatches'
        BY <1>2, <2>1, <2>4, <4>3, SummaryKept DEF Matches
      <4> QED
        BY <2>2, <3>1, <4>2, <4>4 DEF OffPhase
    <3>2. CASE handler[h].kind # "remindersOff"
      <4>1. phone' = {n \in phone : n.id \notin (IF summary = None THEN {} ELSE {"summary"})}
        BY <2>1, <3>2 DEF Cancel
      <4>2. \A n \in phone' : n.id # "summary"
        BY <2>4, <4>1 DEF Matches, SummaryMatches, HoldsSummary, Rings
      <4>3. \A t \in Tasks : \A n \in phone \cup phone' : n.id = t => (n \in phone <=> n \in phone')
        BY <4>1, NotATask
      <4>4. \A t \in Tasks : TaskMatches(t)'
        BY <1>2, <2>1, <2>4, <4>3, TaskKept DEF Matches
      <4> QED
        BY <2>2, <3>2, <4>2, <4>4 DEF OffPhase
    <3> QED
      BY <3>1, <3>2
  <2>5. Matches => HandlerPhase(handler[h])'
    BY <2>2, <2>4 DEF HandlerPhase
  <2>6. ~raced /\ ~Shared(h) => Matches /\ enabled
    BY <2>1, HandlerBefore DEF HandlerPhase
  <2> QED
    BY <1>2, <2>2, <2>3, <2>5, <2>6, HandlerSteps
<1>7. CASE PreferenceRecorded(h)
  <2>1. /\ handler[h].pc = "off" /\ phone' = phone
        /\ IF handler[h].kind = "remindersOff" THEN scheduled' = Nothing /\ summary' = summary
           ELSE summary' = None /\ scheduled' = scheduled
        /\ handler' = [handler EXCEPT ![h] = IdleHandler]
    BY <1>7 DEF PreferenceRecorded, HandlerEnds
  <2>2. handler'[h].pc = "idle"
    BY <1>2, <2>1 DEF IdleHandler
  <2>3. AheadPart'
    BY <1>2, <1>3, <2>1 DEF AheadPart
  <2>4. ASSUME OffPhase(handler[h]) PROVE Matches'
    <3>1. CASE handler[h].kind = "remindersOff"
      <4>1. SummaryMatches /\ \A n \in phone : n.id = "summary"
        BY <2>4, <3>1 DEF OffPhase
      <4>2. SummaryMatches'
        BY <1>2, <2>1, <3>1, <4>1, SummaryKept
      <4>3. \A t \in Tasks : TaskMatches(t)'
        BY <2>1, <3>1, <4>1, NotATask DEF TaskMatches, Nothing
      <4> QED
        BY <4>2, <4>3 DEF Matches
    <3>2. CASE handler[h].kind # "remindersOff"
      <4>1. (\A t \in Tasks : TaskMatches(t)) /\ \A n \in phone : n.id # "summary"
        BY <2>4, <3>2 DEF OffPhase
      <4>2. SummaryMatches'
        BY <2>1, <3>2, <4>1 DEF SummaryMatches, HoldsSummary, Rings
      <4>3. \A t \in Tasks : TaskMatches(t)'
        BY <1>2, <2>1, <3>2, <4>1, TaskKept
      <4> QED
        BY <4>2, <4>3 DEF Matches
    <3> QED
      BY <3>1, <3>2
  <2>5. HandlerPhase(handler[h])'
    BY <2>2 DEF HandlerPhase
  <2>6. ~raced /\ ~Shared(h) => OffPhase(handler[h]) /\ enabled
    BY <2>1, HandlerBefore DEF HandlerPhase
  <2> QED
    BY <1>2, <2>2, <2>3, <2>4, <2>5, <2>6, HandlerSteps
<1>8. CASE Other(h)
  <2>1. /\ handler[h].pc = "note" /\ UNCHANGED <<phone, scheduled, summary>>
        /\ handler' = [handler EXCEPT ![h] = IdleHandler]
    BY <1>8 DEF Other, HandlerEnds, records
  <2>2. handler'[h].pc = "idle"
    BY <1>2, <2>1 DEF IdleHandler
  <2>3. AheadPart'
    BY <1>2, <1>3, <2>1 DEF AheadPart
  <2>4. Matches => Matches'
    BY <1>2, <2>1, SummaryKept, TaskKept DEF Matches
  <2>5. HandlerPhase(handler[h])'
    BY <2>2 DEF HandlerPhase
  <2>6. ~raced /\ ~Shared(h) => Matches /\ enabled
    BY <2>1, HandlerBefore DEF HandlerPhase
  <2> QED
    BY <1>2, <2>2, <2>3, <2>4, <2>5, <2>6, HandlerSteps
<1> QED
  BY <1>6, <1>7, <1>8

\* The switch turned off cancels everything, then forgets it.
LEMMA PhoneOfDisable ==
    ASSUME TypeInv, PhoneInv, NEW h \in Handlers, DisableCancel(h) \/ DisableRecorded(h)
    PROVE  PhoneInv'
<1>1. Handle(h)
  BY DEF Handle
<1>2. /\ raced' = (raced \/ Shared(h)) /\ sync' = Overlapped
      /\ UNCHANGED <<now, enabled>>
      /\ DOMAIN handler = Handlers /\ HandlerShape(handler[h])
      /\ \A g \in Handlers \ {h} : handler'[g] = handler[g]
  BY <1>1, HandleIs
<1>3. AheadPart
  BY DEF PhoneInv
<1>4. CASE DisableCancel(h)
  <2>1. /\ handler[h].pc = "disable" /\ phone' = Cancel(handler[h].ids)
        /\ handler' = [handler EXCEPT ![h].pc = "disabled"]
    BY <1>4 DEF DisableCancel
  <2>2. handler'[h].pc = "disabled"
    BY <1>2, <2>1 DEF HandlerShape
  <2>3. AheadPart'
    BY <1>2, <1>3, <2>1 DEF AheadPart, Cancel
  <2>4. ASSUME ~raced, ~Shared(h) PROVE phone' = {}
    <3>1. \A n \in phone : n.id \in handler[h].ids
      BY <2>1, <2>4, HandlerBefore DEF HandlerPhase
    <3> QED
      BY <2>1, <3>1 DEF Cancel
  <2>5. phone' = {} => HandlerPhase(handler[h])'
    BY <2>2 DEF HandlerPhase
  <2> QED
    BY <1>2, <2>2, <2>3, <2>4, <2>5, HandlerSteps
<1>5. CASE DisableRecorded(h)
  <2>1. /\ handler[h].pc = "disabled" /\ phone' = phone /\ scheduled' = Nothing
        /\ summary' = None /\ handler' = [handler EXCEPT ![h] = IdleHandler]
    BY <1>5 DEF DisableRecorded, HandlerEnds
  <2>2. handler'[h].pc = "idle"
    BY <1>2, <2>1 DEF IdleHandler
  <2>3. AheadPart'
    BY <1>2, <1>3, <2>1 DEF AheadPart
  <2>4. ~raced /\ ~Shared(h) => phone = {}
    BY <2>1, HandlerBefore DEF HandlerPhase
  <2>5. phone = {} => Matches'
    BY <2>1 DEF Matches, SummaryMatches, HoldsSummary, Rings, TaskMatches, Nothing
  <2>6. HandlerPhase(handler[h])'
    BY <2>2 DEF HandlerPhase
  <2> QED
    BY <1>2, <2>1, <2>2, <2>3, <2>4, <2>5, <2>6, HandlerSteps
<1> QED
  BY <1>4, <1>5

\* Every step of a handler keeps the phone and the records in step.
LEMMA PhoneOfHandle ==
    ASSUME TypeInv, PhoneInv, NEW h \in Handlers, Handle(h)
    PROVE  PhoneInv'
BY PhoneOfSuppress, PhoneOfSuppressed, PhoneOfRestore, PhoneOfRestored, PhoneOfPreference,
   PhoneOfDisable DEF Handle

\* The server answers one moment for a task.
LEMMA UpcomingOnce ==
    \A r, s \in Upcoming.reminders : r.id = s.id => r = s
BY DEF Upcoming, upcomingReminders

\* A step that leaves the phone, the records and the handlers.
LEMMA PhoneSame ==
    ASSUME PhoneInv,
           UNCHANGED <<phone, enabled, scheduled, summary, sync, handler, now, raced>>
    PROVE  PhoneInv'
<1>1. Matches' = Matches
  BY DEF Matches, SummaryMatches, HoldsSummary, Rings, HasOpenTasks, TaskMatches
<1>2. \A h \in Handlers : HandlerPhase(handler[h])' = HandlerPhase(handler[h])
  BY <1>1 DEF HandlerPhase, CancelledPhase, RestoredPhase, OffPhase, SummaryMatches, HoldsSummary,
              Rings, HasOpenTasks, TaskMatches
<1>3. HandlersPart'
  BY <1>1, <1>2 DEF PhoneInv, HandlersPart, Early, AllIdle
<1>4. RoundPhase' = RoundPhase
  BY DEF RoundPhase, AllIdle, HoldsSummary, Rings, HasOpenTasks
<1>5. RoundPart'
  BY <1>4 DEF PhoneInv, RoundPart, Answered
<1>6. AheadPart' /\ OffPart'
  BY DEF PhoneInv, AheadPart, OffPart, AllIdle
<1> QED
  BY <1>3, <1>5, <1>6 DEF PhoneInv

\* A step of a sync that does not touch the phone yet.
LEMMA EarlyStep ==
    ASSUME TypeInv, PhoneInv, UNCHANGED <<phone, enabled, scheduled, summary, handler, now, raced>>,
           Early, Early', RoundPart', ~raced /\ ~enabled => sync'.pc = "idle"
    PROVE  PhoneInv'
<1>1. Matches' = Matches
  BY DEF Matches, SummaryMatches, HoldsSummary, Rings, HasOpenTasks, TaskMatches
<1>2. \A h \in Handlers : HandlerPhase(handler[h])' = HandlerPhase(handler[h])
  BY <1>1 DEF HandlerPhase, CancelledPhase, RestoredPhase, OffPhase, SummaryMatches, HoldsSummary,
              Rings, HasOpenTasks, TaskMatches
<1>3. HandlersPart'
  BY <1>1, <1>2 DEF PhoneInv, HandlersPart, AllIdle
<1>4. AheadPart' /\ OffPart'
  BY DEF PhoneInv, AheadPart, OffPart, AllIdle
<1> QED
  BY <1>3, <1>4 DEF PhoneInv

\* A sync that is over, or begins.
LEMMA IdleOrFresh ==
    /\ IdleSync.pc = "idle"
    /\ FreshSync.pc = "permission" /\ FreshSync.alone = AllIdle
BY DEF IdleSync, FreshSync, SyncAt, AllIdle

\* A sync that asks the server touches nothing yet.
LEMMA PhoneOfEarlySync ==
    ASSUME TypeInv, PhoneInv, SyncStart \/ SyncPermission \/ SyncFetch
    PROVE  PhoneInv'
<1>1. UNCHANGED <<phone, enabled, scheduled, summary, handler, now, raced>>
  BY DEF SyncStart, SyncPermission, SyncFetch, world, records, ghosts
<1>2. CASE sync' = sync
  BY <1>1, <1>2, PhoneSame
<1>3. CASE sync' # sync
  <2>1. SyncInv /\ RoundPart /\ OffPart
    BY DEF TypeInv, PhoneInv
  <2>2. \/ SyncStart /\ sync' = FreshSync /\ sync.pc = "idle" /\ enabled
        \/ sync' = IdleSync /\ sync.pc \in {"permission", "fetch"}
        \/ SyncPermission /\ sync' = [sync EXCEPT !.pc = "fetch"] /\ sync.pc = "permission"
        \/ SyncFetch /\ sync' = [sync EXCEPT !.pc = "answer", !.answer = Upcoming]
             /\ sync.pc = "fetch"
    BY <1>3 DEF SyncStart, SyncPermission, SyncFetch, SyncStops
  <2>3. AllIdle' = AllIdle
    BY <1>1 DEF AllIdle
  <2>4. CASE sync' = FreshSync /\ sync.pc = "idle" /\ enabled
    <3>1. Early /\ Early'
      BY <2>4, IdleOrFresh DEF Early
    <3>2. RoundPart'
      BY <2>3, <2>4, IdleOrFresh DEF RoundPart, RoundPhase, Answered
    <3> QED
      BY <1>1, <2>4, <3>1, <3>2, EarlyStep
  <2>5. CASE sync' = IdleSync /\ sync.pc \in {"permission", "fetch"}
    <3>1. Early /\ Early' /\ sync'.pc = "idle"
      BY <2>5, IdleOrFresh DEF Early
    <3>2. RoundPart'
      BY <3>1 DEF RoundPart, Answered
    <3> QED
      BY <1>1, <3>1, <3>2, EarlyStep
  <2>6. CASE sync' = [sync EXCEPT !.pc = "fetch"] /\ sync.pc = "permission"
    <3>1. sync'.pc = "fetch" /\ sync'.alone = sync.alone
      BY <2>1, <2>6 DEF SyncInv
    <3>2. Early /\ Early'
      BY <2>6, <3>1 DEF Early
    <3>3. RoundPart'
      BY <2>1, <2>3, <2>6, <3>1 DEF RoundPart, RoundPhase, Answered
    <3>4. ~raced /\ ~enabled => sync'.pc = "idle"
      BY <2>1, <2>6 DEF OffPart
    <3> QED
      BY <1>1, <3>2, <3>3, <3>4, EarlyStep
  <2>7. CASE sync' = [sync EXCEPT !.pc = "answer", !.answer = Upcoming] /\ sync.pc = "fetch"
    <3>1. sync'.pc = "answer" /\ sync'.alone = sync.alone /\ sync'.answer = Upcoming
      BY <2>1, <2>7 DEF SyncInv
    <3>2. Early /\ Early'
      BY <2>7, <3>1 DEF Early
    <3>3. \A r, s \in sync'.answer.reminders : r.id = s.id => r = s
      BY <3>1, UpcomingOnce
    <3>4. RoundPart'
      BY <2>1, <2>3, <2>7, <3>1, <3>3 DEF RoundPart, RoundPhase, Answered
    <3>5. ~raced /\ ~enabled => sync'.pc = "idle"
      BY <2>1, <2>7 DEF OffPart
    <3> QED
      BY <1>1, <3>2, <3>4, <3>5, EarlyStep
  <2> QED
    BY <2>2, <2>4, <2>5, <2>6, <2>7
<1> QED
  BY <1>2, <1>3

\* A step of a sync that cancels or schedules: the handlers have no say.
LEMMA LateStep ==
    ASSUME TypeInv, PhoneInv, UNCHANGED <<enabled, handler, now, raced>>, AheadPart', RoundPart',
           sync.pc # "idle", sync'.pc \in {"pending", "cancelled", "scheduled"}
    PROVE  PhoneInv'
<1>1. ~Early'
  BY DEF Early
<1>2. HandlersPart'
  BY <1>1 DEF PhoneInv, HandlersPart
<1>3. OffPart'
  BY DEF PhoneInv, OffPart
<1> QED
  BY <1>2, <1>3 DEF PhoneInv

\* What is pending on the phone is what the sync is about to cancel.
LEMMA PhoneOfCompute ==
    ASSUME TypeInv, PhoneInv, SyncCompute
    PROVE  PhoneInv'
<1> DEFINE reminders == Wanted(sync.answer, PrunedSuppressions(sync.answer))
           entry == SummaryEntry(sync.answer.summary)
           pending == {n.id : n \in phone}
<1>1. /\ sync.pc = "answer" /\ UNCHANGED <<phone, enabled, handler, now, raced>>
      /\ sync' = [sync EXCEPT !.pc = "pending", !.answer.reminders = reminders,
                              !.entry = entry, !.pending = pending]
  BY DEF SyncCompute, world, ghosts
<1>2. reminders \subseteq sync.answer.reminders
  BY DEF Wanted
<1>3. \A n \in phone : n.id \in pending
  OBVIOUS
<1> HIDE DEF reminders, entry, pending
<1>4. SyncInv /\ sync.answer \in Answer
  BY <1>1 DEF TypeInv, SyncInv, Answered
<1>5. /\ sync'.pc = "pending" /\ sync'.alone = sync.alone /\ sync'.pending = pending
      /\ sync'.answer.reminders = reminders
  BY <1>1, <1>4 DEF SyncInv, Answer
<1>6. RoundPart'
  <2>1. \A r, s \in sync.answer.reminders : r.id = s.id => r = s
    BY <1>1 DEF PhoneInv, RoundPart, Answered
  <2>2. \A r, s \in sync'.answer.reminders : r.id = s.id => r = s
    BY <1>2, <1>5, <2>1
  <2>3. sync.alone => AllIdle'
    BY <1>1 DEF PhoneInv, RoundPart, RoundPhase, AllIdle
  <2>4. sync'.alone => RoundPhase'
    BY <1>1, <1>3, <1>5, <2>3 DEF RoundPhase
  <2> QED
    BY <2>2, <2>4 DEF RoundPart
<1>7. AheadPart'
  BY <1>1 DEF PhoneInv, AheadPart
<1> QED
  BY <1>1, <1>5, <1>6, <1>7, LateStep

\* Then the phone is empty, if nothing else scheduled meanwhile.
LEMMA PhoneOfCancel ==
    ASSUME TypeInv, PhoneInv, SyncCancel
    PROVE  PhoneInv'
<1>1. /\ sync.pc = "pending" /\ UNCHANGED <<enabled, handler, now, raced>>
      /\ phone' = Cancel(sync.pending) /\ sync' = [sync EXCEPT !.pc = "cancelled"]
  BY DEF SyncCancel, world, records, ghosts
<1>2. sync'.pc = "cancelled" /\ sync'.alone = sync.alone /\ sync'.answer = sync.answer
  BY <1>1 DEF TypeInv, SyncInv
<1>3. sync.alone => AllIdle' /\ phone' = {}
  BY <1>1 DEF PhoneInv, RoundPart, RoundPhase, AllIdle, Cancel
<1>4. RoundPart'
  BY <1>1, <1>2, <1>3 DEF PhoneInv, RoundPart, RoundPhase, Answered
<1>5. AheadPart'
  BY <1>1 DEF PhoneInv, AheadPart, Cancel
<1> QED
  BY <1>1, <1>2, <1>4, <1>5, LateStep

\* It holds what the sync schedules.
LEMMA PhoneOfSchedule ==
    ASSUME TypeInv, PhoneInv, SyncSchedule
    PROVE  PhoneInv'
<1>1. /\ sync.pc = "cancelled" /\ UNCHANGED <<enabled, handler, now, raced>>
      /\ phone' = Schedule(SyncNotifications) /\ sync' = [sync EXCEPT !.pc = "scheduled"]
  BY DEF SyncSchedule, world, ghosts
<1>2. /\ sync'.pc = "scheduled" /\ sync'.alone = sync.alone /\ sync'.answer = sync.answer
      /\ sync'.entry = sync.entry
  BY <1>1 DEF TypeInv, SyncInv
<1>3. sync.answer.reminders \subseteq [id : Tasks, at : Moment]
  BY <1>1 DEF TypeInv, SyncInv, Answered, Answer
<1> DEFINE m == [id |-> "summary", at |-> sync.entry.summary.at]
<1>4. SyncNotifications = sync.answer.reminders \cup (IF Rings(sync.entry) THEN {m} ELSE {})
  BY DEF SyncNotifications, Rings
<1>5. m.id = "summary" /\ m.at = sync.entry.summary.at
  OBVIOUS
<1> HIDE DEF m
<1>6. AheadPart'
  BY <1>1 DEF PhoneInv, AheadPart, Schedule
<1>7. ASSUME sync.alone PROVE RoundPhase'
  <2>1. AllIdle'
    BY <1>1, <1>7 DEF PhoneInv, RoundPart, RoundPhase, AllIdle
  <2>2. phone = {}
    BY <1>1, <1>7 DEF PhoneInv, RoundPart, RoundPhase
  <2>3. phone' = {n \in SyncNotifications : n.at > now}
    BY <1>1, <2>2 DEF Schedule
  <2>4. \A r \in sync.answer.reminders : r.id # "summary"
    BY <1>3, NotATask
  <2>5. \A n \in phone' : n.id # "summary" => n \in sync'.answer.reminders
    BY <1>2, <1>4, <1>5, <2>3
  <2>6. \A r \in sync'.answer.reminders : r.at > now' => \E n \in phone' : n.id = r.id
    BY <1>1, <1>2, <1>4, <2>3
  <2>7. HoldsSummary(sync.entry)'
    <3>1. \A n \in phone' : n.id = "summary" => Rings(sync.entry) /\ n.at = sync.entry.summary.at
      BY <1>4, <1>5, <2>3, <2>4
    <3>2. Rings(sync.entry) /\ sync.entry.summary.at > now => \E n \in phone' : n.id = "summary"
      BY <1>4, <1>5, <2>3
    <3> QED
      BY <1>1, <1>2, <3>1, <3>2 DEF HoldsSummary, Rings, HasOpenTasks
  <2> QED
    BY <1>2, <2>1, <2>5, <2>6, <2>7 DEF RoundPhase
<1>8. RoundPart'
  BY <1>1, <1>2, <1>7 DEF PhoneInv, RoundPart, Answered
<1> QED
  BY <1>1, <1>2, <1>6, <1>8, LateStep

\* And the records follow, which ends what was raced.
LEMMA PhoneOfRecord ==
    ASSUME TypeInv, PhoneInv, SyncRecord
    PROVE  PhoneInv'
<1> DEFINE A == sync.answer.reminders
<1>1. /\ sync.pc = "scheduled" /\ UNCHANGED <<phone, enabled, handler, now>>
      /\ summary' = sync.entry /\ raced' = (~sync.alone \/ ~enabled)
      /\ sync' = FreshSync \/ sync' = IdleSync
      /\ scheduled' = [t \in Tasks |-> IF \E r \in A : r.id = t
                                       THEN (CHOOSE r \in A : r.id = t).at ELSE None]
  BY DEF SyncRecord, SyncNext, world
<1>2. A \subseteq [id : Tasks, at : Moment] /\ \A r, s \in A : r.id = s.id => r = s
  BY <1>1 DEF TypeInv, SyncInv, Answered, Answer, PhoneInv, RoundPart
<1> HIDE DEF A
<1>3. AheadPart'
  BY <1>1 DEF PhoneInv, AheadPart
<1>4. AllIdle' = AllIdle
  BY <1>1 DEF AllIdle
<1>5. sync'.pc \in {"idle", "permission"} /\ (sync'.pc = "permission" => sync'.alone = AllIdle)
  BY <1>1, IdleOrFresh
<1>6. RoundPart'
  BY <1>4, <1>5 DEF RoundPart, RoundPhase, Answered
<1>7. ASSUME sync.alone PROVE AllIdle /\ Matches'
  <2>1. /\ AllIdle
        /\ \A n \in phone : n.id # "summary" => n \in A
        /\ \A r \in A : r.at > now => \E n \in phone : n.id = r.id
        /\ HoldsSummary(sync.entry)
    BY <1>1, <1>7 DEF PhoneInv, RoundPart, RoundPhase, A
  <2>2. SummaryMatches'
    BY <1>1, <2>1 DEF SummaryMatches, HoldsSummary, Rings, HasOpenTasks
  <2>3. ASSUME NEW r \in A PROVE scheduled'[r.id] = r.at
    <3>1. r.id \in Tasks /\ (CHOOSE s \in A : s.id = r.id) = r
      BY <1>2, <2>3
    <3> QED
      BY <1>1, <3>1
  <2>4. ASSUME NEW t \in Tasks PROVE TaskMatches(t)'
    <3>1. \A n \in phone : n.id = t => n.at = scheduled'[t]
      BY <2>1, <2>3, NotATask
    <3>2. ASSUME scheduled'[t] # None, scheduled'[t] > now
          PROVE  \E n \in phone : n.id = t
      <4>1. PICK r \in A : r.id = t
        BY <1>1, <3>2
      <4>2. r.at > now
        BY <2>3, <3>2, <4>1
      <4> QED
        BY <2>1, <4>1, <4>2
    <3> QED
      BY <1>1, <3>1, <3>2 DEF TaskMatches
  <2> QED
    BY <2>1, <2>2, <2>4 DEF Matches
<1>8. HandlersPart'
  <2> SUFFICES ASSUME ~raced'
               PROVE  AllIdle /\ Matches' /\ \A h \in Handlers : HandlerPhase(handler[h])'
    BY <1>1 DEF HandlersPart, AllIdle
  <2>1. sync.alone
    BY <1>1
  <2>2. \A h \in Handlers : HandlerPhase(handler[h])'
    BY <1>1, <1>7, <2>1 DEF AllIdle, HandlerPhase
  <2> QED
    BY <1>7, <2>1, <2>2
<1>9. OffPart'
  BY <1>1 DEF OffPart
<1> QED
  BY <1>3, <1>6, <1>8, <1>9 DEF PhoneInv

\* A kill or a plugin error half way counts as a race.
LEMMA PhoneOfFailures ==
    ASSUME TypeInv, PhoneInv, Kill \/ PluginFails
    PROVE  PhoneInv'
<1>1. UNCHANGED <<phone, enabled, scheduled, summary, now>>
  BY DEF Kill, PluginFails, records
<1>2. AheadPart'
  BY <1>1 DEF PhoneInv, AheadPart
<1>3. CASE Kill
  <2>1. /\ sync' = IdleSync /\ handler' = [h \in Handlers |-> IdleHandler]
        /\ raced' = (raced \/ Busy)
    BY <1>3 DEF Kill
  <2>2. sync'.pc = "idle" /\ \A h \in Handlers : handler'[h].pc = "idle"
    BY <2>1, IdleOrFresh DEF IdleHandler
  <2>3. RoundPart'
    BY <2>2 DEF RoundPart, Answered
  <2>4. ASSUME ~raced' PROVE Matches /\ (~enabled => phone = {})
    <3>1. ~raced /\ Early /\ AllIdle
      BY <2>1, <2>4 DEF Busy, Early, AllIdle
    <3> QED
      BY <3>1 DEF PhoneInv, HandlersPart, OffPart
  <2>5. Matches => Matches'
    BY <1>1 DEF Matches, SummaryMatches, HoldsSummary, Rings, HasOpenTasks, TaskMatches
  <2>6. HandlersPart'
    BY <2>2, <2>4, <2>5 DEF HandlersPart, HandlerPhase
  <2>7. OffPart'
    BY <1>1, <2>2, <2>4 DEF OffPart
  <2> QED
    BY <1>2, <2>3, <2>6, <2>7 DEF PhoneInv
<1>4. CASE PluginFails
  <2>1. raced'
    BY <1>4 DEF PluginFails
  <2>2. \/ sync' = IdleSync /\ handler' = handler
        \/ sync' = sync /\ \E h \in Handlers : handler' = [handler EXCEPT ![h] = IdleHandler]
    BY <1>4 DEF PluginFails, SyncStops, HandlerEnds
  <2>3. AllIdle => AllIdle'
    BY <2>2 DEF AllIdle, IdleHandler, TypeInv, HandlersInv
  <2>4. RoundPart'
    <3>1. CASE sync' = IdleSync
      BY <3>1, IdleOrFresh DEF RoundPart, Answered
    <3>2. CASE sync' = sync
      BY <1>1, <2>3, <3>2 DEF PhoneInv, RoundPart, RoundPhase, HoldsSummary, Rings, HasOpenTasks,
                              Answered
    <3> QED
      BY <2>2, <3>1, <3>2
  <2>5. HandlersPart' /\ OffPart'
    BY <2>1 DEF HandlersPart, OffPart
  <2> QED
    BY <1>2, <2>4, <2>5 DEF PhoneInv
<1> QED
  BY <1>3, <1>4

\* What the phone shows once time has passed.
LEMMA HoldsLater ==
    ASSUME now \in Nat, now' = now + 1, phone' = {n \in phone : n.at > now'},
           NEW e \in Entry \cup {None}, HoldsSummary(e)
    PROVE  HoldsSummary(e)'
<1>1. HoldsSummary(e)' <=>
        /\ \A n \in phone' : n.id = "summary" => Rings(e) /\ n.at = e.summary.at
        /\ Rings(e) /\ e.summary.at > now' => \E n \in phone' : n.id = "summary"
  BY DEF HoldsSummary, Rings, HasOpenTasks
<1>2. \A n \in phone : n.id = "summary" => Rings(e) /\ n.at = e.summary.at
  BY DEF HoldsSummary
<1>3. ASSUME Rings(e), e.summary.at > now' PROVE \E n \in phone' : n.id = "summary"
  <2>1. e \in Entry
    BY <1>3 DEF Rings
  <2>2. e.summary.at \in Nat
    BY <2>1 DEF Entry, Summary, Moment
  <2>3. PICK n \in phone : n.id = "summary"
    BY <1>3, <2>2 DEF HoldsSummary
  <2> QED
    BY <1>2, <1>3, <2>3
<1> QED
  BY <1>1, <1>2, <1>3

\* What is due leaves the phone, and is written down still.
LEMMA PhoneOfTick ==
    ASSUME TypeInv, PhoneInv, Tick
    PROVE  PhoneInv'
<1>1. /\ now' = now + 1 /\ phone' = {n \in phone : n.at > now'}
      /\ UNCHANGED <<enabled, scheduled, suppressed, summary, sync, handler, raced>>
  BY DEF Tick, records, ghosts
<1>2. /\ now \in Nat /\ RecordsInv /\ SyncInv /\ HandlersInv
      /\ \A n \in phone : n.at \in Nat
  BY LocalRemindersAssumption DEF TypeInv, WorldInv, RecordsInv, Notification, Moment
<1>3. AheadPart'
  BY <1>1 DEF AheadPart
<1>4. SummaryMatches => SummaryMatches'
  <2> PICK e \in Entry \cup {None} : e = summary
    BY <1>2 DEF RecordsInv
  <2>1. SummaryMatches => HoldsSummary(e)
    BY DEF SummaryMatches
  <2>2. HoldsSummary(e) => HoldsSummary(e)'
    BY <1>1, <1>2, HoldsLater
  <2>3. HoldsSummary(e)' => SummaryMatches'
    BY <1>1 DEF SummaryMatches, HoldsSummary, Rings, HasOpenTasks
  <2> QED
    BY <2>1, <2>2, <2>3
<1>5. ASSUME NEW t \in Tasks, TaskMatches(t) PROVE TaskMatches(t)'
  <2>1. scheduled[t] # None => scheduled[t] \in Nat
    BY <1>2 DEF RecordsInv, Schedules, Moment
  <2> QED
    BY <1>1, <1>2, <1>5, <2>1 DEF TaskMatches
<1>6. Matches => Matches'
  BY <1>4, <1>5 DEF Matches
<1>7. ASSUME NEW h \in Handlers, HandlerPhase(handler[h]) PROVE HandlerPhase(handler[h])'
  <2>1. HandlerShape(handler[h]) /\ handler'[h] = handler[h]
    BY <1>1, <1>2 DEF HandlersInv
  <2>2. ASSUME CancelledPhase(handler[h]) PROVE CancelledPhase(handler[h])'
    BY <1>1, <1>4, <1>5, <2>2 DEF CancelledPhase
  <2>3. ASSUME RestoredPhase(handler[h]), handler[h].pc = "restored"
        PROVE  RestoredPhase(handler[h])'
    <3>1. handler[h].snap \in Nat
      BY <2>1, <2>3 DEF HandlerShape, Moment
    <3>2. ASSUME NEW t \in handler[h].ids
          PROVE  /\ \A n \in phone' : n.id = t => n.at = handler[h].snap
                 /\ handler[h].snap > now' => \E n \in phone' : n.id = t
      <4>1. /\ \A n \in phone : n.id = t => n.at = handler[h].snap
            /\ handler[h].snap > now => \E n \in phone : n.id = t
        BY <2>3, <3>2 DEF RestoredPhase
      <4> QED
        BY <1>1, <1>2, <3>1, <4>1
    <3> QED
      BY <1>1, <1>4, <1>5, <2>1, <2>3, <3>2 DEF RestoredPhase
  <2>4. ASSUME OffPhase(handler[h]) PROVE OffPhase(handler[h])'
    BY <1>1, <1>4, <1>5, <2>4 DEF OffPhase
  <2> QED
    BY <1>1, <1>6, <1>7, <2>1, <2>2, <2>3, <2>4 DEF HandlerPhase
<1>8. HandlersPart'
  BY <1>1, <1>6, <1>7 DEF PhoneInv, HandlersPart, Early, AllIdle
<1>9. ASSUME RoundPhase, sync.pc \in Answered \/ sync.pc \in {"permission", "fetch"}
      PROVE  RoundPhase'
  <2>1. AllIdle'
    BY <1>1, <1>9 DEF RoundPhase, AllIdle
  <2>2. sync.pc = "scheduled" =>
          /\ \A n \in phone' : n.id # "summary" => n \in sync.answer.reminders
          /\ \A r \in sync.answer.reminders : r.at > now' => \E n \in phone' : n.id = r.id
    <3> SUFFICES ASSUME sync.pc = "scheduled"
                 PROVE  /\ \A n \in phone' : n.id # "summary" => n \in sync.answer.reminders
                        /\ \A r \in sync.answer.reminders :
                                r.at > now' => \E n \in phone' : n.id = r.id
      OBVIOUS
    <3>1. /\ sync.answer.reminders \subseteq [id : Tasks, at : Moment]
          /\ \A r, s \in sync.answer.reminders : r.id = s.id => r = s
      BY <1>2 DEF SyncInv, Answered, Answer, PhoneInv, RoundPart
    <3>2. \A n \in phone' : n.id # "summary" => n \in sync.answer.reminders
      BY <1>1, <1>9 DEF RoundPhase
    <3>3. ASSUME NEW r \in sync.answer.reminders, r.at > now'
          PROVE  \E n \in phone' : n.id = r.id
      <4>1. r.id \in Tasks /\ r.at \in Nat
        BY <3>1 DEF Moment
      <4>2. PICK n \in phone : n.id = r.id
        BY <1>1, <1>2, <1>9, <3>3, <4>1 DEF RoundPhase
      <4>3. n = r
        BY <1>9, <3>1, <4>1, <4>2, NotATask DEF RoundPhase
      <4> QED
        BY <1>1, <3>3, <4>2, <4>3
    <3> QED
      BY <3>2, <3>3
  <2>3. sync.pc = "scheduled" => HoldsSummary(sync.entry)'
    <3> PICK e \in Entry \cup {None} : e = sync.entry
      BY <1>2 DEF SyncInv
    <3>1. HoldsSummary(e) => HoldsSummary(e)'
      BY <1>1, <1>2, HoldsLater
    <3>2. HoldsSummary(e)' => HoldsSummary(sync.entry)'
      BY <1>1 DEF HoldsSummary, Rings, HasOpenTasks
    <3> QED
      BY <1>9, <3>1, <3>2 DEF RoundPhase
  <2> QED
    BY <1>1, <1>9, <2>1, <2>2, <2>3 DEF RoundPhase
<1>10. RoundPart'
  <2>1. sync.alone /\ sync.pc # "idle" => RoundPhase'
    BY <1>2, <1>9 DEF PhoneInv, RoundPart, SyncInv
  <2> QED
    BY <1>1, <2>1 DEF PhoneInv, RoundPart, Answered
<1>11. OffPart'
  BY <1>1 DEF PhoneInv, OffPart, AllIdle
<1> QED
  BY <1>3, <1>8, <1>10, <1>11 DEF PhoneInv

\* At first nothing is pending, and nothing written down.
LEMMA PhoneInit == Init => PhoneInv
<1> SUFFICES ASSUME Init PROVE PhoneInv
  OBVIOUS
<1>1. /\ phone = {} /\ sync.pc = "idle" /\ summary = None /\ scheduled = Nothing
      /\ \A h \in Handlers : handler[h].pc = "idle"
  BY IdleOrFresh DEF Init, IdleHandler
<1>2. Matches
  BY <1>1 DEF Matches, SummaryMatches, HoldsSummary, Rings, TaskMatches, Nothing
<1> QED
  BY <1>1, <1>2 DEF PhoneInv, AheadPart, HandlersPart, HandlerPhase, RoundPart, OffPart, Answered

\* Every step keeps the phone and the records in step.
LEMMA PhoneStep ==
    ASSUME TypeInv, PhoneInv, [Next]_vars
    PROVE  PhoneInv'
<1>1. CASE \/ Deliver \/ Refuse \/ OtherDevice \/ Disconnect \/ Connect \/ Resume \/ Revoke
           \/ UNCHANGED vars
  <2>1. UNCHANGED <<phone, enabled, scheduled, summary, sync, handler, now, raced>>
    BY <1>1 DEF Deliver, Refuse, OtherDevice, Disconnect, Connect, Resume, Revoke, vars, world,
                records, ghosts
  <2> QED
    BY <2>1, PhoneSame
<1>2. CASE SyncStart \/ Sync
  BY <1>2, PhoneOfEarlySync, PhoneOfCompute, PhoneOfCancel, PhoneOfSchedule, PhoneOfRecord DEF Sync
<1>3. ASSUME NEW h \in Handlers, Write(h) \/ Handle(h) \/ Disable(h) \/ Enable(h)
      PROVE  PhoneInv'
  BY <1>3, PhoneOfWrite, PhoneOfHandle, PhoneOfSwitch
<1>4. CASE Kill \/ PluginFails \/ Tick
  BY <1>4, PhoneOfFailures, PhoneOfTick
<1> QED
  BY <1>1, <1>2, <1>3, <1>4 DEF Next

\* The types, and the phone ahead of the records by what a handler or a sync holds.
LEMMA PhoneIsInvariant == Spec => [](TypeInv /\ PhoneInv)
<1>1. TypeInv /\ [Next]_vars => TypeInv'
  BY WorldStep, RecordsStep, SyncStep, HandlersStep, GhostsStep DEF TypeInv
<1>2. TypeInv /\ PhoneInv /\ [Next]_vars => (TypeInv /\ PhoneInv)'
  BY <1>1, PhoneStep
<1>3. Init => TypeInv /\ PhoneInv
  BY TypeInit, PhoneInit
<1> QED
  BY <1>2, <1>3, PTL DEF Spec

\* Between its syncs and its handlers, if none overlapped another or was cut short since
\* the last sync: the phone shows what the page has written down, no more and no less.
THEOREM PhoneFollowsRecords == Spec => []PhoneMatchesRecords
<1>1. TypeInv /\ PhoneInv => PhoneMatchesRecords
  <2> SUFFICES ASSUME TypeInv, PhoneInv, Settled
               PROVE  phone = {n \in TaskNotifications(scheduled) : n.at > now}
                        \cup (IF summary # None /\ HasOpenTasks(summary) /\ summary.summary.at > now
                              THEN {[id |-> "summary", at |-> summary.summary.at]} ELSE {})
    BY DEF PhoneMatchesRecords
  <2>1. SummaryMatches /\ \A t \in Tasks : TaskMatches(t)
    BY DEF Settled, Idle, Busy, PhoneInv, HandlersPart, Early, AllIdle, Matches
  <2>2. AheadPart /\ phone \subseteq Notification
    BY DEF PhoneInv, TypeInv, RecordsInv
  <2> DEFINE T == {n \in TaskNotifications(scheduled) : n.at > now}
             m == [id |-> "summary", at |-> summary.summary.at]
             S == IF Rings(summary) /\ summary.summary.at > now THEN {m} ELSE {}
  <2>3. \A n \in T : /\ n.id \in Tasks /\ n.at = scheduled[n.id] /\ n.at # None /\ n.at > now
                     /\ n = [id |-> n.id, at |-> n.at]
    BY DEF TaskNotifications
  <2>4. \A t \in Tasks : scheduled[t] # None /\ scheduled[t] > now =>
                            [id |-> t, at |-> scheduled[t]] \in T
    BY DEF TaskNotifications
  <2>5. m.id = "summary" /\ m.at = summary.summary.at
    OBVIOUS
  <2>6. \A n \in phone : n.id \in Ids /\ n.at \in Moment /\ n = [id |-> n.id, at |-> n.at]
    BY <2>2 DEF Notification, Ids
  <2> HIDE DEF T
  <2>7. ASSUME NEW n \in phone PROVE n \in T \cup S
    <3>1. CASE n.id \in Tasks
      <4>1. n.at = scheduled[n.id] /\ n.at > now /\ n.at # None
        BY <2>1, <2>2, <2>6, <3>1, NoneIsNone DEF TaskMatches, AheadPart
      <4> QED
        BY <2>4, <2>6, <3>1, <4>1
    <3>2. CASE n.id = "summary"
      <4>1. Rings(summary) /\ n.at = summary.summary.at /\ n.at > now
        BY <2>1, <2>2, <3>2 DEF SummaryMatches, HoldsSummary, AheadPart
      <4> QED
        BY <2>6, <3>2, <4>1
    <3> QED
      BY <2>6, <3>1, <3>2 DEF Ids
  <2>8. ASSUME NEW n \in T PROVE n \in phone
    <3>1. PICK p \in phone : p.id = n.id
      BY <2>1, <2>3 DEF TaskMatches
    <3>2. p.at = n.at
      BY <2>1, <2>3, <3>1 DEF TaskMatches
    <3> QED
      BY <2>3, <2>6, <3>1, <3>2
  <2>9. ASSUME NEW n \in S PROVE n \in phone
    <3>1. Rings(summary) /\ summary.summary.at > now /\ n = m
      BY <2>9
    <3>2. PICK p \in phone : p.id = "summary"
      BY <2>1, <3>1 DEF SummaryMatches, HoldsSummary
    <3>3. p.at = summary.summary.at
      BY <2>1, <3>2 DEF SummaryMatches, HoldsSummary
    <3> QED
      BY <2>6, <3>1, <3>2, <3>3
  <2>10. phone = T \cup S
    BY <2>7, <2>8, <2>9
  <2> QED
    BY <2>10 DEF T, Rings
<1> QED
  BY <1>1, PhoneIsInvariant, PTL

\* Turned off, once the handler that cancels has ended: nothing is left to ring.
THEOREM TurnedOffIsQuiet == Spec => []OffIsQuiet
<1>1. TypeInv /\ PhoneInv => OffIsQuiet
  BY DEF OffIsQuiet, Settled, Idle, Busy, PhoneInv, OffPart, AllIdle
<1> QED
  BY <1>1, PhoneIsInvariant, PTL

-----------------------------------------------------------------------------
(* What was checked off *)

\* Whose handler has still to suppress the reminder.
Hushes(c, h) ==
    /\ handler[h].pc \in {"note", "cancelled"} /\ c.id \in handler[h].ids
    /\ handler[h].kind \in {"check", "delete", "deleteList"}
InProgress(c) == \E h \in Handlers : Hushes(c, h)

\* The server does not return the occurrence any more.
Gone(c) ==
    \/ server[c.id].deleted
    \/ server[c.id].done /\ (c.at = Due[c.id] \/ c.id \notin Recurring)
Over(c) == c.at <= now \/ now - c.since > TTL
Kept(c) ==
    /\ suppressed[c.id] # None /\ suppressed[c.id].at = c.at
    /\ suppressed[c.id].since >= c.since

\* Nothing on its way to the server can make it return the occurrence again.
OccurrencePart(c) ==
    /\ ~Unchecks(c.id) /\ c.since <= now
    /\ \/ c.at = Due[c.id]
       \/ c.at = Due[c.id] + 1 /\ (server[c.id].done \/ server[c.id].deleted)

\* Either the handler that suppresses it runs, and knows its moment, or it is
\* suppressed, unless there is no need to.
SuppressedPart(c) ==
    \/ Gone(c) \/ Over(c) \/ Kept(c)
    \/ \E h \in Handlers :
         /\ Hushes(c, h)
         /\ handler[h].pc = "note" => sync.pc = "scheduled" \/ scheduled[c.id] = c.at
         /\ handler[h].pc = "cancelled" => handler[h].snap[c.id] = c.at

\* The records, and what a handler holds of them, do not have it any more.
RecordedPart(c) ==
    /\ scheduled[c.id] = c.at => Over(c) \/ InProgress(c)
    /\ scheduled[c.id] \notin {None, c.at} => Gone(c) \/ Over(c)
    /\ \A h \in Handlers : handler[h].pc = "cancelled" =>
         /\ handler[h].snap[c.id] = c.at => Over(c) \/ c.id \in handler[h].ids
         /\ handler[h].snap[c.id] \notin {None, c.at} => Gone(c) \/ Over(c)

\* A sync returns it only while it is suppressed, and does not schedule it.
AnsweredPart(c) ==
    sync.pc \in Answered =>
        /\ \A r \in sync.answer.reminders : r.id = c.id /\ r.at # c.at => Gone(c)
        /\ (\E r \in sync.answer.reminders : r.id = c.id /\ r.at = c.at) =>
              Over(c) \/ InProgress(c) \/ (sync.pc = "answer" /\ Kept(c))
        /\ sync.pc = "answer" /\ (\A r \in sync.answer.reminders : r.id = c.id => r.at # c.at) =>
              Gone(c) \/ Over(c)

CheckedPart(c) == OccurrencePart(c) /\ SuppressedPart(c) /\ RecordedPart(c) /\ AnsweredPart(c)

\* Preferences are not queued; while reminders are off nothing is counted on.
PrefsPart ==
    /\ \A i \in DOMAIN outgoing : outgoing[i].kind \in {"check", "uncheck", "delete", "deleteList"}
    /\ ~prefs.reminders => checked = {}

\* Handlers that would undo a suppression leave nothing counted on, or are about other tasks.
UndoPart ==
    \A h \in Handlers : handler[h].pc # "idle" =>
        /\ handler[h].pc \in {"disable", "disabled"} \/ handler[h].kind = "remindersOff" =>
              checked = {}
        /\ handler[h].kind = "uncheck" => \A c \in checked : c.id \notin handler[h].ids
        /\ handler[h].kind # "uncheck" =>
              \A c \in checked : \A g \in Handlers \ {h} : ~Hushes(c, g)

CheckedInv == PrefsPart /\ UndoPart /\ \A c \in checked : CheckedPart(c)

\* A step that leaves an occurrence's records as they are keeps what is known of it: the
\* handlers that move have nothing to do with it, and the sync goes on or is over.
LEMMA CheckedKept ==
    ASSUME NEW c, CheckedPart(c), OccurrencePart(c)',
           Gone(c) => Gone(c)', Over(c) => Over(c)',
           suppressed'[c.id] = suppressed[c.id], scheduled'[c.id] = scheduled[c.id],
           \A g \in Handlers :
              \/ handler'[g] = handler[g]
              \/ ~Hushes(c, g) /\ ~Hushes(c, g)' /\ handler'[g].pc # "cancelled",
           \/ sync'.pc = sync.pc /\ sync'.answer = sync.answer
           \/ sync'.pc \notin Answered /\ (sync.pc # "scheduled" \/ ~InProgress(c))
    PROVE  CheckedPart(c)'
<1>1. ASSUME NEW g \in Handlers, handler'[g] = handler[g] PROVE Hushes(c, g)' = Hushes(c, g)
  BY <1>1 DEF Hushes
<1>2. InProgress(c)' = InProgress(c)
  BY <1>1 DEF InProgress
<1>3. Kept(c)' = Kept(c)
  BY DEF Kept
<1>4. SuppressedPart(c)'
  <2>1. CASE Gone(c) \/ Over(c) \/ Kept(c)
    BY <1>3, <2>1 DEF SuppressedPart
  <2>2. CASE ~(Gone(c) \/ Over(c) \/ Kept(c))
    <3>1. PICK h \in Handlers :
            /\ Hushes(c, h)
            /\ handler[h].pc = "note" => sync.pc = "scheduled" \/ scheduled[c.id] = c.at
            /\ handler[h].pc = "cancelled" => handler[h].snap[c.id] = c.at
      BY <2>2 DEF CheckedPart, SuppressedPart
    <3>2. handler'[h] = handler[h]
      BY <3>1
    <3>3. Hushes(c, h)'
      BY <1>1, <3>1, <3>2
    <3>4. sync.pc = "scheduled" => sync'.pc = "scheduled"
      BY <3>1 DEF InProgress
    <3> QED
      BY <3>1, <3>2, <3>3, <3>4 DEF SuppressedPart
  <2> QED
    BY <2>1, <2>2
<1>5. RecordedPart(c)'
  BY <1>2 DEF CheckedPart, RecordedPart
<1>6. AnsweredPart(c)'
  BY <1>2, <1>3 DEF CheckedPart, AnsweredPart, Answered
<1> QED
  BY <1>4, <1>5, <1>6 DEF CheckedPart

\* ... and the handlers go on with what they are about, or end.
LEMMA UndoKept ==
    ASSUME UndoPart, checked' \subseteq checked,
           \A g \in Handlers : handler'[g].pc # "idle" =>
              /\ handler[g].pc # "idle"
              /\ handler'[g].kind = handler[g].kind /\ handler'[g].ids = handler[g].ids
              /\ handler'[g].pc \in {"disable", "disabled"} =>
                    handler[g].pc \in {"disable", "disabled"}
              /\ \A c \in checked : Hushes(c, g)' => Hushes(c, g)
    PROVE  UndoPart'
<1> SUFFICES ASSUME NEW h \in Handlers, handler'[h].pc # "idle"
             PROVE  /\ handler'[h].pc \in {"disable", "disabled"} \/ handler'[h].kind = "remindersOff"
                          => checked' = {}
                    /\ handler'[h].kind = "uncheck" =>
                          \A c \in checked' : c.id \notin handler'[h].ids
                    /\ handler'[h].kind # "uncheck" =>
                          \A c \in checked' : \A g \in Handlers \ {h} : ~Hushes(c, g)'
  BY DEF UndoPart
<1>1. /\ handler'[h].pc \in {"disable", "disabled"} \/ handler'[h].kind = "remindersOff"
            => checked = {}
      /\ handler'[h].kind = "uncheck" => \A c \in checked : c.id \notin handler'[h].ids
      /\ handler'[h].kind # "uncheck" => \A c \in checked : \A g \in Handlers \ {h} : ~Hushes(c, g)
  BY DEF UndoPart
<1>2. ASSUME NEW c \in checked', NEW g \in Handlers, Hushes(c, g)' PROVE Hushes(c, g)
  <2>1. handler'[g].pc # "idle"
    BY <1>2 DEF Hushes
  <2> QED
    BY <1>2, <2>1
<1> QED
  BY <1>1, <1>2

\* What the server has, the queue and the time are as they were.
LEMMA OccurrenceSame ==
    ASSUME NEW c, UNCHANGED <<server, outgoing, now>>
    PROVE  OccurrencePart(c)' = OccurrencePart(c) /\ Gone(c)' = Gone(c) /\ Over(c)' = Over(c)
BY DEF OccurrencePart, Gone, Over, Unchecks

\* A step that changes nothing but what an early sync holds, the clock of the page or the
\* connection.
LEMMA CheckedSame ==
    ASSUME TypeInv, CheckedInv, checked' \subseteq checked,
           UNCHANGED <<server, prefs, outgoing, now, suppressed, scheduled, handler>>,
           \/ sync'.pc = sync.pc /\ sync'.answer = sync.answer
           \/ sync'.pc \notin Answered /\ sync.pc # "scheduled"
    PROVE  CheckedInv'
<1>1. UndoPart'
  <2>1. \A g \in Handlers, c \in checked : Hushes(c, g)' = Hushes(c, g)
    BY DEF Hushes
  <2> QED
    BY <2>1, UndoKept DEF CheckedInv
<1>2. PrefsPart'
  BY DEF CheckedInv, PrefsPart
<1>3. ASSUME NEW c \in checked' PROVE CheckedPart(c)'
  <2>1. CheckedPart(c) /\ OccurrencePart(c)'
    BY <1>3, OccurrenceSame DEF CheckedInv, CheckedPart
  <2> QED
    BY <2>1, OccurrenceSame, CheckedKept
<1> QED
  BY <1>1, <1>2, <1>3 DEF CheckedInv

\* What the server answers about an occurrence: another moment, or none, only once the
\* occurrence is over.
LEMMA UpcomingOf ==
    ASSUME TypeInv, NEW c \in [id : Tasks, at : Moment, since : Nat], OccurrencePart(c),
           prefs.reminders
    PROVE  /\ \A r \in Upcoming.reminders : r.id = c.id /\ r.at # c.at => Gone(c)
           /\ (\E r \in Upcoming.reminders : r.id = c.id /\ r.at = c.at) => ~Gone(c)
           /\ (\A r \in Upcoming.reminders : r.id = c.id => r.at # c.at) => Gone(c) \/ Over(c)
<1>1. /\ Due \in [Tasks -> Nat] /\ now \in Nat /\ c.id \in Tasks
      /\ server \in [Tasks -> [done : BOOLEAN, deleted : BOOLEAN]]
  BY LocalRemindersAssumption DEF TypeInv, WorldInv
<1> DEFINE open == /\ ~server[c.id].deleted /\ Returned(c.id) > now
                   /\ server[c.id].done => c.id \in Recurring
<1>2. \A r \in Upcoming.reminders : r.id = c.id => r.at = Returned(c.id) /\ open
  BY DEF Upcoming, upcomingReminders
<1>3. open => \E r \in Upcoming.reminders : r.id = c.id /\ r.at = Returned(c.id)
  <2> DEFINE r == [id |-> c.id, at |-> Returned(c.id)]
  <2>1. open => r \in upcomingReminders
    BY <1>1 DEF upcomingReminders
  <2>2. r.id = c.id /\ r.at = Returned(c.id)
    OBVIOUS
  <2> HIDE DEF r, open
  <2> QED
    BY <2>1, <2>2 DEF Upcoming
<1>4. /\ open => (Gone(c) <=> Returned(c.id) # c.at)
      /\ ~open => Gone(c) \/ c.at <= now
  BY <1>1 DEF Gone, Returned, OccurrencePart
<1> HIDE DEF open
<1> QED
  BY <1>2, <1>3, <1>4 DEF Over

\* A sync is answered an occurrence only while it is suppressed, or about to be.
LEMMA CheckedOfFetch ==
    ASSUME TypeInv, CheckedInv, SyncFetch
    PROVE  CheckedInv'
<1>1. /\ sync.pc = "fetch" /\ checked' = checked
      /\ UNCHANGED <<server, prefs, outgoing, now, suppressed, scheduled, handler>>
  BY DEF SyncFetch, world, records
<1>2. SyncInv /\ GhostsInv
  BY DEF TypeInv
<1>3. CASE ~net
  BY <1>1, <1>3, IdleOrFresh, CheckedSame DEF SyncFetch, SyncStops, Answered
<1>4. CASE net
  <2>1. sync'.pc = "answer" /\ sync'.answer = Upcoming
    BY <1>2, <1>4 DEF SyncFetch, SyncInv
  <2>2. \A g \in Handlers, c \in checked : Hushes(c, g)' = Hushes(c, g)
    BY <1>1 DEF Hushes
  <2>3. UndoPart' /\ PrefsPart'
    BY <1>1, <2>2, UndoKept DEF CheckedInv, PrefsPart
  <2>4. ASSUME NEW c \in checked PROVE CheckedPart(c)'
    <3>1. CheckedPart(c) /\ c \in [id : Tasks, at : Moment, since : Nat] /\ prefs.reminders
      BY <1>2, <2>4 DEF CheckedInv, PrefsPart, GhostsInv
    <3>2. /\ OccurrencePart(c)' = OccurrencePart(c) /\ Gone(c)' = Gone(c) /\ Over(c)' = Over(c)
          /\ Kept(c)' = Kept(c)
      BY <1>1, OccurrenceSame DEF Kept
    <3>3. InProgress(c)' = InProgress(c)
      BY <2>2, <2>4 DEF InProgress
    <3>4. SuppressedPart(c)'
      BY <1>1, <2>1, <2>2, <2>4, <3>1, <3>2 DEF CheckedPart, SuppressedPart
    <3>5. RecordedPart(c)'
      BY <1>1, <3>1, <3>2, <3>3 DEF CheckedPart, RecordedPart
    <3>6. AnsweredPart(c)'
      <4>1. Gone(c) \/ Over(c) \/ Kept(c) \/ InProgress(c)
        BY <3>1 DEF CheckedPart, SuppressedPart, InProgress
      <4>2. /\ \A r \in Upcoming.reminders : r.id = c.id /\ r.at # c.at => Gone(c)
            /\ (\E r \in Upcoming.reminders : r.id = c.id /\ r.at = c.at) => ~Gone(c)
            /\ (\A r \in Upcoming.reminders : r.id = c.id => r.at # c.at) => Gone(c) \/ Over(c)
        BY <3>1, UpcomingOf DEF CheckedPart
      <4>3. \A A : A = Upcoming.reminders =>
              /\ \A r \in A : r.id = c.id /\ r.at # c.at => Gone(c)
              /\ (\E r \in A : r.id = c.id /\ r.at = c.at) => ~Gone(c)
              /\ (\A r \in A : r.id = c.id => r.at # c.at) => Gone(c) \/ Over(c)
        BY <4>2
      <4>4. sync'.answer.reminders = Upcoming.reminders
        BY <2>1
      <4> QED
        BY <2>1, <3>2, <3>3, <4>1, <4>3, <4>4 DEF AnsweredPart
    <3> QED
      BY <3>1, <3>2, <3>4, <3>5, <3>6 DEF CheckedPart
  <2> QED
    BY <1>1, <2>3, <2>4 DEF CheckedInv
<1> QED
  BY <1>3, <1>4

\* The answer is pruned of what is suppressed, and the suppressions of what is not answered.
LEMMA CheckedOfCompute ==
    ASSUME TypeInv, CheckedInv, SyncCompute
    PROVE  CheckedInv'
<1> DEFINE kept == PrunedSuppressions(sync.answer)
<1>1. /\ sync.pc = "answer" /\ checked' = checked /\ suppressed' = kept
      /\ UNCHANGED <<server, prefs, outgoing, now, scheduled, handler>>
  BY DEF SyncCompute, world, ghosts
<1>2. SyncInv /\ GhostsInv /\ RecordsInv /\ now \in Nat /\ TTL \in Nat
  BY LocalRemindersAssumption DEF TypeInv, WorldInv
<1>3. sync'.pc = "pending" /\ sync'.answer.reminders = Wanted(sync.answer, kept)
  <2> DEFINE wanted == Wanted(sync.answer, kept)
             entry == SummaryEntry(sync.answer.summary)
             pending == {n.id : n \in phone}
             answer == [sync.answer EXCEPT !.reminders = wanted]
  <2>1. sync' = [sync EXCEPT !.pc = "pending", !.answer.reminders = wanted,
                             !.entry = entry, !.pending = pending]
    BY DEF SyncCompute
  <2>2. sync.answer \in Answer
    BY <1>1, <1>2 DEF SyncInv, Answered
  <2> HIDE DEF wanted, entry, pending
  <2>3. sync'.pc = "pending" /\ sync'.answer.reminders = wanted
    BY <1>2, <2>1, <2>2 DEF SyncInv, Answer
  <2> QED
    BY <2>3 DEF wanted
<1>4. \A g \in Handlers, c \in checked : Hushes(c, g)' = Hushes(c, g)
  BY <1>1 DEF Hushes
<1>5. UndoPart' /\ PrefsPart'
  BY <1>1, <1>4, UndoKept DEF CheckedInv, PrefsPart
<1>6. ASSUME NEW c \in checked PROVE CheckedPart(c)'
  <2>1. CheckedPart(c) /\ c \in [id : Tasks, at : Moment, since : Nat]
    BY <1>2, <1>6 DEF CheckedInv, GhostsInv
  <2>2. OccurrencePart(c)' = OccurrencePart(c) /\ Gone(c)' = Gone(c) /\ Over(c)' = Over(c)
    BY <1>1, OccurrenceSame
  <2>3. InProgress(c)' = InProgress(c)
    BY <1>4, <1>6 DEF InProgress
  <2>4. ASSUME Kept(c), ~Over(c), NEW r \in sync.answer.reminders, r.id = c.id, r.at = c.at
        PROVE  kept[c.id] = suppressed[c.id]
    <3>1. suppressed[c.id] \in [at : Moment, since : Nat]
      BY <1>2, <2>1, <2>4 DEF Kept, RecordsInv
    <3>2. ~(now - suppressed[c.id].since > TTL)
      BY <1>2, <2>1, <2>4, <3>1 DEF Kept, Over
    <3>3. IsSuppressed(r, suppressed)
      BY <2>4 DEF Kept, IsSuppressed
    <3> QED
      BY <2>1, <2>4, <3>2, <3>3 DEF PrunedSuppressions, Kept
  <2>5. SuppressedPart(c)'
    <3>1. Kept(c) /\ ~Over(c) /\ ~Gone(c) => Kept(c)'
      BY <1>1, <2>1, <2>4 DEF Kept, CheckedPart, AnsweredPart, Answered
    <3> QED
      BY <1>1, <1>3, <1>4, <1>6, <2>1, <2>2, <3>1 DEF CheckedPart, SuppressedPart
  <2>6. RecordedPart(c)'
    BY <1>1, <2>1, <2>2, <2>3 DEF CheckedPart, RecordedPart
  <2>7. AnsweredPart(c)'
    <3>1. \A r \in sync'.answer.reminders :
            r \in sync.answer.reminders /\ ~IsSuppressed(r, kept)
      BY <1>3 DEF Wanted
    <3>2. ASSUME NEW r \in sync'.answer.reminders, r.id = c.id, r.at = c.at
          PROVE  Over(c) \/ InProgress(c)
      <4>1. Kept(c) /\ ~Over(c) => IsSuppressed(r, kept)
        BY <2>4, <3>1, <3>2 DEF Kept, IsSuppressed
      <4> QED
        BY <1>1, <2>1, <3>1, <3>2, <4>1 DEF CheckedPart, AnsweredPart, Answered
    <3>3. \A r \in sync'.answer.reminders : r.id = c.id /\ r.at # c.at => Gone(c)
      BY <1>1, <2>1, <3>1 DEF CheckedPart, AnsweredPart, Answered
    <3> QED
      BY <1>3, <2>2, <2>3, <3>2, <3>3 DEF AnsweredPart
  <2> QED
    BY <2>1, <2>2, <2>5, <2>6, <2>7 DEF CheckedPart
<1> QED
  BY <1>1, <1>5, <1>6 DEF CheckedInv

\* Cancelling what is pending changes nothing of the records.
LEMMA CheckedOfCancel ==
    ASSUME TypeInv, CheckedInv, SyncCancel
    PROVE  CheckedInv'
<1>1. /\ sync.pc = "pending" /\ checked' = checked
      /\ UNCHANGED <<server, prefs, outgoing, now, scheduled, suppressed, handler>>
  BY DEF SyncCancel, world, records, ghosts
<1>2. sync'.pc = "cancelled" /\ sync'.answer = sync.answer
  BY DEF SyncCancel, TypeInv, SyncInv
<1>3. \A g \in Handlers, c \in checked : Hushes(c, g)' = Hushes(c, g)
  BY <1>1 DEF Hushes
<1>4. UndoPart' /\ PrefsPart'
  BY <1>1, <1>3, UndoKept DEF CheckedInv, PrefsPart
<1>5. ASSUME NEW c \in checked PROVE CheckedPart(c)'
  <2>1. CheckedPart(c)
    BY <1>5 DEF CheckedInv
  <2>2. OccurrencePart(c)' = OccurrencePart(c) /\ Gone(c)' = Gone(c) /\ Over(c)' = Over(c)
    BY <1>1, OccurrenceSame
  <2>3. InProgress(c)' = InProgress(c) /\ Kept(c)' = Kept(c)
    BY <1>1, <1>3, <1>5 DEF InProgress, Kept
  <2>4. SuppressedPart(c)'
    BY <1>1, <1>2, <1>3, <1>5, <2>1, <2>2, <2>3 DEF CheckedPart, SuppressedPart
  <2>5. RecordedPart(c)'
    BY <1>1, <2>1, <2>2, <2>3 DEF CheckedPart, RecordedPart
  <2>6. AnsweredPart(c)'
    BY <1>1, <1>2, <2>1, <2>2, <2>3 DEF CheckedPart, AnsweredPart, Answered
  <2> QED
    BY <2>1, <2>2, <2>4, <2>5, <2>6 DEF CheckedPart
<1> QED
  BY <1>1, <1>4, <1>5 DEF CheckedInv

\* Once forgotten, nothing is written down until the sync ends.
LEMMA CheckedOfSchedule ==
    ASSUME TypeInv, CheckedInv, SyncSchedule
    PROVE  CheckedInv'
<1>1. /\ sync.pc = "cancelled" /\ checked' = checked /\ scheduled' = Nothing
      /\ UNCHANGED <<server, prefs, outgoing, now, suppressed, handler>>
  BY DEF SyncSchedule, world, ghosts
<1>2. /\ sync'.pc = "scheduled" /\ sync'.answer = sync.answer
      /\ checked \subseteq [id : Tasks, at : Moment, since : Nat]
  BY DEF SyncSchedule, TypeInv, SyncInv, GhostsInv
<1>3. \A g \in Handlers, c \in checked : Hushes(c, g)' = Hushes(c, g)
  BY <1>1 DEF Hushes
<1>4. UndoPart' /\ PrefsPart'
  BY <1>1, <1>3, UndoKept DEF CheckedInv, PrefsPart
<1>5. ASSUME NEW c \in checked PROVE CheckedPart(c)'
  <2>1. CheckedPart(c) /\ c.id \in Tasks /\ c.at # None
    BY <1>2, <1>5, NoneIsNone DEF CheckedInv
  <2>2. OccurrencePart(c)' = OccurrencePart(c) /\ Gone(c)' = Gone(c) /\ Over(c)' = Over(c)
    BY <1>1, OccurrenceSame
  <2>3. InProgress(c)' = InProgress(c) /\ Kept(c)' = Kept(c)
    BY <1>1, <1>3, <1>5 DEF InProgress, Kept
  <2>4. SuppressedPart(c)'
    BY <1>1, <1>2, <1>3, <1>5, <2>1, <2>2, <2>3 DEF CheckedPart, SuppressedPart
  <2>5. RecordedPart(c)'
    <3>1. scheduled'[c.id] = None
      BY <1>1, <2>1 DEF Nothing
    <3> QED
      BY <1>1, <2>1, <2>2, <2>3, <3>1 DEF CheckedPart, RecordedPart
  <2>6. AnsweredPart(c)'
    BY <1>1, <1>2, <2>1, <2>2, <2>3 DEF CheckedPart, AnsweredPart, Answered
  <2> QED
    BY <2>1, <2>2, <2>4, <2>5, <2>6 DEF CheckedPart
<1> QED
  BY <1>1, <1>4, <1>5 DEF CheckedInv

\* A sync that nothing overlapped writes down what it was answered, and did not prune.
LEMMA CheckedOfRecord ==
    ASSUME TypeInv, PhoneInv, CheckedInv, SyncRecord
    PROVE  CheckedInv'
<1> DEFINE answer == sync.answer.reminders
<1>1. /\ sync.pc = "scheduled" /\ checked' = IF sync.alone THEN checked ELSE {}
      /\ UNCHANGED <<server, prefs, outgoing, now, suppressed, handler>>
      /\ scheduled' = [t \in Tasks |-> IF \E r \in answer : r.id = t
                                       THEN (CHOOSE r \in answer : r.id = t).at ELSE None]
  BY DEF SyncRecord, world
<1>2. sync'.pc \notin Answered /\ checked \subseteq [id : Tasks, at : Moment, since : Nat]
  BY IdleOrFresh DEF SyncRecord, SyncNext, TypeInv, GhostsInv, Answered
<1>3. \A g \in Handlers, c \in checked : Hushes(c, g)' = Hushes(c, g)
  BY <1>1 DEF Hushes
<1>4. UndoPart' /\ PrefsPart'
  BY <1>1, <1>3, UndoKept DEF CheckedInv, PrefsPart
<1>5. ASSUME NEW c \in checked' PROVE CheckedPart(c)'
  <2>1. sync.alone /\ c \in checked /\ CheckedPart(c) /\ c.id \in Tasks
    BY <1>1, <1>2, <1>5 DEF CheckedInv
  <2>2. AllIdle
    BY <1>1, <2>1 DEF PhoneInv, RoundPart, RoundPhase
  <2>3. ~InProgress(c) /\ ~InProgress(c)'
    BY <1>1, <2>2 DEF AllIdle, InProgress, Hushes
  <2>4. /\ OccurrencePart(c)' = OccurrencePart(c) /\ Gone(c)' = Gone(c) /\ Over(c)' = Over(c)
        /\ Kept(c)' = Kept(c)
    BY <1>1, OccurrenceSame DEF Kept
  <2>5. SuppressedPart(c)'
    BY <2>1, <2>3, <2>4 DEF CheckedPart, SuppressedPart, InProgress
  <2>6. RecordedPart(c)'
    <3>1. /\ \A r \in answer : r.id = c.id /\ r.at # c.at => Gone(c)
          /\ (\E r \in answer : r.id = c.id /\ r.at = c.at) => Over(c)
      BY <1>1, <2>1, <2>3 DEF CheckedPart, AnsweredPart, Answered
    <3>2. scheduled'[c.id] # None =>
            \E r \in answer : r.id = c.id /\ r.at = scheduled'[c.id]
      BY <1>1, <2>1
    <3>3. \A h \in Handlers : handler'[h].pc # "cancelled"
      BY <1>1, <2>2 DEF AllIdle
    <3>4. scheduled'[c.id] \notin {None, c.at} => Gone(c)
      BY <3>1, <3>2
    <3>5. scheduled'[c.id] = c.at => Over(c)
      BY <1>2, <2>1, <3>1, <3>2, NoneIsNone
    <3> QED
      BY <2>4, <3>3, <3>4, <3>5 DEF RecordedPart
  <2>7. AnsweredPart(c)'
    BY <1>2 DEF AnsweredPart, Answered
  <2> QED
    BY <2>1, <2>4, <2>5, <2>6, <2>7 DEF CheckedPart
<1> QED
  BY <1>4, <1>5 DEF CheckedInv

\* What a step of a handler that is in progress leaves alone, and whom it still counts on.
LEMMA HandleLeaves ==
    ASSUME TypeInv, CheckedInv, NEW h \in Handlers, Handle(h)
    PROVE  /\ UNCHANGED <<server, prefs, outgoing, now>>
           /\ sync'.pc = sync.pc /\ sync'.answer = sync.answer
           /\ checked' = {c \in checked : Shared(h) => c.id \notin handler[h].ids}
           /\ handler[h].pc # "idle" /\ PrefsPart'
<1>1. /\ UNCHANGED <<server, prefs, outgoing, now>> /\ sync' = Overlapped
      /\ checked' = {c \in checked : Shared(h) => c.id \notin handler[h].ids}
      /\ handler[h].pc # "idle"
  BY DEF Handle, Suppress, Suppressed, Restore, Restored, PreferenceOff, PreferenceRecorded, Other,
         DisableCancel, DisableRecorded, Disturb, world
<1>2. sync'.pc = sync.pc /\ sync'.answer = sync.answer
  BY <1>1 DEF Overlapped, TypeInv, SyncInv
<1>3. PrefsPart'
  BY <1>1 DEF CheckedInv, PrefsPart
<1> QED
  BY <1>1, <1>2, <1>3

\* A step of a handler that suppresses nothing, about other tasks.
LEMMA CheckedAside ==
    ASSUME TypeInv, CheckedInv, NEW h \in Handlers, Handle(h),
           handler[h].kind \notin {"check", "delete", "deleteList"},
           handler'[h].pc \notin {"cancelled", "disable", "disabled"},
           handler'[h].pc # "idle" =>
               handler'[h].kind = handler[h].kind /\ handler'[h].ids = handler[h].ids,
           \A c \in checked' : /\ suppressed'[c.id] = suppressed[c.id]
                               /\ scheduled'[c.id] = scheduled[c.id]
    PROVE  CheckedInv'
<1>1. /\ UNCHANGED <<server, prefs, outgoing, now>>
      /\ sync'.pc = sync.pc /\ sync'.answer = sync.answer
      /\ checked' = {c \in checked : Shared(h) => c.id \notin handler[h].ids}
      /\ handler[h].pc # "idle" /\ PrefsPart'
  BY HandleLeaves
<1>2. \A g \in Handlers \ {h} : handler'[g] = handler[g]
  BY HandleIs
<1>3. \A c \in checked : ~Hushes(c, h) /\ ~Hushes(c, h)'
  BY DEF Hushes
<1>4. \A g \in Handlers, c \in checked : Hushes(c, g)' = Hushes(c, g)
  BY <1>2, <1>3 DEF Hushes
<1>5. UndoPart'
  BY <1>1, <1>2, <1>4, UndoKept DEF CheckedInv
<1>6. ASSUME NEW c \in checked' PROVE CheckedPart(c)'
  <2>1. c \in checked /\ CheckedPart(c) /\ OccurrencePart(c)'
    BY <1>1, <1>6, OccurrenceSame DEF CheckedInv, CheckedPart
  <2>2. (Gone(c) => Gone(c)') /\ (Over(c) => Over(c)')
    BY <1>1, OccurrenceSame
  <2>3. \A g \in Handlers :
              \/ handler'[g] = handler[g]
              \/ ~Hushes(c, g) /\ ~Hushes(c, g)' /\ handler'[g].pc # "cancelled"
    BY <1>2, <1>3, <2>1
  <2> QED
    BY <1>1, <2>1, <2>2, <2>3, CheckedKept
<1> QED
  BY <1>1, <1>5, <1>6 DEF CheckedInv

\* The handler that is to suppress takes what is written down with it.
LEMMA CheckedOfSuppress ==
    ASSUME TypeInv, CheckedInv, NEW h \in Handlers, Suppress(h)
    PROVE  CheckedInv'
<1> DEFINE ids == {t \in handler[h].ids : scheduled[t] # None}
<1>1. /\ handler[h].pc = "note" /\ handler[h].kind \in {"check", "delete", "deleteList"}
      /\ scheduled' = scheduled /\ suppressed' = suppressed /\ Handle(h)
      /\ IF ids = {} THEN MarkSummary(h, TRUE)
         ELSE handler' = [handler EXCEPT ![h].pc = "cancelled", ![h].snap = scheduled]
  BY DEF Suppress, Handle
<1>2. /\ UNCHANGED <<server, prefs, outgoing, now>>
      /\ sync'.pc = sync.pc /\ sync'.answer = sync.answer
      /\ checked' = {c \in checked : Shared(h) => c.id \notin handler[h].ids}
      /\ PrefsPart'
  BY <1>1, HandleLeaves
<1>3. /\ \A g \in Handlers \ {h} : handler'[g] = handler[g]
      /\ DOMAIN handler = Handlers /\ HandlerShape(handler[h])
  BY <1>1, HandleIs
<1>4. ASSUME NEW c \in checked'
      PROVE  /\ c \in checked /\ CheckedPart(c) /\ c.id \in Tasks /\ c.at # None
             /\ OccurrencePart(c)' = OccurrencePart(c) /\ Gone(c)' = Gone(c) /\ Over(c)' = Over(c)
             /\ Kept(c)' = Kept(c)
             /\ c.id \in handler[h].ids => sync.pc = "idle"
             /\ \A g \in Handlers \ {h} : ~Hushes(c, g) /\ ~Hushes(c, g)'
  <2>1. c \in checked /\ CheckedPart(c) /\ (c.id \in handler[h].ids => sync.pc = "idle")
    BY <1>2, <1>4 DEF CheckedInv, Shared
  <2>2. c.id \in Tasks /\ c.at # None
    BY <2>1, NoneIsNone DEF TypeInv, GhostsInv
  <2>3. /\ OccurrencePart(c)' = OccurrencePart(c) /\ Gone(c)' = Gone(c) /\ Over(c)' = Over(c)
        /\ Kept(c)' = Kept(c)
    BY <1>1, <1>2, OccurrenceSame DEF Kept
  <2>4. \A g \in Handlers \ {h} : ~Hushes(c, g)
    BY <1>1, <2>1 DEF CheckedInv, UndoPart
  <2>5. \A g \in Handlers \ {h} : ~Hushes(c, g)'
    BY <1>3, <2>4 DEF Hushes
  <2> QED
    BY <2>1, <2>2, <2>3, <2>4, <2>5
<1>5. CASE ids = {}
  <2>1. handler'[h].pc = "idle"
    BY <1>1, <1>3, <1>5 DEF MarkSummary, HandlerEnds, IdleHandler
  <2>2. \A g \in Handlers, c \in checked : Hushes(c, g)' => Hushes(c, g)
    BY <1>3, <2>1 DEF Hushes
  <2>3. UndoPart'
    BY <1>2, <1>3, <2>1, <2>2, UndoKept DEF CheckedInv
  <2>4. ASSUME NEW c \in checked' PROVE CheckedPart(c)'
    <3>1. c.id \in handler[h].ids => scheduled[c.id] = None
      BY <1>5
    <3>2. InProgress(c) => Hushes(c, h)
      BY <1>4, <2>4 DEF InProgress
    <3>3. Hushes(c, h) => c.id \in handler[h].ids
      BY DEF Hushes
    <3>4. SuppressedPart(c)'
      <4>1. Gone(c) \/ Over(c) \/ Kept(c)
        <5>1. ASSUME Hushes(c, h) PROVE sync.pc = "idle" /\ scheduled[c.id] # c.at
          BY <1>4, <2>4, <3>1, <3>3, <5>1
        <5> QED
          BY <1>1, <1>4, <2>4, <5>1 DEF CheckedPart, SuppressedPart
      <4> QED
        BY <1>4, <2>4, <4>1 DEF SuppressedPart
    <3>5. RecordedPart(c)'
      <4>1. scheduled'[c.id] = c.at => Over(c)
        BY <1>1, <1>4, <2>4, <3>1, <3>2, <3>3 DEF CheckedPart, RecordedPart
      <4>2. ASSUME NEW g \in Handlers, handler'[g].pc = "cancelled"
            PROVE  handler'[g] = handler[g]
        BY <1>3, <2>1, <4>2
      <4> QED
        BY <1>1, <1>4, <2>4, <4>1, <4>2 DEF CheckedPart, RecordedPart
    <3>6. AnsweredPart(c)'
      <4>1. sync.pc \in Answered => ~InProgress(c)
        BY <1>4, <2>4, <3>2, <3>3 DEF Answered
      <4> QED
        BY <1>2, <1>4, <2>4, <4>1 DEF CheckedPart, AnsweredPart
    <3> QED
      BY <1>4, <2>4, <3>4, <3>5, <3>6 DEF CheckedPart
  <2> QED
    BY <1>2, <2>3, <2>4 DEF CheckedInv
<1>6. CASE ids # {}
  <2>1. /\ handler'[h].pc = "cancelled" /\ handler'[h].snap = scheduled
        /\ handler'[h].ids = handler[h].ids /\ handler'[h].kind = handler[h].kind
    <3> DEFINE r == handler[h]
               to == [r EXCEPT !.pc = "cancelled", !.snap = scheduled]
    <3>1. to.pc = "cancelled" /\ to.snap = scheduled /\ to.ids = r.ids /\ to.kind = r.kind
      BY <1>3 DEF HandlerShape
    <3>2. handler' = [handler EXCEPT ![h] = to]
      BY <1>1, <1>3, <1>6
    <3> HIDE DEF to
    <3> QED
      BY <1>3, <3>1, <3>2
  <2>2. \A g \in Handlers, c \in checked : Hushes(c, g)' = Hushes(c, g)
    BY <1>1, <1>3, <2>1 DEF Hushes
  <2>3. UndoPart'
    BY <1>1, <1>2, <1>3, <2>1, <2>2, UndoKept DEF CheckedInv
  <2>4. ASSUME NEW c \in checked' PROVE CheckedPart(c)'
    <3>1. InProgress(c)' = InProgress(c)
      BY <1>4, <2>2, <2>4 DEF InProgress
    <3>2. SuppressedPart(c)'
      <4>1. CASE Gone(c) \/ Over(c) \/ Kept(c)
        BY <1>4, <2>4, <4>1 DEF SuppressedPart
      <4>2. CASE ~(Gone(c) \/ Over(c) \/ Kept(c))
        <5>1. Hushes(c, h) /\ (sync.pc = "scheduled" \/ scheduled[c.id] = c.at)
          BY <1>1, <1>4, <2>4, <4>2 DEF CheckedPart, SuppressedPart
        <5>2. c.id \in handler[h].ids
          BY <5>1 DEF Hushes
        <5>3. handler'[h].snap[c.id] = c.at
          BY <1>4, <2>1, <2>4, <5>1, <5>2
        <5> QED
          BY <1>4, <2>1, <2>2, <2>4, <5>1, <5>3 DEF SuppressedPart
      <4> QED
        BY <4>1, <4>2
    <3>3. RecordedPart(c)'
      <4>1. scheduled[c.id] = c.at => Over(c) \/ c.id \in handler[h].ids
        BY <1>4, <2>4 DEF CheckedPart, RecordedPart, InProgress, Hushes
      <4>2. scheduled[c.id] \notin {None, c.at} => Gone(c) \/ Over(c)
        BY <1>4, <2>4 DEF CheckedPart, RecordedPart
      <4>3. scheduled'[c.id] = c.at => Over(c)' \/ InProgress(c)'
        BY <1>1, <1>4, <2>4, <3>1 DEF CheckedPart, RecordedPart
      <4>4. ASSUME NEW g \in Handlers, handler'[g].pc = "cancelled"
            PROVE  /\ handler'[g].snap[c.id] = c.at => Over(c)' \/ c.id \in handler'[g].ids
                   /\ handler'[g].snap[c.id] \notin {None, c.at} => Gone(c)' \/ Over(c)'
        <5>1. CASE g = h
          BY <1>4, <2>1, <2>4, <4>1, <4>2, <5>1
        <5>2. CASE g # h
          BY <1>3, <1>4, <2>4, <4>4, <5>2 DEF CheckedPart, RecordedPart
        <5> QED
          BY <5>1, <5>2
      <4> QED
        BY <1>1, <1>4, <2>4, <4>2, <4>3, <4>4 DEF RecordedPart
    <3>4. AnsweredPart(c)'
      BY <1>2, <1>4, <2>4, <3>1 DEF CheckedPart, AnsweredPart
    <3> QED
      BY <1>4, <2>4, <3>2, <3>3, <3>4 DEF CheckedPart
  <2> QED
    BY <1>2, <2>3, <2>4 DEF CheckedInv
<1> QED
  BY <1>5, <1>6

\* ... and moves it to the suppressions.
LEMMA CheckedOfSuppressed ==
    ASSUME TypeInv, CheckedInv, NEW h \in Handlers, Suppressed(h)
    PROVE  CheckedInv'
<1> DEFINE snap == handler[h].snap
           ids == {t \in handler[h].ids : snap[t] # None}
<1>1. /\ handler[h].pc = "cancelled" /\ Handle(h) /\ MarkSummary(h, TRUE)
      /\ suppressed' = [t \in Tasks |-> IF t \in ids THEN Suppression(snap[t]) ELSE suppressed[t]]
      /\ scheduled' = [t \in Tasks |-> IF t \in ids THEN None ELSE snap[t]]
  BY DEF Suppressed, Handle
<1>2. /\ UNCHANGED <<server, prefs, outgoing, now>>
      /\ sync'.pc = sync.pc /\ sync'.answer = sync.answer
      /\ checked' = {c \in checked : Shared(h) => c.id \notin handler[h].ids}
      /\ PrefsPart'
  BY <1>1, HandleLeaves
<1>3. /\ \A g \in Handlers \ {h} : handler'[g] = handler[g]
      /\ DOMAIN handler = Handlers /\ HandlerShape(handler[h])
  BY <1>1, HandleIs
<1>4. handler'[h].pc = "idle"
  BY <1>1, <1>3 DEF MarkSummary, HandlerEnds, IdleHandler
<1>5. \A g \in Handlers, c \in checked : Hushes(c, g)' => Hushes(c, g)
  BY <1>3, <1>4 DEF Hushes
<1>6. UndoPart'
  BY <1>2, <1>3, <1>4, <1>5, UndoKept DEF CheckedInv
<1>7. ASSUME NEW c \in checked' PROVE CheckedPart(c)'
  <2>1. c \in checked /\ CheckedPart(c) /\ (c.id \in handler[h].ids => ~Shared(h))
    BY <1>2, <1>7 DEF CheckedInv
  <2>2. c.id \in Tasks /\ c.at \in Moment /\ c.at # None /\ now \in Nat
    BY <2>1, NoneIsNone, LocalRemindersAssumption DEF TypeInv, GhostsInv, WorldInv
  <2>3. OccurrencePart(c)' = OccurrencePart(c) /\ Gone(c)' = Gone(c) /\ Over(c)' = Over(c)
    BY <1>2, OccurrenceSame
  <2>4. /\ snap[c.id] = c.at => Over(c) \/ c.id \in handler[h].ids
        /\ snap[c.id] \notin {None, c.at} => Gone(c) \/ Over(c)
    BY <1>1, <2>1 DEF CheckedPart, RecordedPart
  <2>5. \A g \in Handlers \ {h} : Hushes(c, g)' = Hushes(c, g)
    BY <1>3 DEF Hushes
  <2>6. CASE c.id \in ids
    <3>1. sync.pc = "idle" /\ scheduled'[c.id] = None
      BY <1>1, <2>1, <2>2, <2>6 DEF Shared
    <3>2. SuppressedPart(c)'
      <4>1. CASE snap[c.id] = c.at
        <5>1. suppressed'[c.id] = [at |-> c.at, since |-> now]
          BY <1>1, <2>2, <2>6, <4>1 DEF Suppression
        <5>2. suppressed'[c.id] # None
          BY <2>2, <5>1, LocalRemindersAssumption
        <5>3. now >= c.since
          BY <2>1, <2>2 DEF CheckedPart, OccurrencePart, TypeInv, GhostsInv
        <5> QED
          BY <5>1, <5>2, <5>3 DEF SuppressedPart, Kept
      <4>2. CASE snap[c.id] # c.at
        BY <2>3, <2>4, <2>6, <4>2 DEF SuppressedPart
      <4> QED
        BY <4>1, <4>2
    <3>3. RecordedPart(c)'
      BY <1>3, <1>4, <2>1, <2>2, <2>3, <3>1 DEF CheckedPart, RecordedPart
    <3>4. AnsweredPart(c)'
      BY <1>2, <3>1 DEF AnsweredPart, Answered
    <3> QED
      BY <2>1, <2>3, <3>2, <3>3, <3>4 DEF CheckedPart
  <2>7. CASE c.id \notin ids
    <3>1. suppressed'[c.id] = suppressed[c.id] /\ scheduled'[c.id] = snap[c.id]
      BY <1>1, <2>2, <2>7
    <3>2. Kept(c)' = Kept(c)
      BY <3>1 DEF Kept
    <3>3. Hushes(c, h) => c.id \in handler[h].ids
      BY DEF Hushes
    <3>4. SuppressedPart(c)'
      <4>1. CASE Gone(c) \/ Over(c) \/ Kept(c)
        BY <2>3, <3>2, <4>1 DEF SuppressedPart
      <4>2. CASE ~(Gone(c) \/ Over(c) \/ Kept(c))
        <5>1. PICK g \in Handlers :
                /\ Hushes(c, g)
                /\ handler[g].pc = "note" => sync.pc = "scheduled" \/ scheduled[c.id] = c.at
                /\ handler[g].pc = "cancelled" => handler[g].snap[c.id] = c.at
          BY <2>1, <4>2 DEF CheckedPart, SuppressedPart
        <5>2. g # h
          BY <1>1, <2>2, <2>7, <3>3, <5>1
        <5>3. handler[g].pc = "note" => sync'.pc = "scheduled" \/ scheduled'[c.id] = c.at
          <6>1. ASSUME handler[g].pc = "note", scheduled[c.id] = c.at, sync.pc # "scheduled"
                PROVE  FALSE
            <7>1. handler[h].kind = "uncheck"
              BY <1>1, <2>1, <5>1, <5>2 DEF CheckedInv, UndoPart
            <7> QED
              BY <1>1, <1>3, <7>1 DEF HandlerShape
          <6> QED
            BY <1>2, <5>1, <6>1
        <5> QED
          BY <1>3, <2>5, <5>1, <5>2, <5>3 DEF SuppressedPart
      <4> QED
        BY <4>1, <4>2
    <3>5. RecordedPart(c)'
      <4>1. snap[c.id] = c.at => Over(c)
        BY <2>2, <2>4, <2>7
      <4> QED
        BY <1>3, <1>4, <2>1, <2>3, <2>4, <3>1, <4>1 DEF CheckedPart, RecordedPart
    <3>6. AnsweredPart(c)'
      <4>1. sync.pc \in Answered /\ InProgress(c) => InProgress(c)'
        <5>1. sync.pc \in Answered => ~Hushes(c, h)
          BY <2>1, <3>3 DEF Shared, Answered
        <5> QED
          BY <2>5, <5>1 DEF InProgress
      <4> QED
        BY <1>2, <2>1, <2>3, <3>2, <4>1 DEF CheckedPart, AnsweredPart
    <3> QED
      BY <2>1, <2>3, <3>4, <3>5, <3>6 DEF CheckedPart
  <2> QED
    BY <2>6, <2>7
<1> QED
  BY <1>2, <1>6, <1>7 DEF CheckedInv

\* The handlers that suppress nothing.
LEMMA CheckedOfOthers ==
    ASSUME TypeInv, CheckedInv, NEW h \in Handlers,
           \/ Restore(h) \/ Restored(h) \/ PreferenceOff(h) \/ PreferenceRecorded(h) \/ Other(h)
           \/ DisableCancel(h) \/ DisableRecorded(h)
    PROVE  CheckedInv'
<1>1. Handle(h)
  BY DEF Handle
<1>2. /\ UNCHANGED <<server, prefs, outgoing, now>>
      /\ sync'.pc = sync.pc /\ sync'.answer = sync.answer
      /\ checked' \subseteq checked /\ handler[h].pc # "idle" /\ PrefsPart'
  BY <1>1, HandleLeaves
<1>3. /\ \A g \in Handlers \ {h} : handler'[g] = handler[g]
      /\ DOMAIN handler = Handlers /\ HandlerShape(handler[h])
  BY <1>1, HandleIs
<1>4. checked \subseteq [id : Tasks, at : Moment, since : Nat] /\ RecordsInv
  BY DEF TypeInv, GhostsInv
<1>5. CASE Restore(h)
  <2>1. handler[h].pc = "note" /\ handler[h].kind = "uncheck"
    BY <1>5 DEF Restore
  <2>2. PICK t \in Tasks : handler[h].ids = {t}
    BY <1>3, <2>1 DEF HandlerShape
  <2>3. (CHOOSE u \in Tasks : handler[h].ids = {u}) = t
    BY <2>2
  <2>4. /\ suppressed' = [suppressed EXCEPT ![t] = None] /\ scheduled' = scheduled
        /\ \/ handler' = [handler EXCEPT ![h].pc = "restored", ![h].snap = suppressed[t].at]
           \/ MarkSummary(h, FALSE)
    BY <1>5, <2>3 DEF Restore
  <2>5. \A c \in checked : c.id # t
    BY <1>2, <2>1, <2>2 DEF CheckedInv, UndoPart
  <2>6. \/ handler'[h].pc = "idle"
        \/ /\ handler'[h].pc = "restored" /\ handler'[h].kind = handler[h].kind
           /\ handler'[h].ids = handler[h].ids
    <3>1. CASE MarkSummary(h, FALSE)
      BY <1>3, <3>1 DEF MarkSummary, HandlerEnds, IdleHandler
    <3>2. CASE ~MarkSummary(h, FALSE)
      <4> DEFINE r == handler[h]
                 to == [r EXCEPT !.pc = "restored", !.snap = suppressed[t].at]
      <4>1. to.pc = "restored" /\ to.kind = r.kind /\ to.ids = r.ids
        BY <1>3 DEF HandlerShape
      <4>2. handler' = [handler EXCEPT ![h] = to]
        BY <1>3, <2>4, <3>2
      <4> HIDE DEF to
      <4> QED
        BY <1>3, <4>1, <4>2
    <3> QED
      BY <3>1, <3>2
  <2>7. \A c \in checked' : suppressed'[c.id] = suppressed[c.id] /\ scheduled'[c.id] = scheduled[c.id]
    BY <1>2, <1>4, <2>4, <2>5 DEF RecordsInv
  <2> QED
    BY <1>1, <2>1, <2>6, <2>7, CheckedAside
<1>6. CASE Restored(h)
  <2>1. handler[h].pc = "restored" /\ MarkSummary(h, FALSE) /\ suppressed' = suppressed
    BY <1>6 DEF Restored
  <2>2. PICK t \in Tasks : handler[h].ids = {t}
    BY <1>3, <2>1 DEF HandlerShape
  <2>3. (CHOOSE u \in Tasks : handler[h].ids = {u}) = t
    BY <2>2
  <2>4. scheduled' = [scheduled EXCEPT ![t] = handler[h].snap]
    BY <1>6, <2>3 DEF Restored, Recorded
  <2>5. handler[h].kind = "uncheck" /\ \A c \in checked : c.id # t
    BY <1>2, <1>3, <2>1, <2>2 DEF CheckedInv, UndoPart, HandlerShape
  <2>6. handler'[h].pc = "idle"
    BY <1>3, <2>1 DEF MarkSummary, HandlerEnds, IdleHandler
  <2>7. \A c \in checked' : suppressed'[c.id] = suppressed[c.id] /\ scheduled'[c.id] = scheduled[c.id]
    BY <1>2, <1>4, <2>1, <2>4, <2>5 DEF RecordsInv
  <2> QED
    BY <1>1, <2>5, <2>6, <2>7, CheckedAside
<1>7. CASE PreferenceOff(h)
  <2>1. /\ handler[h].kind \in {"remindersOff", "summaryOff"}
        /\ handler' = [handler EXCEPT ![h].pc = "off"]
        /\ suppressed' = suppressed /\ scheduled' = scheduled
    BY <1>7 DEF PreferenceOff, records
  <2> DEFINE r == handler[h]
             to == [r EXCEPT !.pc = "off"]
  <2>2. to.pc = "off" /\ to.kind = r.kind /\ to.ids = r.ids
    BY <1>3 DEF HandlerShape
  <2>3. handler' = [handler EXCEPT ![h] = to]
    BY <1>3, <2>1
  <2> HIDE DEF to
  <2>4. handler'[h].pc = "off" /\ handler'[h].kind = handler[h].kind /\ handler'[h].ids = handler[h].ids
    BY <1>3, <2>2, <2>3
  <2> QED
    BY <1>1, <2>1, <2>4, CheckedAside
<1>8. CASE (PreferenceRecorded(h) /\ handler[h].kind # "remindersOff") \/ Other(h)
  <2>1. /\ handler[h].kind \notin {"check", "delete", "deleteList"}
        /\ handler' = [handler EXCEPT ![h] = IdleHandler]
        /\ suppressed' = suppressed /\ scheduled' = scheduled
    BY <1>3, <1>8 DEF PreferenceRecorded, Other, HandlerEnds, HandlerShape, records
  <2>2. handler'[h].pc = "idle"
    BY <1>3, <2>1 DEF IdleHandler
  <2> QED
    BY <1>1, <2>1, <2>2, CheckedAside
<1>9. CASE \/ PreferenceRecorded(h) /\ handler[h].kind = "remindersOff"
           \/ DisableCancel(h) \/ DisableRecorded(h)
  <2>1. checked = {}
    BY <1>2, <1>9 DEF CheckedInv, UndoPart, DisableCancel, DisableRecorded
  <2>2. checked' = {}
    BY <1>2, <2>1
  <2>3. UndoPart'
    BY <2>2 DEF UndoPart
  <2> QED
    BY <1>2, <2>2, <2>3 DEF CheckedInv
<1> QED
  BY <1>5, <1>6, <1>7, <1>8, <1>9

\* Every step of a handler keeps what was checked off suppressed.
LEMMA CheckedOfHandle ==
    ASSUME TypeInv, CheckedInv, NEW h \in Handlers, Handle(h)
    PROVE  CheckedInv'
BY CheckedOfSuppress, CheckedOfSuppressed, CheckedOfOthers DEF Handle

\* A write that does not uncheck a task leaves it done, and deleted, if it was.
LEMMA AppliedKeeps ==
    ASSUME TypeInv, NEW w \in [kind : Kinds, ids : SUBSET Tasks], NEW t \in Tasks,
           w.kind # "uncheck" \/ t \notin w.ids
    PROVE  /\ server[t].done => Applied(w)[t].done
           /\ server[t].deleted => Applied(w)[t].deleted
<1>1. server \in [Tasks -> [done : BOOLEAN, deleted : BOOLEAN]]
  BY DEF TypeInv, WorldInv
<1>2. Applied(w)[t] = IF t \notin w.ids \/ server[t].deleted THEN server[t]
                      ELSE CASE w.kind = "check" -> [server[t] EXCEPT !.done = TRUE]
                             [] w.kind = "uncheck" -> [server[t] EXCEPT !.done = FALSE]
                             [] w.kind \in {"delete", "deleteList"} ->
                                    [server[t] EXCEPT !.deleted = TRUE]
                             [] OTHER -> server[t]
  BY DEF Applied, AppliedTo
<1>3. server[t] \in [done : BOOLEAN, deleted : BOOLEAN]
  BY <1>1
<1> HIDE DEF Applied
<1>4. CASE t \notin w.ids \/ server[t].deleted
  BY <1>2, <1>4
<1>5. CASE ~(t \notin w.ids \/ server[t].deleted)
  BY <1>2, <1>3, <1>5 DEF Kinds
<1> QED
  BY <1>4, <1>5

\* What is known of an occurrence stays, while the server does not take the task back.
LEMMA OccurrenceMoves ==
    ASSUME NEW c \in [id : Tasks, at : Moment, since : Nat], OccurrencePart(c),
           now \in Nat, now' \in Nat, now <= now', TTL \in Nat,
           server[c.id].done => server'[c.id].done,
           server[c.id].deleted => server'[c.id].deleted,
           ~Unchecks(c.id)'
    PROVE  OccurrencePart(c)' /\ (Gone(c) => Gone(c)') /\ (Over(c) => Over(c)')
<1>1. OccurrencePart(c)'
  BY DEF OccurrencePart
<1>2. Gone(c) => Gone(c)'
  BY DEF Gone
<1>3. Over(c) => Over(c)'
  BY DEF Over, Moment
<1> QED
  BY <1>1, <1>2, <1>3

\* A step of the world: of the server, of the queue, or of the clock.
LEMMA CheckedWorld ==
    ASSUME TypeInv, CheckedInv, checked' \subseteq checked, PrefsPart',
           UNCHANGED <<suppressed, scheduled, handler>>,
           sync'.pc = sync.pc /\ sync'.answer = sync.answer,
           now' \in Nat, now <= now',
           \A c \in checked' : /\ server[c.id].done => server'[c.id].done
                               /\ server[c.id].deleted => server'[c.id].deleted
                               /\ ~Unchecks(c.id)'
    PROVE  CheckedInv'
<1>1. UndoPart'
  <2>1. \A g \in Handlers, c \in checked : Hushes(c, g)' = Hushes(c, g)
    BY DEF Hushes
  <2> QED
    BY <2>1, UndoKept DEF CheckedInv
<1>2. ASSUME NEW c \in checked' PROVE CheckedPart(c)'
  <2>1. CheckedPart(c) /\ c \in [id : Tasks, at : Moment, since : Nat] /\ now \in Nat /\ TTL \in Nat
    BY <1>2, LocalRemindersAssumption DEF CheckedInv, TypeInv, GhostsInv, WorldInv
  <2>2. OccurrencePart(c)' /\ (Gone(c) => Gone(c)') /\ (Over(c) => Over(c)')
    BY <1>2, <2>1, OccurrenceMoves DEF CheckedPart
  <2> QED
    BY <2>1, <2>2, CheckedKept
<1> QED
  BY <1>1, <1>2 DEF CheckedInv

\* A queued write that is applied or refused: it is of tasks, and unchecks none counted on.
LEMMA CheckedOfQueue ==
    ASSUME TypeInv, CheckedInv, Deliver \/ Refuse
    PROVE  CheckedInv'
<1> DEFINE S == [kind : Kinds, ids : SUBSET Tasks]
<1>1. /\ outgoing # <<>> /\ outgoing' = Tail(outgoing)
      /\ UNCHANGED <<suppressed, scheduled, handler, sync, now, checked>>
  BY DEF Deliver, Refuse, records, ghosts
<1>2. outgoing \in Seq(S) /\ now \in Nat /\ checked \subseteq [id : Tasks, at : Moment, since : Nat]
  BY LocalRemindersAssumption DEF TypeInv, WorldInv, GhostsInv
<1> HIDE DEF S
<1>3. /\ Len(outgoing) \in Nat /\ Len(outgoing) # 0
      /\ Head(outgoing) = outgoing[1] /\ Head(outgoing) \in S /\ 1 \in DOMAIN outgoing
      /\ DOMAIN outgoing = 1 .. Len(outgoing)
  BY <1>1, <1>2, HeadTailProperties, EmptySeq, LenProperties
<1>4. \A i \in DOMAIN outgoing' : i + 1 \in DOMAIN outgoing /\ outgoing'[i] = outgoing[i + 1]
  <2>1. Tail(outgoing) \in Seq(S) /\ Len(Tail(outgoing)) = Len(outgoing) - 1
    BY <1>1, <1>2, HeadTailProperties
  <2>2. \A i \in 1 .. Len(Tail(outgoing)) : Tail(outgoing)[i] = outgoing[i + 1]
    BY <1>1, <1>2, HeadTailProperties
  <2>3. DOMAIN Tail(outgoing) = 1 .. Len(Tail(outgoing))
    BY <2>1, LenProperties
  <2> QED
    BY <1>1, <1>3, <2>1, <2>2, <2>3
<1> PICK w \in S : w = Head(outgoing)
  BY <1>3
<1>5. w = outgoing[1] /\ w \in [kind : Kinds, ids : SUBSET Tasks]
  BY <1>3 DEF S
<1>6. w.kind \in {"check", "uncheck", "delete", "deleteList"}
  BY <1>3, <1>5 DEF CheckedInv, PrefsPart
<1>7. PrefsPart'
  <2>1. prefs' = prefs
    BY <1>6 DEF Deliver, Refuse, AppliedPrefs
  <2> QED
    BY <1>1, <1>4, <2>1 DEF CheckedInv, PrefsPart
<1>8. ASSUME NEW c \in checked'
      PROVE  /\ server[c.id].done => server'[c.id].done
             /\ server[c.id].deleted => server'[c.id].deleted
             /\ ~Unchecks(c.id)'
  <2>1. ~Unchecks(c.id) /\ c.id \in Tasks
    BY <1>1, <1>2, <1>8 DEF CheckedInv, CheckedPart, OccurrencePart
  <2>2. ~Unchecks(c.id)'
    BY <1>4, <2>1 DEF Unchecks
  <2>3. w.kind # "uncheck" \/ c.id \notin w.ids
    BY <1>3, <1>5, <2>1 DEF Unchecks
  <2>4. server' = Applied(w) \/ server' = server
    BY DEF Deliver, Refuse
  <2> QED
    BY <1>5, <2>1, <2>2, <2>3, <2>4, AppliedKeeps
<1> QED
  BY <1>1, <1>2, <1>7, <1>8, CheckedWorld

\* The clock, and the other device: it takes what it changes out of what is counted on.
LEMMA CheckedOfClock ==
    ASSUME TypeInv, CheckedInv, Tick \/ OtherDevice
    PROVE  CheckedInv'
<1>1. /\ UNCHANGED <<suppressed, scheduled, handler, sync, outgoing, prefs>>
      /\ checked' \subseteq checked
  BY DEF Tick, OtherDevice, records, ghosts
<1>2. now \in Nat /\ server \in [Tasks -> [done : BOOLEAN, deleted : BOOLEAN]]
  BY LocalRemindersAssumption DEF TypeInv, WorldInv
<1>3. now' \in Nat /\ now <= now'
  BY <1>2 DEF Tick, OtherDevice
<1>4. PrefsPart'
  BY <1>1 DEF CheckedInv, PrefsPart
<1>5. ASSUME NEW c \in checked'
      PROVE  ~Unchecks(c.id)' /\ server'[c.id] = server[c.id]
  <2>1. c \in checked /\ ~Unchecks(c.id)
    BY <1>1, <1>5 DEF CheckedInv, CheckedPart, OccurrencePart
  <2>2. ~Unchecks(c.id)'
    BY <1>1, <2>1 DEF Unchecks
  <2>3. CASE Tick
    BY <2>2, <2>3 DEF Tick
  <2>4. CASE OtherDevice
    <3>1. PICK t \in Tasks : /\ server' = [server EXCEPT ![t].done = ~@]
                             /\ checked' = {d \in checked : d.id # t}
      BY <2>4 DEF OtherDevice
    <3>2. c.id # t /\ c.id \in Tasks
      BY <1>5, <2>1, <3>1 DEF TypeInv, GhostsInv
    <3> QED
      BY <1>2, <2>2, <3>1, <3>2
  <2> QED
    BY <2>3, <2>4
<1> QED
  BY <1>1, <1>3, <1>4, <1>5, CheckedWorld

\* What a handler that is killed, or that a plugin error stops, had to suppress is not
\* counted on any more.
LEMMA CheckedOfFailures ==
    ASSUME TypeInv, CheckedInv, Kill \/ PluginFails
    PROVE  CheckedInv'
<1>1. UNCHANGED <<server, prefs, outgoing, now, suppressed, scheduled>>
  BY DEF Kill, PluginFails, records
<1>2. PrefsPart' /\ checked' \subseteq checked
  BY <1>1 DEF CheckedInv, PrefsPart, Kill, PluginFails, CutShort
<1>3. DOMAIN handler = Handlers
  BY DEF TypeInv, HandlersInv
<1>4. \A g \in Handlers : \/ handler'[g] = handler[g]
                          \/ /\ handler'[g].pc = "idle"
                             /\ \A c \in checked' : c \in CutShort(g)
  BY <1>3 DEF Kill, PluginFails, HandlerEnds, IdleHandler
<1>5. \A g \in Handlers, c \in checked : Hushes(c, g)' => Hushes(c, g)
  BY <1>4 DEF Hushes
<1>6. UndoPart'
  BY <1>2, <1>4, <1>5, UndoKept DEF CheckedInv
<1>7. Kill => \A g \in Handlers, c \in checked' : c \in CutShort(g)
  BY DEF Kill
<1>8. \/ sync' = sync
      \/ sync' = IdleSync /\ (Kill \/ sync.pc # "scheduled")
  BY DEF Kill, PluginFails, SyncStops
<1>9. ASSUME NEW c \in checked' PROVE CheckedPart(c)'
  <2>1. c \in checked /\ CheckedPart(c)
    BY <1>2, <1>9 DEF CheckedInv
  <2>2. OccurrencePart(c)' /\ (Gone(c) => Gone(c)') /\ (Over(c) => Over(c)')
    BY <1>1, <2>1, OccurrenceSame DEF CheckedPart
  <2>3. \A g \in Handlers : c \in CutShort(g) => ~Hushes(c, g)
    BY DEF CutShort, Hushes
  <2>4. \A g \in Handlers :
              \/ handler'[g] = handler[g]
              \/ ~Hushes(c, g) /\ ~Hushes(c, g)' /\ handler'[g].pc # "cancelled"
    BY <1>4, <1>5, <1>9, <2>1, <2>3
  <2>5. Kill => ~InProgress(c)
    BY <1>7, <1>9, <2>3 DEF InProgress
  <2>6. \/ sync'.pc = sync.pc /\ sync'.answer = sync.answer
        \/ sync'.pc \notin Answered /\ (sync.pc # "scheduled" \/ ~InProgress(c))
    BY <1>8, <2>5, IdleOrFresh DEF Answered
  <2> QED
    BY <1>1, <2>1, <2>2, <2>4, <2>6, CheckedKept
<1> QED
  BY <1>2, <1>6, <1>9 DEF CheckedInv

\* The switch turned off counts on nothing.
LEMMA CheckedOfSwitch ==
    ASSUME TypeInv, CheckedInv, NEW h \in Handlers, Disable(h) \/ Enable(h)
    PROVE  CheckedInv'
<1>1. CASE Disable(h)
  <2>1. checked' = {} /\ outgoing' = outgoing
    BY <1>1 DEF Disable
  <2> QED
    BY <2>1 DEF CheckedInv, PrefsPart, UndoPart
<1>2. CASE Enable(h)
  <2>1. /\ UNCHANGED <<server, prefs, outgoing, now, suppressed, scheduled, handler>>
        /\ checked' \subseteq checked /\ sync' = Overlapped
    BY <1>2 DEF Enable, Disturb
  <2>2. sync'.pc = sync.pc /\ sync'.answer = sync.answer
    BY <2>1 DEF Overlapped, TypeInv, SyncInv
  <2> QED
    BY <2>1, <2>2, CheckedSame
<1> QED
  BY <1>1, <1>2

\* A write, and the reminders it adds to what is counted on: written down as they ring.
LEMMA CheckedOfWrite ==
    ASSUME TypeInv, PhoneInv, CheckedInv, NEW h \in Handlers, Write(h)
    PROVE  CheckedInv'
<1> DEFINE S == [kind : Kinds, ids : SUBSET Tasks]
           to(w) == [pc |-> "note", kind |-> w.kind, ids |-> w.ids, snap |-> None]
<1>1. PICK w \in Requests : Request(h, w)
  BY DEF Write
<1>2. /\ handler[h].pc = "idle" /\ sync' = Overlapped
      /\ UNCHANGED <<now, suppressed, scheduled>>
      /\ \/ server' = Applied(w) /\ prefs' = AppliedPrefs(w) /\ outgoing' = outgoing
         \/ /\ outgoing' = Append(outgoing, w) /\ server' = server /\ prefs' = prefs
            /\ w.kind \notin {"remindersOff", "summaryOff", "prefsOn"}
      /\ handler' = IF enabled THEN [handler EXCEPT ![h] = to(w)] ELSE handler
      /\ checked' = IF w.kind = "uncheck" THEN {c \in checked : c.id \notin w.ids}
                    ELSE IF w.kind = "remindersOff" \/ ~prefs.reminders \/ ~enabled
                            \/ Shared(h) \/ raced THEN {}
                    ELSE checked \cup CheckedOff(w.ids)
  BY <1>1 DEF Request, Open, records
<1>3. /\ w \in S /\ (w.kind \in {"check", "uncheck", "delete"} => \E t \in Tasks : w.ids = {t})
      /\ w.kind \in {"remindersOff", "summaryOff", "prefsOn"} => w.ids = {}
  BY RequestType
<1>4. sync'.pc = sync.pc /\ sync'.answer = sync.answer
  BY <1>2 DEF Overlapped, TypeInv, SyncInv
<1>5. /\ outgoing \in Seq(S) /\ now \in Nat /\ TTL \in Nat
      /\ checked \subseteq [id : Tasks, at : Moment, since : Nat]
      /\ prefs \in [reminders : BOOLEAN, summary : BOOLEAN]
      /\ server \in [Tasks -> [done : BOOLEAN, deleted : BOOLEAN]]
      /\ phone \subseteq Notification
  BY LocalRemindersAssumption DEF TypeInv, WorldInv, GhostsInv, RecordsInv
<1>6. /\ \A g \in Handlers \ {h} : handler'[g] = handler[g]
      /\ \/ handler'[h] = handler[h]
         \/ handler'[h].pc = "note" /\ handler'[h].kind = w.kind /\ handler'[h].ids = w.ids
      /\ enabled =>
            handler'[h].pc = "note" /\ handler'[h].kind = w.kind /\ handler'[h].ids = w.ids
  <2>1. to(w).pc = "note" /\ to(w).kind = w.kind /\ to(w).ids = w.ids
    OBVIOUS
  <2>2. DOMAIN handler = Handlers
    BY DEF TypeInv, HandlersInv
  <2> HIDE DEF to
  <2> QED
    BY <1>2, <2>1, <2>2
<1>7. \A i \in DOMAIN outgoing' :
        \/ i \in DOMAIN outgoing /\ outgoing'[i] = outgoing[i]
        \/ outgoing'[i] = w /\ w.kind \notin {"remindersOff", "summaryOff", "prefsOn"}
  <2>1. CASE outgoing' = outgoing
    BY <2>1
  <2>2. CASE /\ outgoing' = Append(outgoing, w)
             /\ w.kind \notin {"remindersOff", "summaryOff", "prefsOn"}
    <3> HIDE DEF S
    <3>1. /\ Len(outgoing) \in Nat /\ Append(outgoing, w) \in Seq(S)
          /\ Len(Append(outgoing, w)) = Len(outgoing) + 1
          /\ DOMAIN outgoing = 1 .. Len(outgoing)
          /\ DOMAIN Append(outgoing, w) = 1 .. Len(Append(outgoing, w))
      BY <1>3, <1>5, AppendProperties, LenProperties
    <3>2. /\ \A i \in 1 .. Len(outgoing) : Append(outgoing, w)[i] = outgoing[i]
          /\ Append(outgoing, w)[Len(outgoing) + 1] = w
      BY <1>3, <1>5, AppendProperties
    <3> QED
      BY <2>2, <3>1, <3>2
  <2> QED
    BY <1>2, <2>1, <2>2
<1>8. PrefsPart'
  <2>1. ~prefs'.reminders => checked' = {}
    <3>1. CASE w.kind = "remindersOff"
      BY <1>2, <3>1
    <3>2. CASE w.kind # "remindersOff"
      <4>1. ~prefs'.reminders => ~prefs.reminders
        BY <1>2, <1>5, <3>2 DEF AppliedPrefs
      <4>2. ~prefs.reminders => checked' = {}
        BY <1>2 DEF CheckedInv, PrefsPart
      <4> QED
        BY <4>1, <4>2
    <3> QED
      BY <3>1, <3>2
  <2>2. \A i \in DOMAIN outgoing' : outgoing'[i].kind \in {"check", "uncheck", "delete", "deleteList"}
    BY <1>2, <1>3, <1>7 DEF CheckedInv, PrefsPart, Kinds
  <2> QED
    BY <2>1, <2>2 DEF PrefsPart
<1>9. ASSUME NEW c \in [id : Tasks, at : Moment, since : Nat], OccurrencePart(c),
             w.kind # "uncheck" \/ c.id \notin w.ids
      PROVE  OccurrencePart(c)' /\ (Gone(c) => Gone(c)') /\ (Over(c) => Over(c)')
  <2>1. ~Unchecks(c.id)'
    BY <1>7, <1>9 DEF OccurrencePart, Unchecks
  <2>2. /\ server[c.id].done => server'[c.id].done
        /\ server[c.id].deleted => server'[c.id].deleted
    BY <1>2, <1>3, <1>9, AppliedKeeps
  <2> QED
    BY <1>2, <1>5, <1>9, <2>1, <2>2, OccurrenceMoves
<1>10. CASE checked' = {}
  <2>1. UndoPart'
    BY <1>10 DEF UndoPart
  <2> QED
    BY <1>8, <1>10, <2>1 DEF CheckedInv
<1>11. CASE w.kind = "uncheck"
  <2>1. \A c \in checked : ~Hushes(c, h) /\ ~Hushes(c, h)'
    BY <1>2, <1>6, <1>11 DEF Hushes
  <2>2. ASSUME NEW c \in checked' PROVE CheckedPart(c)'
    <3>1. c \in checked /\ c.id \notin w.ids /\ CheckedPart(c)
      BY <1>2, <1>11, <2>2 DEF CheckedInv
    <3>2. OccurrencePart(c)' /\ (Gone(c) => Gone(c)') /\ (Over(c) => Over(c)')
      BY <1>5, <1>9, <3>1 DEF CheckedPart
    <3>3. \A g \in Handlers :
              \/ handler'[g] = handler[g]
              \/ ~Hushes(c, g) /\ ~Hushes(c, g)' /\ handler'[g].pc # "cancelled"
      BY <1>6, <2>1, <3>1
    <3> QED
      BY <1>2, <1>4, <3>1, <3>2, <3>3, CheckedKept
  <2>3. UndoPart'
    <3> SUFFICES ASSUME NEW k \in Handlers, handler'[k].pc # "idle"
                 PROVE  /\ handler'[k].pc \in {"disable", "disabled"}
                              \/ handler'[k].kind = "remindersOff" => checked' = {}
                        /\ handler'[k].kind = "uncheck" =>
                              \A c \in checked' : c.id \notin handler'[k].ids
                        /\ handler'[k].kind # "uncheck" =>
                              \A c \in checked' : \A g \in Handlers \ {k} : ~Hushes(c, g)'
      BY DEF UndoPart
    <3>1. checked' = {c \in checked : c.id \notin w.ids}
      BY <1>2, <1>11
    <3>2. \A g \in Handlers, c \in checked : Hushes(c, g)' => Hushes(c, g)
      BY <1>6, <2>1 DEF Hushes
    <3>3. CASE handler'[k] = handler[k]
      <4>1. /\ handler[k].pc \in {"disable", "disabled"} \/ handler[k].kind = "remindersOff"
                  => checked = {}
            /\ handler[k].kind = "uncheck" => \A c \in checked : c.id \notin handler[k].ids
            /\ handler[k].kind # "uncheck" =>
                  \A c \in checked : \A g \in Handlers \ {k} : ~Hushes(c, g)
        BY <3>3 DEF CheckedInv, UndoPart
      <4> QED
        BY <3>1, <3>2, <3>3, <4>1
    <3>4. CASE handler'[k] # handler[k]
      <4>1. handler'[k].pc = "note" /\ handler'[k].kind = "uncheck" /\ handler'[k].ids = w.ids
        BY <1>6, <1>11, <3>4
      <4> QED
        BY <3>1, <4>1
    <3> QED
      BY <3>3, <3>4
  <2> QED
    BY <1>8, <2>2, <2>3 DEF CheckedInv
<1>12. CASE checked' # {} /\ w.kind # "uncheck"
  <2>1. /\ checked' = checked \cup CheckedOff(w.ids) /\ w.kind # "remindersOff"
        /\ enabled /\ ~Shared(h) /\ ~raced
    BY <1>2, <1>12
  <2>2. sync.pc = "idle" /\ (\A g \in Handlers : handler[g].pc = "idle") /\ Matches
    BY <1>2, <2>1, HandlerBefore DEF Shared
  <2>3. /\ handler'[h].pc = "note" /\ handler'[h].kind = w.kind /\ handler'[h].ids = w.ids
        /\ \A g \in Handlers \ {h} : handler'[g].pc = "idle"
        /\ sync'.pc = "idle"
    BY <1>4, <1>6, <2>1, <2>2
  <2>4. UndoPart'
    BY <1>12, <2>1, <2>3 DEF UndoPart, Hushes
  <2>5. ASSUME NEW c \in checked PROVE CheckedPart(c)'
    <3>1. CheckedPart(c) /\ c \in [id : Tasks, at : Moment, since : Nat]
      BY <1>5 DEF CheckedInv
    <3>2. OccurrencePart(c)' /\ (Gone(c) => Gone(c)') /\ (Over(c) => Over(c)')
      BY <1>9, <1>12, <3>1 DEF CheckedPart
    <3>3. ~InProgress(c)
      BY <2>2 DEF InProgress, Hushes
    <3>4. SuppressedPart(c)'
      <4>1. Gone(c) \/ Over(c) \/ Kept(c)
        BY <3>1, <3>3 DEF CheckedPart, SuppressedPart, InProgress
      <4> QED
        BY <1>2, <3>2, <4>1 DEF SuppressedPart, Kept
    <3>5. RecordedPart(c)'
      <4>1. \A g \in Handlers : handler'[g].pc # "cancelled"
        BY <2>3
      <4> QED
        BY <1>2, <3>1, <3>2, <3>3, <4>1 DEF CheckedPart, RecordedPart
    <3>6. AnsweredPart(c)'
      BY <2>3 DEF AnsweredPart, Answered
    <3> QED
      BY <3>2, <3>4, <3>5, <3>6 DEF CheckedPart
  <2>6. ASSUME NEW c \in CheckedOff(w.ids) PROVE CheckedPart(c)'
    <3>1. PICK n \in phone : /\ n.id \in w.ids /\ ~Unchecks(n.id)
                             /\ n.at \in {Due[n.id], Returned(n.id)}
                             /\ c = [id |-> n.id, at |-> n.at, since |-> now]
      BY <2>6 DEF CheckedOff
    <3>2. c.id = n.id /\ c.at = n.at /\ c.since = now
      BY <3>1
    <3>3. n.id \in Tasks /\ n.at \in Moment /\ w.kind \in {"check", "delete", "deleteList"}
      BY <1>3, <1>5, <1>12, <3>1 DEF Notification, Kinds
    <3>4. c \in [id : Tasks, at : Moment, since : Nat]
      BY <1>5, <3>1, <3>3
    <3>5. OccurrencePart(c)
      BY <1>5, <3>1, <3>2, <3>3 DEF OccurrencePart, Returned
    <3>6. OccurrencePart(c)'
      BY <1>9, <1>12, <3>4, <3>5
    <3>7. scheduled[c.id] = c.at
      BY <2>2, <3>2, <3>3 DEF Matches, TaskMatches
    <3>8. Hushes(c, h)'
      BY <2>3, <3>1, <3>2, <3>3 DEF Hushes
    <3>9. SuppressedPart(c)'
      BY <1>2, <2>3, <3>7, <3>8 DEF SuppressedPart
    <3>10. RecordedPart(c)'
      <4>1. \A g \in Handlers : handler'[g].pc # "cancelled"
        BY <2>3
      <4>2. InProgress(c)'
        BY <3>8 DEF InProgress
      <4> QED
        BY <1>2, <3>7, <4>1, <4>2 DEF RecordedPart
    <3>11. AnsweredPart(c)'
      BY <2>3 DEF AnsweredPart, Answered
    <3> QED
      BY <3>6, <3>9, <3>10, <3>11 DEF CheckedPart
  <2> QED
    BY <1>8, <2>1, <2>4, <2>5, <2>6 DEF CheckedInv
<1> QED
  BY <1>10, <1>11, <1>12

\* At first nothing is counted on.
LEMMA CheckedInit == Init => CheckedInv
<1> SUFFICES ASSUME Init PROVE CheckedInv
  OBVIOUS
<1>1. /\ checked = {} /\ outgoing = <<>> /\ \A h \in Handlers : handler[h].pc = "idle"
  BY DEF Init, IdleHandler
<1> QED
  BY <1>1 DEF CheckedInv, PrefsPart, UndoPart

\* Every step keeps what was checked off suppressed, for as long as it must be.
LEMMA CheckedStep ==
    ASSUME TypeInv, PhoneInv, CheckedInv, [Next]_vars
    PROVE  CheckedInv'
<1>1. CASE SyncStart \/ SyncPermission
  <2>1. /\ UNCHANGED <<server, prefs, outgoing, now, suppressed, scheduled, handler, checked>>
        /\ \/ sync' = sync
           \/ sync' = [sync EXCEPT !.pc = "fetch"] /\ sync.pc = "permission"
           \/ sync' \in {IdleSync, FreshSync} /\ sync.pc \in {"idle", "permission"}
    BY <1>1 DEF SyncStart, SyncPermission, SyncStops, world, records, ghosts
  <2>2. \/ sync'.pc = sync.pc /\ sync'.answer = sync.answer
        \/ sync'.pc \notin Answered /\ sync.pc # "scheduled"
    BY <2>1, IdleOrFresh DEF TypeInv, SyncInv, Answered
  <2> QED
    BY <2>1, <2>2, CheckedSame
<1>2. CASE SyncFetch \/ SyncCompute \/ SyncCancel \/ SyncSchedule \/ SyncRecord
  BY <1>2, CheckedOfFetch, CheckedOfCompute, CheckedOfCancel, CheckedOfSchedule, CheckedOfRecord
<1>3. ASSUME NEW h \in Handlers, Write(h) \/ Handle(h) \/ Disable(h) \/ Enable(h)
      PROVE  CheckedInv'
  BY <1>3, CheckedOfWrite, CheckedOfHandle, CheckedOfSwitch
<1>4. CASE Deliver \/ Refuse \/ OtherDevice \/ Kill \/ PluginFails \/ Tick
  BY <1>4, CheckedOfQueue, CheckedOfClock, CheckedOfFailures
<1>5. CASE Disconnect \/ Connect \/ Resume \/ Revoke \/ UNCHANGED vars
  <2>1. UNCHANGED <<server, prefs, outgoing, now, suppressed, scheduled, handler, sync, checked>>
    BY <1>5 DEF Disconnect, Connect, Resume, Revoke, vars, world, records, ghosts
  <2> QED
    BY <2>1, CheckedSame
<1> QED
  BY <1>1, <1>2, <1>3, <1>4, <1>5 DEF Next, Sync

\* The whole invariant: types, the phone and the records, what was checked off.
LEMMA CheckedIsInvariant == Spec => [](TypeInv /\ PhoneInv /\ CheckedInv)
<1>1. Init => CheckedInv
  BY CheckedInit
<1>2. TypeInv /\ PhoneInv /\ CheckedInv /\ [Next]_vars => CheckedInv'
  BY CheckedStep
<1> QED
  BY <1>1, <1>2, PhoneIsInvariant, PTL DEF Spec

\* Between its syncs and its handlers, if none overlapped another or was cut short since
\* the last sync: a reminder whose task was checked off or deleted while it was pending
\* is not pending again before its suppression expires, however many syncs the server
\* answers with it before it hears; and a switch turned off leaves nothing to ring.
THEOREM CheckedOffStaysAway == Spec => []StaysQuiet
<1>1. TypeInv /\ PhoneInv /\ CheckedInv => CheckedStaysQuiet
  <2> SUFFICES ASSUME TypeInv, PhoneInv, CheckedInv, Settled, NEW c \in checked,
                      now - c.since <= TTL, [id |-> c.id, at |-> c.at] \in phone
               PROVE  FALSE
    BY DEF CheckedStaysQuiet
  <2>1. Matches /\ AllIdle /\ AheadPart
    BY DEF Settled, Idle, Busy, PhoneInv, HandlersPart, Early, AllIdle
  <2>2. /\ c.id \in Tasks /\ c.at \in Nat /\ c.since \in Nat /\ CheckedPart(c)
        /\ now \in Nat /\ TTL \in Nat
    BY LocalRemindersAssumption DEF TypeInv, WorldInv, GhostsInv, Moment, CheckedInv
  <2>3. scheduled[c.id] = c.at
    BY <2>1, <2>2 DEF Matches, TaskMatches
  <2>4. ~InProgress(c)
    BY <2>1 DEF AllIdle, InProgress, Hushes
  <2>5. Over(c)
    BY <2>2, <2>3, <2>4 DEF CheckedPart, RecordedPart
  <2>6. c.at > now
    BY <2>1 DEF AheadPart
  <2> QED
    BY <2>2, <2>5, <2>6 DEF Over
<1> QED
  BY <1>1, TurnedOffIsQuiet, CheckedIsInvariant, PTL DEF StaysQuiet

=============================================================================
