--------------------------- MODULE LocalReminders ---------------------------
(***************************************************************************)
(* Task reminders of the Android app (static/js/local-reminders.js): local *)
(* notifications the page schedules on the phone from what the server says *)
(* is coming (handlers/reminders.go), and takes back itself when a task is *)
(* checked off, online or not.                                             *)
(*                                                                         *)
(* The sync and the handlers of the page's writes each run until an await  *)
(* of the notifications plugin or of the network; a step here is what runs *)
(* between two awaits, and a plugin call takes effect in the step that     *)
(* makes it (the plugin serves calls in order).  What outlives the page:   *)
(* the phone's pending notifications and localStorage (enabled, scheduled, *)
(* suppressed, summary).                                                   *)
(***************************************************************************)
EXTENDS Integers, SequencesExt, FiniteSets

CONSTANTS
    Due,            \* the reminder moment of each task's current occurrence; 0 for
                    \* a task already overdue, which the daily summary lists
    Recurring,      \* tasks with a next occurrence, due one unit later
    SummaryTimes,   \* the moments of the daily summaries
    TTL,            \* LOCAL_REMINDER_SUPPRESSION_TTL_MS
    Handlers,       \* writes of the page whose handler may run at once
    None,           \* null
    MaxNow,         \* bound: time
    MaxWrites,      \* bound: the user's writes, switches and returns to the page
    MaxFaults       \* bound: kills, disconnections, plugin errors, ...

Tasks == DOMAIN Due

Moment == Nat
Notification == [id : Tasks \cup {"summary"}, at : Moment]
Summary == [at : Moment, ids : SUBSET Tasks]
Entry == [summary : Summary, done : SUBSET Tasks]
Answer == [reminders : SUBSET [id : Tasks, at : Moment], summary : Summary \cup {None}]
Kinds == {"check", "uncheck", "delete", "deleteList", "remindersOff", "summaryOff", "prefsOn"}

ASSUME LocalRemindersAssumption ==
    /\ Due \in [Tasks -> Nat] /\ Recurring \subseteq Tasks
    /\ SummaryTimes \subseteq Nat /\ IsFiniteSet(SummaryTimes)
    /\ "summary" \notin Tasks /\ None \notin Moment \cup Entry \cup [at : Moment, since : Nat]
    /\ TTL \in Nat /\ MaxNow \in Nat /\ MaxWrites \in Nat /\ MaxFaults \in Nat

VARIABLES
    server,     \* each task on the server: done? deleted?
    prefs,      \* the account's preferences: task reminders? daily summary?
    outgoing,   \* writes the service worker queued, in order
    phone,      \* pending notifications of Android: task or "summary", and when
    enabled,    \* LOCAL_REMINDERS_ENABLED_KEY
    granted,    \* does Android let the app notify?
    scheduled,  \* LOCAL_REMINDERS_SCHEDULED_KEY: moment by task
    suppressed, \* LOCAL_REMINDERS_SUPPRESSED_KEY: moment and since, by task
    summary,    \* LOCAL_OVERDUE_SUMMARY_KEY: the summary and what was done of it
    sync,       \* the sync in progress: where it awaits, and what it holds
    again,      \* localReminderSyncAgain
    timer,      \* is localReminderSyncTimer set?
    handler,    \* the writes' handlers in progress
    net, now, writes, faults

\* What happened, for the properties only.
VARIABLES
    checked,    \* reminders pending on the phone when their occurrence was checked
                \* off here, and since when
    unheard,    \* tasks changed elsewhere, or whose sync a plugin error stopped, and
                \* about which nothing has asked the server since
    raced       \* did a handler overlap a sync or another handler, or did one end
                \* half way, since the last sync that ran alone?

records == <<enabled, scheduled, suppressed, summary>>
world == <<server, prefs, outgoing, granted, net, now, writes, faults>>
ghosts == <<checked, unheard, raced>>
vars == <<world, phone, records, sync, again, timer, handler, ghosts>>

SyncAt(pc, alone) ==
    [pc |-> pc, answer |-> None, entry |-> None, pending |-> {}, alone |-> alone]
IdleSync == SyncAt("idle", TRUE)
IdleHandler == [pc |-> "idle", kind |-> None, ids |-> {}, snap |-> None]
Nothing == [t \in Tasks |-> None]

Init ==
    /\ server = [t \in Tasks |-> [done |-> FALSE, deleted |-> FALSE]]
    /\ prefs = [reminders |-> TRUE, summary |-> TRUE]
    /\ outgoing = <<>> /\ phone = {}
    /\ enabled = TRUE /\ granted = TRUE
    /\ scheduled = Nothing /\ suppressed = Nothing /\ summary = None
    /\ sync = IdleSync /\ again = FALSE /\ timer = TRUE
    /\ handler = [h \in Handlers |-> IdleHandler]
    /\ net = TRUE /\ now = 0 /\ writes = 0 /\ faults = MaxFaults
    /\ checked = {} /\ unheard = {} /\ raced = FALSE

-----------------------------------------------------------------------------
\* The server's side: GET /reminders/upcoming, and the writes it applies.

\* ListActiveRemindersForUser: the current occurrence of an open task, the next
\* one of a recurring task that is done.
Returned(t) == IF ~server[t].done THEN Due[t] ELSE Due[t] + 1

upcomingReminders ==
    IF ~prefs.reminders THEN {}
    ELSE {[id |-> t, at |-> Returned(t)] : t \in
            {u \in Tasks : /\ ~server[u].deleted /\ Returned(u) > now
                           /\ server[u].done => u \in Recurring}}

\* nextOverdueSummary: the next one to come, if it has a task to list.
nextOverdueSummary ==
    LET ids == {t \in Tasks : Due[t] = 0 /\ ~server[t].done /\ ~server[t].deleted}
        ahead == {s \in SummaryTimes : s > now}
    IN  IF ~prefs.summary \/ ids = {} \/ ahead = {} THEN None
        ELSE [at |-> CHOOSE s \in ahead : \A u \in ahead : s <= u, ids |-> ids]

Upcoming == [reminders |-> upcomingReminders, summary |-> nextOverdueSummary]

\* A write w (check, uncheck or delete tasks, or preferences) reaches the server.
AppliedTo(tasks, w) ==
    [t \in Tasks |->
        IF t \notin w.ids \/ tasks[t].deleted THEN tasks[t]
        ELSE CASE w.kind = "check" -> [tasks[t] EXCEPT !.done = TRUE]
               [] w.kind = "uncheck" -> [tasks[t] EXCEPT !.done = FALSE]
               [] w.kind \in {"delete", "deleteList"} -> [tasks[t] EXCEPT !.deleted = TRUE]
               [] OTHER -> tasks[t]]
Applied(w) == AppliedTo(server, w)

\* The tasks as the page shows them: the queued writes are in the mirror already.
Shown == FoldLeft(AppliedTo, server, outgoing)

AppliedPrefs(w) ==
    CASE w.kind = "remindersOff" -> [prefs EXCEPT !.reminders = FALSE]
      [] w.kind = "summaryOff" -> [prefs EXCEPT !.summary = FALSE]
      [] w.kind = "prefsOn" -> [reminders |-> TRUE, summary |-> TRUE]
      [] OTHER -> prefs

-----------------------------------------------------------------------------
\* The plugin.

Cancel(ids) == {n \in phone : n.id \notin ids}
\* Scheduling under an id in use replaces what it held; what is due is not pending.
Schedule(new) ==
    {n \in phone : \A m \in new : m.id # n.id} \cup {n \in new : n.at > now}
TaskNotifications(moments) ==
    {[id |-> t, at |-> moments[t]] : t \in {u \in Tasks : moments[u] # None}}

-----------------------------------------------------------------------------
\* syncLocalReminders.

Busy == sync.pc # "idle" \/ \E h \in Handlers : handler[h].pc # "idle"
Idle == ~Busy

\* A round, alone if no handler is in progress.
FreshSync == SyncAt("permission", \A h \in Handlers : handler[h].pc = "idle")

\* A sync that is asked for while one runs makes it go round again.
SyncStart ==
    /\ timer /\ timer' = FALSE
    /\ IF ~enabled THEN UNCHANGED <<sync, again>>
       ELSE IF sync.pc # "idle" THEN again' = TRUE /\ UNCHANGED sync
       ELSE sync' = FreshSync /\ again' = FALSE
    /\ UNCHANGED <<world, phone, records, handler, ghosts>>

\* An early return, or an exception caught: no other round, whatever was asked.
SyncStops == sync' = IdleSync

SyncPermission ==
    /\ sync.pc = "permission"
    /\ IF granted /\ net THEN sync' = [sync EXCEPT !.pc = "fetch"] ELSE SyncStops
    /\ UNCHANGED <<world, phone, records, again, timer, handler, ghosts>>

\* fetchUpcomingReminders: the server answers, or cannot be reached.
SyncFetch ==
    /\ sync.pc = "fetch"
    /\ IF net
       THEN sync' = [sync EXCEPT !.pc = "answer", !.answer = Upcoming] /\ unheard' = {}
       ELSE SyncStops /\ UNCHANGED unheard
    /\ UNCHANGED <<world, phone, records, again, timer, handler, checked, raced>>

IsSuppressed(r, map) == map[r.id] # None /\ map[r.id].at = r.at

\* Mutant: a suppression ends with the first sync that reaches the server.
PrunedSuppressions_All(answer) == Nothing

\* A suppression ends once the server no longer returns its occurrence, or expires.
PrunedSuppressions(answer) ==
    [t \in Tasks |->
        IF suppressed[t] = None \/ now - suppressed[t].since > TTL
           \/ ~\E r \in answer.reminders : r.id = t /\ IsSuppressed(r, suppressed)
        THEN None ELSE suppressed[t]]

Wanted(answer, map) ==
    {r \in answer.reminders : ~IsSuppressed(r, map) /\ r.at > now}

\* The summary's tasks checked off here stay so for the same summary.
SummaryEntry(s) ==
    IF s = None \/ s.at <= now THEN None
    ELSE [summary |-> s,
          done |-> IF summary # None /\ summary.summary.at = s.at
                   THEN summary.done \cap s.ids ELSE {}]
HasOpenTasks(entry) == entry.summary.ids \ entry.done # {}

\* What to schedule is computed, then cancelAllLocalReminders asks what is pending ...
SyncCompute ==
    /\ sync.pc = "answer"
    /\ LET kept == PrunedSuppressions(sync.answer)
       IN  /\ suppressed' = kept
           /\ sync' = [sync EXCEPT !.pc = "pending",
                        !.answer.reminders = Wanted(sync.answer, kept),
                        !.entry = SummaryEntry(sync.answer.summary),
                        !.pending = {n.id : n \in phone}]
    /\ UNCHANGED <<world, phone, enabled, scheduled, summary, again, timer, handler, ghosts>>

\* ... cancels it, if there is any ...
SyncCancel ==
    /\ sync.pc = "pending"
    /\ phone' = Cancel(sync.pending)
    /\ sync' = [sync EXCEPT !.pc = "cancelled"]
    /\ UNCHANGED <<world, records, again, timer, handler, ghosts>>

SyncNotifications ==
    sync.answer.reminders
    \cup IF sync.entry # None /\ HasOpenTasks(sync.entry)
         THEN {[id |-> "summary", at |-> sync.entry.summary.at]} ELSE {}

\* ... and forgets it; the new schedule goes to the phone ...
SyncSchedule ==
    /\ sync.pc = "cancelled"
    /\ scheduled' = Nothing /\ summary' = None
    /\ phone' = Schedule(SyncNotifications)
    /\ sync' = [sync EXCEPT !.pc = "scheduled"]
    /\ UNCHANGED <<world, enabled, suppressed, again, timer, handler, ghosts>>

\* Mutant: a sync asked for meanwhile is taken for done.
SyncNext_Once == sync' = IdleSync

\* do ... while (localReminderSyncAgain).
SyncNext == sync' = IF again THEN FreshSync ELSE IdleSync

\* ... and is written down.
SyncRecord ==
    /\ sync.pc = "scheduled"
    /\ scheduled' = [t \in Tasks |->
            IF \E r \in sync.answer.reminders : r.id = t
            THEN (CHOOSE r \in sync.answer.reminders : r.id = t).at ELSE None]
    /\ summary' = sync.entry
    /\ again' = FALSE /\ SyncNext
    /\ raced' = (~sync.alone \/ ~enabled)
    /\ checked' = IF sync.alone THEN checked ELSE {}
    /\ UNCHANGED <<world, phone, enabled, suppressed, timer, handler, unheard>>

Sync == SyncPermission \/ SyncFetch \/ SyncCompute \/ SyncCancel \/ SyncSchedule \/ SyncRecord

-----------------------------------------------------------------------------
\* noteLocalReminderWrite: a write of the page, then what it changes here at once.

\* Ghosts: a step of handler h, about tasks ids, while a sync or another handler is
\* in progress; what was pending is then no longer counted on to stay away.
Shared(h) == sync.pc # "idle" \/ \E g \in Handlers \ {h} : handler[g].pc # "idle"
Disturb(h) ==
    /\ raced' = (raced \/ Shared(h))
    /\ checked' = {c \in checked : Shared(h) => c.id \notin handler[h].ids}

\* ... and a sync in progress is no longer alone.
Overlapped == [sync EXCEPT !.alone = FALSE]

HandlerEnds(h) == handler' = [handler EXCEPT ![h] = IdleHandler]

\* scheduleLocalReminderSync, debounced.
ScheduleSync == timer' = (timer \/ enabled)

\* Ghost: the reminders of tasks ids that are to stay away: of an occurrence the server
\* returns, or did, unless it is to hear that the task is unchecked before it hears this.
Unchecks(t) == \E i \in DOMAIN outgoing : outgoing[i].kind = "uncheck" /\ t \in outgoing[i].ids
CheckedOff(ids) ==
    {[id |-> n.id, at |-> n.at, since |-> now] :
        n \in {m \in phone : /\ m.id \in ids /\ ~Unchecks(m.id)
                             /\ m.at \in {Due[m.id], Returned(m.id)}}}

\* Ghost: handler h stops before its end; its tasks are not counted on to stay away.
CutShort(h) == {c \in checked : handler[h].pc # "idle" => c.id \notin handler[h].ids}

Open(h, kind) ==
    /\ handler[h].pc = "idle" /\ writes < MaxWrites /\ writes' = writes + 1
    /\ kind \in {"remindersOff", "summaryOff", "prefsOn"} => net

\* What the page writes: of tasks, or of the account's preferences.
Requests ==
    [kind : {"check", "uncheck", "delete"}, ids : {{t} : t \in Tasks}]
    \cup [kind : {"deleteList"}, ids : {Tasks}]
    \cup [kind : {"remindersOff", "summaryOff", "prefsOn"}, ids : {{}}]

\* The request: applied by the server, or queued by the service worker.
Request(h, w) ==
    /\ Open(h, w.kind)
    /\ w.ids # {} => \E t \in w.ids : ~Shown[t].deleted
    /\ w.kind = "check" => \A t \in w.ids : ~Shown[t].done
    /\ w.kind = "uncheck" => \A t \in w.ids : Shown[t].done
    /\ IF net
       THEN /\ server' = Applied(w) /\ prefs' = AppliedPrefs(w)
            /\ UNCHANGED outgoing
       ELSE outgoing' = Append(outgoing, w) /\ UNCHANGED <<server, prefs>>
    /\ IF enabled
       THEN handler' = [handler EXCEPT ![h] =
                            [pc |-> "note", kind |-> w.kind, ids |-> w.ids, snap |-> None]]
       ELSE UNCHANGED handler
    /\ checked' = IF w.kind = "uncheck" THEN {c \in checked : c.id \notin w.ids}
                  ELSE IF w.kind = "remindersOff" \/ ~prefs.reminders \/ ~enabled
                          \/ Shared(h) \/ raced THEN {}
                  ELSE checked \cup CheckedOff(w.ids)
    /\ raced' = (raced \/ Shared(h)) /\ sync' = Overlapped
    /\ UNCHANGED <<granted, net, now, faults, phone, records, again, timer, unheard>>

Write(h) == \E w \in Requests : Request(h, w)

\* markOverdueSummaryTasks (not after the deletion of a list), and the handler's end.
MarkSummary(h, done) ==
    LET ids == IF handler[h].kind = "deleteList" THEN {} ELSE handler[h].ids
        marked == IF summary = None THEN {} ELSE ids \cap summary.summary.ids
        entry == [summary EXCEPT !.done = IF done THEN @ \cup marked ELSE @ \ marked]
    IN  /\ IF marked = {} THEN UNCHANGED <<summary, phone>>
           ELSE /\ summary' = entry
                /\ phone' = IF HasOpenTasks(summary) /\ ~HasOpenTasks(entry)
                            THEN Cancel({"summary"})
                            ELSE IF ~HasOpenTasks(summary) /\ HasOpenTasks(entry)
                                    /\ entry.summary.at > now
                            THEN Schedule({[id |-> "summary", at |-> entry.summary.at]})
                            ELSE phone
        /\ HandlerEnds(h) /\ ScheduleSync

\* suppressLocalReminders: what is scheduled is cancelled on the phone ...
Suppress(h) ==
    /\ handler[h].pc = "note" /\ handler[h].kind \in {"check", "delete", "deleteList"}
    /\ LET ids == {t \in handler[h].ids : scheduled[t] # None}
       IN  IF ids = {}
           THEN MarkSummary(h, TRUE)
           ELSE /\ phone' = Cancel(ids)
                /\ handler' = [handler EXCEPT ![h].pc = "cancelled", ![h].snap = scheduled]
                /\ UNCHANGED <<summary, timer>>
    /\ Disturb(h) /\ sync' = Overlapped
    /\ UNCHANGED <<world, enabled, scheduled, suppressed, again, unheard>>

\* Mutant: a suppression without its time.
Suppression_Undated(at) == [at |-> at, since |-> None]
Suppression(at) == [at |-> at, since |-> now]

\* ... then moved to the suppressions, from what was read before the await.
Suppressed(h) ==
    /\ handler[h].pc = "cancelled"
    /\ LET snap == handler[h].snap
           ids == {t \in handler[h].ids : snap[t] # None}
       IN  /\ suppressed' = [t \in Tasks |-> IF t \in ids THEN Suppression(snap[t])
                                             ELSE suppressed[t]]
           /\ scheduled' = [t \in Tasks |-> IF t \in ids THEN None ELSE snap[t]]
           /\ MarkSummary(h, TRUE)
    /\ Disturb(h) /\ sync' = Overlapped
    /\ UNCHANGED <<world, enabled, again, unheard>>

\* restoreItemReminder: the suppression goes, the notification comes back if it is
\* still ahead ...
Restore(h) ==
    /\ handler[h].pc = "note" /\ handler[h].kind = "uncheck"
    /\ LET t == CHOOSE u \in Tasks : handler[h].ids = {u}
           entry == suppressed[t]
       IN  /\ suppressed' = [suppressed EXCEPT ![t] = None]
           /\ IF entry # None /\ entry.at > now
              THEN /\ phone' = Schedule({[id |-> t, at |-> entry.at]})
                   /\ handler' = [handler EXCEPT ![h].pc = "restored", ![h].snap = entry.at]
                   /\ UNCHANGED <<summary, timer>>
              ELSE MarkSummary(h, FALSE)
    /\ Disturb(h) /\ sync' = Overlapped
    /\ UNCHANGED <<world, enabled, scheduled, again, unheard>>

\* Mutant: what was restored is not written down.
Recorded_Not(t, at) == scheduled
\* ... and is written down.
Recorded(t, at) == [scheduled EXCEPT ![t] = at]

Restored(h) ==
    /\ handler[h].pc = "restored"
    /\ LET t == CHOOSE u \in Tasks : handler[h].ids = {u}
       IN  /\ scheduled' = Recorded(t, handler[h].snap)
           /\ MarkSummary(h, FALSE)
    /\ Disturb(h) /\ sync' = Overlapped
    /\ UNCHANGED <<world, enabled, suppressed, again, unheard>>

\* applyNotificationPreferences: the scheduled reminders, or the summary, are
\* cancelled on the phone ...
PreferenceOff(h) ==
    /\ handler[h].pc = "note" /\ handler[h].kind \in {"remindersOff", "summaryOff"}
    /\ phone' = Cancel(IF handler[h].kind = "remindersOff"
                       THEN {t \in Tasks : scheduled[t] # None}
                       ELSE IF summary = None THEN {} ELSE {"summary"})
    /\ handler' = [handler EXCEPT ![h].pc = "off"]
    /\ Disturb(h) /\ sync' = Overlapped
    /\ UNCHANGED <<world, records, again, timer, unheard>>

\* ... and forgotten.
PreferenceRecorded(h) ==
    /\ handler[h].pc = "off"
    /\ IF handler[h].kind = "remindersOff"
       THEN scheduled' = Nothing /\ suppressed' = Nothing /\ UNCHANGED summary
       ELSE summary' = None /\ UNCHANGED <<scheduled, suppressed>>
    /\ HandlerEnds(h) /\ ScheduleSync
    /\ Disturb(h) /\ sync' = Overlapped
    /\ UNCHANGED <<world, phone, enabled, again, unheard>>

\* Any other write only asks for a sync.
Other(h) ==
    /\ handler[h].pc = "note" /\ handler[h].kind = "prefsOn"
    /\ HandlerEnds(h) /\ ScheduleSync
    /\ Disturb(h) /\ sync' = Overlapped
    /\ UNCHANGED <<world, phone, records, again, unheard>>

\* disableLocalReminders: the switch and the suppressions, then everything pending ...
Disable(h) ==
    /\ enabled /\ Open(h, None)
    /\ enabled' = FALSE /\ suppressed' = Nothing
    /\ handler' = [handler EXCEPT ![h] = [pc |-> "disable", kind |-> None,
                                          ids |-> {n.id : n \in phone}, snap |-> None]]
    /\ checked' = {} /\ raced' = (raced \/ Shared(h)) /\ sync' = Overlapped
    /\ UNCHANGED <<server, prefs, outgoing, granted, net, now, faults, phone, scheduled,
                   summary, again, timer, unheard>>

DisableCancel(h) ==
    /\ handler[h].pc = "disable"
    /\ phone' = Cancel(handler[h].ids)
    /\ handler' = [handler EXCEPT ![h].pc = "disabled"]
    /\ Disturb(h) /\ sync' = Overlapped
    /\ UNCHANGED <<world, records, again, timer, unheard>>

DisableRecorded(h) ==
    /\ handler[h].pc = "disabled"
    /\ scheduled' = Nothing /\ summary' = None
    /\ HandlerEnds(h)
    /\ Disturb(h) /\ sync' = Overlapped
    /\ UNCHANGED <<world, phone, enabled, suppressed, again, timer, unheard>>

\* enableLocalReminders, once Android's prompt was answered: a sync starts at once.
Enable(h) ==
    /\ ~enabled /\ Open(h, None)
    /\ granted' \in {granted, TRUE}
    /\ enabled' = granted' /\ timer' = (timer \/ granted')
    /\ Disturb(h) /\ sync' = Overlapped
    /\ UNCHANGED <<server, prefs, outgoing, net, now, faults, phone, scheduled, suppressed,
                   summary, again, handler, unheard>>

Handle(h) == Suppress(h) \/ Suppressed(h) \/ Restore(h) \/ Restored(h) \/ PreferenceOff(h)
             \/ PreferenceRecorded(h) \/ Other(h) \/ DisableCancel(h) \/ DisableRecorded(h)

-----------------------------------------------------------------------------
\* The world.

\* A queued write reaches the server, in order; the page hears when the queue is empty.
Deliver ==
    /\ net /\ outgoing # <<>>
    /\ server' = Applied(Head(outgoing)) /\ prefs' = AppliedPrefs(Head(outgoing))
    /\ outgoing' = Tail(outgoing)
    /\ timer' = (timer \/ (enabled /\ Tail(outgoing) = <<>>))
    /\ UNCHANGED <<granted, net, now, writes, faults, phone, records, sync, again, handler, ghosts>>

Fault == faults > 0 /\ faults' = faults - 1

\* The server refuses a queued write for good.
Refuse ==
    /\ net /\ outgoing # <<>>
    /\ outgoing' = Tail(outgoing)
    /\ timer' = (timer \/ (enabled /\ Tail(outgoing) = <<>>))
    /\ UNCHANGED <<server, prefs, granted, net, now, writes, faults, phone, records, sync, again,
                   handler, ghosts>>

\* Another device checks a task off, or unchecks it.
OtherDevice ==
    /\ Fault
    /\ \E t \in Tasks :
        /\ ~server[t].deleted
        /\ server' = [server EXCEPT ![t].done = ~@]
        /\ checked' = {c \in checked : c.id # t}
        /\ unheard' = unheard \cup {t}
    /\ UNCHANGED <<prefs, outgoing, granted, net, now, writes, phone, records, sync, again,
                   timer, handler, raced>>

Disconnect ==
    /\ Fault /\ net /\ net' = FALSE
    /\ UNCHANGED <<server, prefs, outgoing, granted, now, writes, phone, records, sync, again,
                   timer, handler, ghosts>>

\* The online event asks for a sync.
Connect ==
    /\ ~net /\ net' = TRUE
    /\ ScheduleSync
    /\ UNCHANGED <<server, prefs, outgoing, granted, now, writes, faults, phone, records, sync,
                   again, handler, ghosts>>

\* The page is shown again after a while.
Resume ==
    /\ ~timer /\ sync.pc = "idle" /\ enabled /\ writes < MaxWrites
    /\ timer' = TRUE /\ writes' = writes + 1
    /\ UNCHANGED <<server, prefs, outgoing, granted, net, now, faults, phone, records, sync,
                   again, handler, ghosts>>

\* The user takes the permission back in Android's settings.
Revoke ==
    /\ Fault /\ granted /\ granted' = FALSE
    /\ UNCHANGED <<server, prefs, outgoing, net, now, writes, phone, records, sync, again,
                   timer, handler, ghosts>>

\* The page ends with whatever it was doing, and starts again: startLocalReminders syncs.
Kill ==
    /\ Fault
    /\ sync' = IdleSync /\ again' = FALSE
    /\ handler' = [h \in Handlers |-> IdleHandler]
    /\ timer' = enabled
    /\ raced' = (raced \/ Busy)
    /\ checked' = {c \in checked : \A h \in Handlers : c \in CutShort(h)}
    /\ UNCHANGED <<server, prefs, outgoing, granted, net, now, writes, phone, records, unheard>>

\* A plugin call fails: the sync stops there; a handler stops, and still asks for a sync.
PluginFails ==
    /\ Fault
    /\ \/ /\ sync.pc \in {"permission", "pending", "cancelled"}
          /\ SyncStops /\ UNCHANGED <<handler, timer, checked>>
       \/ \E h \in Handlers :
            /\ handler[h].pc \in {"note", "disable"} /\ handler[h].kind # "prefsOn"
            /\ HandlerEnds(h) /\ checked' = CutShort(h)
            /\ timer' = (timer \/ (enabled /\ handler[h].pc = "note"))
            /\ UNCHANGED sync
    /\ raced' = TRUE /\ unheard' = Tasks
    /\ UNCHANGED <<server, prefs, outgoing, granted, net, now, writes, phone, records, again>>

\* Time passes: Android shows what is due.
Tick ==
    /\ now < MaxNow /\ now' = now + 1
    /\ phone' = {n \in phone : n.at > now'}
    /\ UNCHANGED <<server, prefs, outgoing, granted, net, writes, faults, records, sync, again,
                   timer, handler, ghosts>>

Next ==
    \/ SyncStart \/ Sync
    \/ \E h \in Handlers : Write(h) \/ Handle(h) \/ Disable(h) \/ Enable(h)
    \/ Deliver \/ Refuse \/ OtherDevice \/ Disconnect \/ Connect \/ Resume \/ Revoke \/ Kill
    \/ PluginFails \/ Tick

\* Timers fire, awaited calls return, the connection comes back, the queue is replayed.
Fairness ==
    /\ WF_vars(SyncStart) /\ WF_vars(Sync) /\ \A h \in Handlers : WF_vars(Handle(h))
    /\ WF_vars(Deliver) /\ WF_vars(Connect)

Spec == Init /\ [][Next]_vars /\ Fairness

-----------------------------------------------------------------------------
TypeOK ==
    /\ server \in [Tasks -> [done : BOOLEAN, deleted : BOOLEAN]]
    /\ prefs \in [reminders : BOOLEAN, summary : BOOLEAN]
    /\ \A i \in DOMAIN outgoing : outgoing[i] \in [kind : Kinds, ids : SUBSET Tasks]
    /\ phone \subseteq Notification
    /\ enabled \in BOOLEAN /\ granted \in BOOLEAN
    /\ scheduled \in [Tasks -> Moment \cup {None}]
    /\ suppressed \in [Tasks -> [at : Moment, since : Nat] \cup {None}]
    /\ summary \in Entry \cup {None}
    /\ sync.pc \in {"idle", "permission", "fetch", "answer", "pending", "cancelled", "scheduled"}
    /\ sync.answer \in Answer \cup {None} /\ sync.alone \in BOOLEAN
    /\ again \in BOOLEAN /\ timer \in BOOLEAN /\ net \in BOOLEAN
    /\ \A h \in Handlers : handler[h].pc \in
            {"idle", "note", "cancelled", "restored", "off", "disable", "disabled"}
    /\ now \in 0 .. MaxNow /\ writes \in 0 .. MaxWrites /\ faults \in 0 .. MaxFaults
    /\ \A c \in checked : c.id \in Tasks /\ c.at \in Moment
    /\ unheard \subseteq Tasks /\ raced \in BOOLEAN

Settled == Idle /\ ~raced

\* A reminder whose task was checked off or deleted here does not come back to the
\* phone before its suppression expires, though the server, which has not heard of
\* it yet, still returns it to every sync.
CheckedStaysQuiet ==
    Settled => \A c \in checked : now - c.since <= TTL => [id |-> c.id, at |-> c.at] \notin phone

\* The phone shows what the page has written down, which is all it can take back:
\* each scheduled reminder ahead, and the summary while it has a task left.
PhoneMatchesRecords ==
    Settled =>
        phone = {n \in TaskNotifications(scheduled) : n.at > now}
                \cup (IF summary # None /\ HasOpenTasks(summary) /\ summary.summary.at > now
                      THEN {[id |-> "summary", at |-> summary.summary.at]} ELSE {})

\* Turned off, nothing is left to ring.
OffIsQuiet == Settled /\ ~enabled => phone = {}

\* What the user has dealt with does not ring: a task checked off, a switch turned off.
StaysQuiet == CheckedStaysQuiet /\ OffIsQuiet

\* However syncs, writes, kills and failures overlap: once the queue is empty the
\* phone holds the server's reminders ahead and its summary, but for the tasks
\* nothing has told the page to ask about, and for what was checked off here and the
\* server returns all the same (a refused write; an answer overtaken by a sync),
\* which stays away until its suppression expires, or the summary's moment comes.
HeldBack(r) == IsSuppressed(r, suppressed)
Current ==
    enabled /\ granted =>
        /\ \A t \in Tasks \ unheard :
                {n \in phone : n.id = t}
                    = {r \in upcomingReminders : r.id = t /\ ~HeldBack(r)}
        /\ unheard = {} /\ (summary # None => summary.done = {}) =>
                {n.at : n \in {m \in phone : m.id = "summary"}}
                    = {s.at : s \in {nextOverdueSummary} \ {None}}
PhoneConverges == <>[]Current
=============================================================================
