----------------------------- MODULE FluvOutbox -----------------------------
(***************************************************************************)
(* The Fluv outbox (internal/fluv, internal/db/fluv.go): checking an item  *)
(* off queues a purchase, which a background sender POSTs to the buyer's   *)
(* Fluv; un-checking it queues its cancellation, a DELETE; a new price or  *)
(* account is a correction.  One purchase is one row of fluv_purchases,    *)
(* under one reference: here its id.                                       *)
(*                                                                         *)
(* A request (a job) reads the item, writes it, then works on the outbox,  *)
(* one SQL statement at a time, while other requests and the sender do the *)
(* same; the database runs one statement at a time.  A row is due whenever *)
(* it is pending: how long it waits is left out.                           *)
(***************************************************************************)
EXTENDS Integers, FiniteSets

CONSTANTS
    Items, Users,
    Jobs,           \* requests (and scans) that may be in progress at once
    Costs,          \* what an item may have cost, 0 for no price
    Price,          \* an item's estimated price, paid when none is entered
    Accounts,       \* the Fluv accounts a purchase may be filed in
    DefaultAccount, \* the one a new purchase is filed in
    None,
    MaxAttempts,    \* attempts before a purchase waits for its user
    MaxOps,         \* bound: requests
    MaxFaults,      \* bound: faults
    Faults          \* the faults that may happen

Ids == 1 .. MaxOps
ItemState == [done : BOOLEAN, paid : Costs \cup {None}]
Content == [amount : Costs, account : Accounts]
Row == [item : Items \cup {None}, user : Users, amount : Costs, account : Accounts,
        desired : {"record", "cancel"}, synced : {"none", "recorded", "cancelled"},
        attempts : Nat, failed : BOOLEAN, inFlight : BOOLEAN, skipped : BOOLEAN]

ASSUME FluvOutboxAssumption ==
    /\ Costs \subseteq Nat /\ Price \in Costs
    /\ DefaultAccount \in Accounts
    /\ None \notin Row /\ None \notin Content /\ None \notin ItemState
    /\ None \notin Costs /\ None \notin Items /\ IsFiniteSet(Jobs)
    /\ MaxAttempts \in Nat \ {0} /\ MaxOps \in Nat /\ MaxFaults \in Nat
    /\ Faults \subseteq {"timeout", "refused", "late", "finish", "crash", "abort"}

VARIABLES
    items,      \* the items: checked off? at what price paid?
    rows,       \* fluv_purchases, None for an id not used or not any more
    nextRow,    \* its next id
    integ,      \* each user's connection to Fluv: none, on or paused
    job,        \* the requests in progress
    sender,     \* the sender: the row it claimed and the outcome of its attempt
    fluv,       \* what the users' Fluv hold, by reference
    late,       \* POSTs that outlived their attempt and are still on their way
    ops, faults

\* What happened, for the properties only: no guard reads these.
VARIABLES
    doubtful,   \* rows whose record may have reached Fluv without their saying so
    untracked   \* bought items whose purchase was not queued, or was deleted

outbox == <<rows, nextRow>>
ghosts == <<doubtful, untracked>>
vars == <<items, outbox, integ, job, sender, fluv, late, ops, faults, ghosts>>

IdleJob == [pc |-> "idle", item |-> None, user |-> None, before |-> None, after |-> None,
            row |-> 0, account |-> DefaultAccount, then |-> "idle"]
Sender(pc) == [pc |-> pc, row |-> 0, snap |-> None, result |-> None]

Init ==
    /\ items = [i \in Items |-> [done |-> FALSE, paid |-> None]]
    /\ rows = [r \in Ids |-> None] /\ nextRow = 1
    /\ integ = [u \in Users |-> "on"]
    /\ job = [j \in Jobs |-> IdleJob]
    /\ sender = Sender("down")
    /\ fluv = [r \in Ids |-> None] /\ late = {}
    /\ ops = 0 /\ faults = 0
    /\ doubtful = {} /\ untracked = {}

-----------------------------------------------------------------------------
\* The rows, and the statements of internal/db/fluv.go.

CostOf(it) == IF it.paid = None THEN Price ELSE it.paid
ContentOf(p) == [amount |-> p.amount, account |-> p.account]

Settled(p) == \/ p.desired = "record" /\ p.synced = "recorded"
              \/ p.desired = "cancel" /\ p.synced = "cancelled"
Pending(p) == ~p.failed /\ ~Settled(p)

\* Mutant: a row is never sent as long as no attempt at it succeeded.
NeverSent_Unrecorded(p) == p.desired = "record" /\ p.synced = "none" /\ ~p.inFlight

NeverSent(p) == /\ p.desired = "record" /\ p.synced = "none"
                /\ p.attempts = 0 /\ ~p.inFlight

RowsOf(i) == {r \in Ids : rows[r] # None /\ rows[r].item = i}
ActiveRows(i) == {r \in RowsOf(i) : rows[r].desired = "record"}
Latest(ids) == CHOOSE r \in ids : \A s \in ids : s <= r

\* Mutant: a row on the wire is settled on the spot too.
Cancelled_OnTheWire(p) ==
    IF p = None \/ p.desired = "cancel" THEN p
    ELSE [p EXCEPT !.synced = IF p.synced = "none" /\ p.attempts = 0 THEN "cancelled" ELSE @,
                   !.desired = "cancel", !.failed = FALSE, !.attempts = 0]

\* CancelFluvPurchase: settled on the spot if it was never sent.
Cancelled(p) ==
    IF p = None \/ p.desired = "cancel" THEN p
    ELSE [p EXCEPT !.synced = IF NeverSent(p) THEN "cancelled" ELSE @,
                   !.desired = "cancel", !.failed = FALSE, !.attempts = 0]

\* RepriceUnsentFluvPurchase and SetFluvPurchaseAccount: may the row be rewritten?
CanReprice(p) == p # None /\ NeverSent(p)
CanRefile(p) == p # None /\ (NeverSent(p) \/ p.skipped)

NewRow(j) ==
    [item |-> job[j].item, user |-> job[j].user, amount |-> CostOf(job[j].after),
     account |-> job[j].account, desired |-> "record", synced |-> "none", attempts |-> 0,
     failed |-> FALSE, inFlight |-> FALSE, skipped |-> FALSE]

InsertRow(j) ==
    /\ rows' = [rows EXCEPT ![nextRow] = NewRow(j)]
    /\ nextRow' = nextRow + 1
    /\ untracked' = untracked \ {job[j].item}

SetJob(j, new) == job' = [job EXCEPT ![j] = new]
Goto(j, pc) == SetJob(j, IF pc = "idle" THEN IdleJob ELSE [job[j] EXCEPT !.pc = pc])

\* A request works on the outbox only.
OnOutbox == UNCHANGED <<items, integ, sender, fluv, late, ops, faults, doubtful>>

-----------------------------------------------------------------------------
\* PATCH of an item: the handler reads the item ...
ReadItem(j) ==
    /\ job[j].pc = "idle" /\ ops < MaxOps /\ ops' = ops + 1
    /\ \E i \in Items, u \in Users, it \in ItemState :
        /\ it # items[i] /\ (it.done \/ it.paid = None)
        /\ SetJob(j, [IdleJob EXCEPT !.pc = "write", !.item = i, !.user = u,
                                     !.before = items[i], !.after = it])
    /\ UNCHANGED <<items, outbox, integ, sender, fluv, late, faults, ghosts>>

\* Mutant: a price changed while bought is not looked at.
Notice_ChecksOnly(before, after) ==
    CASE ~before.done /\ after.done -> "record"
      [] before.done /\ ~after.done -> "uncheck"
      [] OTHER -> "idle"

\* ItemChanged: what Fluv must learn of it.
Notice(before, after) ==
    CASE ~before.done /\ after.done -> "record"
      [] before.done /\ ~after.done -> "uncheck"
      [] before.done /\ after.done -> "correct"
      [] OTHER -> "idle"

\* ... writes it whole, the price paid only if this request changed it, and
\* reports the change.
WriteItem(j) ==
    /\ job[j].pc = "write"
    /\ LET i == job[j].item
           paid == IF job[j].after.paid # job[j].before.paid THEN job[j].after.paid
                   ELSE items[i].paid
           new == [done |-> job[j].after.done, paid |-> paid]
           pc == Notice(job[j].before, new)
       IN  /\ items' = [items EXCEPT ![i] = new]
           /\ SetJob(j, IF pc = "idle" THEN IdleJob
                        ELSE [job[j] EXCEPT !.pc = pc, !.after = new])
    /\ UNCHANGED <<outbox, integ, sender, fluv, late, ops, faults, ghosts>>

\* Mutant: correct goes on after it recorded the purchase.
RecordPurchase_FallsThrough(j) ==
    /\ job[j].pc = "record"
    /\ IF CostOf(job[j].after) > 0 /\ integ[job[j].user] = "on"
       THEN InsertRow(j)
       ELSE /\ untracked' = IF CostOf(job[j].after) > 0
                            THEN untracked \cup {job[j].item} ELSE untracked
            /\ UNCHANGED outbox
    /\ Goto(j, "insert")
    /\ OnOutbox

\* record: queued for the Fluv of the person who checked it off, if theirs is on.
RecordPurchase(j) ==
    /\ job[j].pc = "record"
    /\ IF CostOf(job[j].after) > 0 /\ integ[job[j].user] = "on"
       THEN InsertRow(j)
       ELSE /\ untracked' = IF CostOf(job[j].after) > 0
                            THEN untracked \cup {job[j].item} ELSE untracked
            /\ UNCHANGED outbox
    /\ Goto(j, "idle")
    /\ OnOutbox

\* An un-check clears the skips.
Uncheck(j) ==
    /\ job[j].pc = "uncheck"
    /\ rows' = [r \in Ids |-> IF r \in RowsOf(job[j].item)
                              THEN [rows[r] EXCEPT !.skipped = FALSE] ELSE rows[r]]
    /\ Goto(j, "lookup")
    /\ UNCHANGED <<nextRow, untracked>> /\ OnOutbox

\* cancelItem: look up the current purchase ...
LookUp(j) ==
    /\ job[j].pc = "lookup"
    /\ LET active == ActiveRows(job[j].item)
       IN  SetJob(j, IF active = {} THEN IdleJob
                     ELSE [job[j] EXCEPT !.pc = "cancel", !.row = Latest(active)])
    /\ UNCHANGED <<outbox, untracked>> /\ OnOutbox

\* ... and cancel it (also the first step of a skip, of a correction, of a refiling).
CancelPurchase(j) ==
    /\ job[j].pc = "cancel"
    /\ rows' = [rows EXCEPT ![job[j].row] = Cancelled(@)]
    /\ Goto(j, job[j].then)
    /\ UNCHANGED <<nextRow, untracked>> /\ OnOutbox

\* correct: look up the current purchase of an item that stays bought.
Correct(j) ==
    /\ job[j].pc = "correct"
    /\ LET i == job[j].item
           cost == CostOf(job[j].after)
           active == ActiveRows(i)
           r == Latest(active)
           latest == Latest(RowsOf(i))
       IN  SetJob(j,
             IF active = {}
             THEN IF \/ CostOf(job[j].before) > 0 \/ cost = 0
                     \/ RowsOf(i) # {} /\ rows[latest].skipped
                  THEN IdleJob ELSE [job[j] EXCEPT !.pc = "record"]
             ELSE IF rows[r].amount = cost THEN IdleJob
             ELSE IF cost = 0 THEN [job[j] EXCEPT !.pc = "lookup"]
             ELSE [job[j] EXCEPT !.pc = "reprice", !.row = r, !.user = rows[r].user,
                                 !.account = rows[r].account])
    /\ UNCHANGED <<outbox, untracked>> /\ OnOutbox

\* In place while it was never sent, else cancelled and queued again.
Reprice(j) ==
    /\ job[j].pc = "reprice"
    /\ LET r == job[j].row
       IN  IF CanReprice(rows[r])
           THEN /\ rows' = [rows EXCEPT ![r].amount = CostOf(job[j].after)]
                /\ Goto(j, "idle")
           ELSE /\ SetJob(j, [job[j] EXCEPT !.pc = "cancel", !.then = "insert"])
                /\ UNCHANGED rows
    /\ UNCHANGED <<nextRow, untracked>> /\ OnOutbox

\* Mutant: the item is queued again only if its buyer's connection is on.
InsertPurchase_IfOn(j) ==
    /\ job[j].pc = "insert"
    /\ IF CostOf(job[j].after) > 0 /\ integ[job[j].user] = "on"
       THEN InsertRow(j) ELSE UNCHANGED <<outbox, untracked>>
    /\ Goto(j, "idle")
    /\ OnOutbox

\* resend, and the last step of correct.
InsertPurchase(j) ==
    /\ job[j].pc = "insert"
    /\ IF CostOf(job[j].after) > 0 THEN InsertRow(j) ELSE UNCHANGED <<outbox, untracked>>
    /\ Goto(j, "idle")
    /\ OnOutbox

-----------------------------------------------------------------------------
\* SetItemPurchase: the buyer's options for one purchase of a bought item - file
\* it in another account, keep it out of Fluv (skip), or send it again.
ReadPurchase(j) ==
    /\ job[j].pc = "idle" /\ ops < MaxOps /\ ops' = ops + 1
    /\ \E i \in Items, account \in Accounts, skip \in BOOLEAN :
        /\ items[i].done /\ RowsOf(i) # {}
        /\ LET r == Latest(RowsOf(i))
               p == rows[r]
               at(pc, then) == [IdleJob EXCEPT !.pc = pc, !.item = i, !.user = p.user, !.row = r,
                                               !.after = items[i], !.account = account,
                                               !.then = then]
           IN  /\ p.desired = "record" \/ p.skipped
               /\ SetJob(j, CASE p.skipped /\ skip -> at("file", "idle")
                              [] ~p.skipped /\ skip -> at("cancel", "flag")
                              [] p.skipped /\ ~skip -> at("unflag", "insert")
                              [] OTHER -> IF p.account = account THEN IdleJob
                                          ELSE at("refile", "idle"))
    /\ UNCHANGED <<items, outbox, integ, sender, fluv, late, faults, ghosts>>

\* SetFluvPurchaseSkipped.
FlagSkipped(j) ==
    /\ job[j].pc \in {"flag", "unflag"}
    /\ LET r == job[j].row
       IN  rows' = IF rows[r] = None THEN rows
                   ELSE [rows EXCEPT ![r].skipped = (job[j].pc = "flag")]
    /\ Goto(j, IF job[j].pc = "flag" THEN "file" ELSE "insert")
    /\ UNCHANGED <<nextRow, untracked>> /\ OnOutbox

\* Mutant: sent again in the other account, without taking back the first.
FilePurchase_KeepsBoth(j) ==
    /\ job[j].pc \in {"file", "refile"}
    /\ LET r == job[j].row
           ok == CanRefile(rows[r])
       IN  /\ rows' = IF ok THEN [rows EXCEPT ![r].account = job[j].account] ELSE rows
           /\ SetJob(j, IF job[j].pc = "file" \/ ok THEN IdleJob
                        ELSE [job[j] EXCEPT !.pc = "insert"])
    /\ UNCHANGED <<nextRow, untracked>> /\ OnOutbox

\* SetFluvPurchaseAccount; refile goes on to cancel and queue again if it could not.
FilePurchase(j) ==
    /\ job[j].pc \in {"file", "refile"}
    /\ LET r == job[j].row
           ok == CanRefile(rows[r])
       IN  /\ rows' = IF ok THEN [rows EXCEPT ![r].account = job[j].account] ELSE rows
           /\ SetJob(j, IF job[j].pc = "file" \/ ok THEN IdleJob
                        ELSE [job[j] EXCEPT !.pc = "cancel", !.then = "insert"])
    /\ UNCHANGED <<nextRow, untracked>> /\ OnOutbox

\* ActivateNextOccurrence (the scan of recurring items) and ReactivateItem (a
\* product added again): the item is to buy again ...
Reactivate(j) ==
    /\ job[j].pc = "idle"
    /\ \E i \in Items :
        /\ items[i].done
        /\ items' = [items EXCEPT ![i] = [done |-> FALSE, paid |-> None]]
        /\ SetJob(j, [IdleJob EXCEPT !.pc = "detach", !.item = i])
    /\ UNCHANGED <<outbox, integ, sender, fluv, late, ops, faults, ghosts>>

Detached(ids) == [r \in Ids |-> IF r \in ids THEN [rows[r] EXCEPT !.item = None] ELSE rows[r]]

\* ... and detachFluvPurchases: its purchases so far happened.
DetachPurchases(j) ==
    /\ job[j].pc = "detach"
    /\ rows' = Detached(RowsOf(job[j].item))
    /\ Goto(j, "idle")
    /\ UNCHANGED <<nextRow, untracked>> /\ OnOutbox

\* DeleteItem, when no request holds the item: item_id is SET NULL.  A new item
\* takes its place in the model.
DeleteItem(i) ==
    /\ \A j \in Jobs : job[j].item # i
    /\ items' = [items EXCEPT ![i] = [done |-> FALSE, paid |-> None]]
    /\ rows' = Detached(RowsOf(i))
    /\ UNCHANGED <<nextRow, integ, job, sender, fluv, late, ops, faults, ghosts>>

Request(j) ==
    \/ ReadItem(j) \/ ReadPurchase(j) \/ Reactivate(j)

Step(j) ==
    \/ WriteItem(j) \/ RecordPurchase(j) \/ Uncheck(j) \/ LookUp(j) \/ CancelPurchase(j)
    \/ Correct(j) \/ Reprice(j) \/ InsertPurchase(j) \/ FlagSkipped(j) \/ FilePurchase(j)
    \/ DetachPurchases(j)

-----------------------------------------------------------------------------
\* The connection settings.

\* RetryFailedFluvPurchases: due at once, with fresh counters.
RetryFailed(u) ==
    LET retried == {r \in Ids : rows[r] # None /\ rows[r].user = u /\ rows[r].failed}
    IN  /\ rows' = [r \in Ids |-> IF r \in retried
                                  THEN [rows[r] EXCEPT !.failed = FALSE, !.attempts = 0]
                                  ELSE rows[r]]
        /\ doubtful' = doubtful \cup {r \in retried : rows[r].desired = "record"}

\* Save also retries what failed.
SaveConnection(u) ==
    /\ ops < MaxOps /\ ops' = ops + 1
    /\ \E to \in {"on", "paused"} : integ' = [integ EXCEPT ![u] = to]
    /\ RetryFailed(u)
    /\ UNCHANGED <<items, nextRow, job, sender, fluv, late, faults, untracked>>

Retry(u) ==
    /\ ops < MaxOps /\ ops' = ops + 1
    /\ RetryFailed(u)
    /\ UNCHANGED <<items, nextRow, integ, job, sender, fluv, late, faults, untracked>>

\* Ghost: the items left without a current purchase when rows ids go.
Losing(ids) == {i \in {rows[r].item : r \in ids} : ActiveRows(i) \ ids = {}}

\* DeleteFluvIntegration removes the outbox too.
Disconnect(u) ==
    /\ ops < MaxOps /\ ops' = ops + 1
    /\ integ[u] # "none"
    /\ integ' = [integ EXCEPT ![u] = "none"]
    /\ LET theirs == {r \in Ids : rows[r] # None /\ rows[r].user = u}
       IN  /\ rows' = [r \in Ids |-> IF r \in theirs THEN None ELSE rows[r]]
           /\ untracked' = untracked \cup Losing(theirs)
    /\ UNCHANGED <<items, nextRow, job, sender, fluv, late, faults, doubtful>>

\* PruneFluvPurchases: a row settled long ago.
Prune(r) ==
    /\ sender.pc = "idle"
    /\ rows[r] # None /\ Settled(rows[r]) /\ ~rows[r].failed /\ ~rows[r].inFlight
    /\ rows' = [rows EXCEPT ![r] = None]
    /\ untracked' = untracked \cup Losing({r})
    /\ UNCHANGED <<items, nextRow, integ, job, sender, fluv, late, ops, faults, doubtful>>

-----------------------------------------------------------------------------
\* The sender (Run, SendDue, deliver): one purchase at a time.

\* What the sender does not touch.
OnSending == UNCHANGED <<items, nextRow, integ, job, ops, untracked>>
Fault(kind) == kind \in Faults /\ faults < MaxFaults /\ faults' = faults + 1

\* ReleaseFluvPurchases, first thing after a start.
Release ==
    /\ sender.pc = "down"
    /\ sender' = Sender("idle")
    /\ LET sent == {r \in Ids : rows[r] # None /\ rows[r].inFlight}
       IN  /\ rows' = [r \in Ids |-> IF r \in sent THEN [rows[r] EXCEPT !.inFlight = FALSE]
                                     ELSE rows[r]]
           /\ doubtful' = doubtful \cup {r \in sent : rows[r].desired = "record"}
    /\ UNCHANGED <<fluv, late, faults>> /\ OnSending

\* ClaimNextFluvPurchase.
Claim(r) ==
    /\ sender.pc = "idle"
    /\ rows[r] # None /\ Pending(rows[r]) /\ ~rows[r].inFlight /\ integ[rows[r].user] = "on"
    /\ rows' = [rows EXCEPT ![r].inFlight = TRUE]
    /\ sender' = [pc |-> "send", row |-> r, snap |-> rows[r], result |-> None]
    /\ UNCHANGED <<fluv, late, faults, doubtful>> /\ OnSending

\* deliver, when the connection was removed meanwhile.
Drop ==
    /\ sender.pc = "send" /\ integ[sender.snap.user] = "none"
    /\ sender' = Sender("idle")
    /\ UNCHANGED <<rows, fluv, late, faults, doubtful>> /\ OnSending

\* Fluv: a POST of a reference it holds changes nothing; a DELETE of one it does
\* not hold is a 404.
Post(r, c) == IF fluv[r] = None THEN [fluv EXCEPT ![r] = c] ELSE fluv
Applied == IF sender.snap.desired = "record" THEN Post(sender.row, ContentOf(sender.snap))
           ELSE [fluv EXCEPT ![sender.row] = None]

Sending == sender.pc = "send" /\ integ[sender.snap.user] # "none"
Outcome(result) == sender' = [sender EXCEPT !.pc = "finish", !.result = result]

\* The request is applied and its answer comes back ...
Deliver ==
    /\ Sending /\ fluv' = Applied /\ Outcome("ok")
    /\ UNCHANGED <<rows, late, faults, doubtful>> /\ OnSending

\* ... or does not: it is applied or not, nobody knows ...
TimeOut ==
    /\ Sending /\ Fault("timeout") /\ fluv' \in {fluv, Applied} /\ Outcome("error")
    /\ UNCHANGED <<rows, late, doubtful>> /\ OnSending

\* ... or Fluv applies it later ...
Delay ==
    /\ Sending /\ sender.snap.desired = "record" /\ Fault("late")
    /\ late' = late \cup {[row |-> sender.row, content |-> ContentOf(sender.snap)]}
    /\ doubtful' = doubtful \cup {sender.row}
    /\ Outcome("error")
    /\ UNCHANGED <<rows, fluv>> /\ OnSending

\* ... or it is refused for good (401, 403, 422, settings that cannot be used).
Refuse ==
    /\ Sending /\ Fault("refused") /\ Outcome("refused")
    /\ UNCHANGED <<rows, fluv, late, doubtful>> /\ OnSending

Send == Deliver \/ TimeOut \/ Delay \/ Refuse

LateArrives ==
    \E l \in late :
        /\ fluv' = Post(l.row, l.content)
        /\ late' = late \ {l}
        /\ UNCHANGED <<rows, sender, faults, doubtful>> /\ OnSending

\* Mutant: the outcome is taken for what the row wants now, not for what was sent.
Finished_AsWanted(p) ==
    LET attempts == sender.snap.attempts + 1
    IN  [p EXCEPT !.inFlight = FALSE, !.attempts = attempts,
                  !.synced = IF sender.result # "ok" THEN sender.snap.synced
                             ELSE IF p.desired = "record" THEN "recorded" ELSE "cancelled",
                  !.failed = \/ sender.result = "refused"
                             \/ sender.result = "error" /\ attempts >= MaxAttempts]

\* FinishFluvAttempt: counters start over if the row was cancelled meanwhile.
Finished(p) ==
    LET acted == sender.snap.desired
        attempts == sender.snap.attempts + 1
        failed == \/ sender.result = "refused"
                  \/ sender.result = "error" /\ attempts >= MaxAttempts
    IN  [p EXCEPT !.inFlight = FALSE,
                  !.synced = IF sender.result # "ok" THEN sender.snap.synced
                             ELSE IF acted = "record" THEN "recorded" ELSE "cancelled",
                  !.failed = (p.desired = acted /\ failed),
                  !.attempts = IF p.desired = acted THEN attempts ELSE 0]

Finish ==
    /\ sender.pc = "finish"
    /\ LET r == sender.row
       IN  rows' = IF rows[r] = None THEN rows ELSE [rows EXCEPT ![r] = Finished(@)]
    /\ sender' = Sender("idle")
    /\ UNCHANGED <<fluv, late, faults, doubtful>> /\ OnSending

\* The outcome could not be recorded: logged, and the sender goes on.
FinishFails ==
    /\ sender.pc = "finish" /\ Fault("finish")
    /\ sender' = Sender("idle")
    /\ UNCHANGED <<rows, fluv, late, doubtful>> /\ OnSending

Sends == Release \/ (\E r \in Ids : Claim(r)) \/ Drop \/ Send \/ Finish

-----------------------------------------------------------------------------
\* The process stops: requests and sender are gone, the database stays.
Crash ==
    /\ Fault("crash") /\ sender.pc # "down"
    /\ sender' = Sender("down")
    /\ job' = [j \in Jobs |-> IdleJob]
    /\ UNCHANGED <<items, outbox, integ, fluv, late, ops, ghosts>>

\* The client of a request that runs on its own context goes away.
Abort(j) ==
    /\ Fault("abort") /\ job[j].pc # "idle" /\ job[j].before = None
    /\ Goto(j, "idle")
    /\ UNCHANGED <<items, outbox, integ, sender, fluv, late, ops, ghosts>>

Next ==
    \/ \E j \in Jobs : Request(j) \/ Step(j) \/ Abort(j)
    \/ \E i \in Items : DeleteItem(i)
    \/ \E u \in Users : SaveConnection(u) \/ Retry(u) \/ Disconnect(u)
    \/ \E r \in Ids : Prune(r)
    \/ Sends \/ LateArrives \/ FinishFails \/ Crash

\* Handlers run to their end, and the sender looks for due rows for ever.
Fairness == WF_vars(Sends) /\ \A j \in Jobs : WF_vars(Step(j))

Spec == Init /\ [][Next]_vars /\ Fairness

-----------------------------------------------------------------------------
Job == [pc : {"idle", "write", "record", "uncheck", "lookup", "cancel", "correct",
             "reprice", "insert", "flag", "unflag", "file", "refile", "detach"},
        item : Items \cup {None}, user : Users \cup {None},
        before : ItemState \cup {None}, after : ItemState \cup {None},
        row : Ids \cup {0}, account : Accounts, then : {"idle", "insert", "flag"}]

\* Every variable keeps its type, and a reference is never used beyond the bound: each
\* request queues at most one purchase.
TypeOK ==
    /\ items \in [Items -> ItemState]
    /\ rows \in [Ids -> Row \cup {None}] /\ nextRow \in 1 .. MaxOps + 1
    /\ integ \in [Users -> {"none", "on", "paused"}]
    /\ job \in [Jobs -> Job]
    /\ sender \in [pc : {"down", "idle", "send", "finish"}, row : Ids \cup {0},
                   snap : Row \cup {None}, result : {"ok", "error", "refused", None}]
    /\ fluv \in [Ids -> Content \cup {None}]
    /\ late \subseteq [row : Ids, content : Content]
    /\ ops \in 0 .. MaxOps /\ faults \in 0 .. MaxFaults
    /\ doubtful \subseteq Ids /\ untracked \subseteq Items \cup {None}

\* What a row says Fluv holds is what it holds - recorded with the amount and
\* account of the row, or gone - unless the row's history was forgotten.
Truthful(r) ==
    LET p == rows[r]
    IN  /\ p.desired = "record" /\ p.synced = "recorded" => fluv[r] = ContentOf(p)
        /\ p.synced = "cancelled" => fluv[r] = None
SettledIsTrue == \A r \in Ids : rows[r] # None /\ r \notin doubtful => Truthful(r)

\* A row only goes from record to cancel, and stays cancelled once it is.
RowsOnlyGoForward ==
    [][\A r \in Ids : rows[r] # None /\ rows'[r] # None =>
        /\ rows[r].desired = "cancel" => rows'[r].desired = "cancel"
        /\ rows[r].synced = "cancelled" => rows'[r].synced = "cancelled"]_vars

\* Between two requests, as the outbox should mirror whether an item is bought:
Quiet(i) == \A j \in Jobs : job[j].item # i

\* - no purchase is meant for Fluv while the item is not bought, and each is at
\* what the item cost while it is;
PurchaseFollowsItem ==
    \A i \in Items : Quiet(i) =>
        \A r \in ActiveRows(i) : items[i].done /\ rows[r].amount = CostOf(items[i])

\* - an item is bought once, however often it is checked, repriced or refiled;
OnePurchase == \A i \in Items : Quiet(i) => Cardinality(ActiveRows(i)) <= 1

\* - a bought item with a price keeps its purchase, unless its buyer keeps it out
\* of Fluv: no correction or refiling cancels one without queueing the next.
PurchaseKept ==
    \A i \in Items : Quiet(i) /\ items[i].done /\ CostOf(items[i]) > 0 /\ i \notin untracked =>
        ActiveRows(i) # {} \/ (RowsOf(i) # {} /\ rows[Latest(RowsOf(i))].skipped)

\* Once Fluv and the database behave, Fluv ends up holding what the outbox wants, but
\* for the rows that wait for their user, or, in flight, for the process to restart.
LeftInFlight(r) == rows[r].inFlight /\ sender.row # r
CaughtUp(r) ==
    LET p == rows[r]
    IN  \/ p.failed \/ integ[p.user] # "on" \/ LeftInFlight(r)
        \/ fluv[r] = IF p.desired = "record" THEN ContentOf(p) ELSE None
FluvCatchesUp ==
    <>[](\A r \in Ids : rows[r] # None /\ r \notin doubtful => CaughtUp(r))

\* CancelFluvPurchase's comment: what reached Fluv is queued for a cancellation, so
\* a settled cancellation is gone from Fluv, whatever happened before.
CancelledIsGone ==
    \A r \in Ids : rows[r] # None /\ rows[r].synced = "cancelled" => fluv[r] = None
=============================================================================
