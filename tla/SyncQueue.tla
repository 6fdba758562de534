----------------------------- MODULE SyncQueue -----------------------------
(***************************************************************************)
(* The offline write queue of the service worker (static/sw.js) over its   *)
(* IndexedDB stores (static/js/db.js) and the server's list and item       *)
(* routes.  A write of the page goes to the network first; when that fails *)
(* it is answered at once from the local mirror and recorded in the queue, *)
(* which flushQueue later replays in order.                                *)
(*                                                                         *)
(* The worker is one thread, but its handlers interleave at every await:   *)
(* the page's write handler (page), the replay pass (flush) and a mirrored *)
(* GET (get) each keep what they hold between two awaits.  A row is a list *)
(* (list = None) or an item; its contents are the number of the last write *)
(* it shows (val) and its updated_at (at), both read from one clock.       *)
(***************************************************************************)
EXTENDS Integers, FiniteSets

CONSTANTS
    TempLists,          \* ids generateTempId can give to lists created offline
    TempItems,          \* ids generateTempId can give to items created offline
    ServerItems,        \* items of list 1 the server holds at first
    None,               \* null
    MaxWrites,          \* bound: writes of the page
    MaxFaults,          \* bound: lost connections, lost answers, worker kills, ...
    MaxRefusals,        \* bound: writes the server refuses for a reason of its own
    Overlap             \* may the page write while a replay pass runs, and use a
                        \* temp id it has not seen replaced yet?

TempIds == TempLists \cup TempItems

ASSUME SyncQueueAssumption ==
    /\ TempLists \cap TempItems = {}
    /\ TempIds \cap Nat = {}
    /\ None \notin TempIds \cup Nat
    /\ ServerItems \subseteq {2}
    /\ MaxWrites \in Nat /\ MaxFaults \in Nat /\ MaxRefusals \in Nat
    /\ Overlap \in BOOLEAN

VARIABLES
    server,     \* the rows of the server's lists and items tables
    nextId,     \* the next id the server gives
    mirror,     \* the lists and items stores of IndexedDB
    queue,      \* the queue store of IndexedDB
    nextKey,    \* the queue's autoincrement key
    used,       \* temp ids given so far
    page,       \* the write handler in progress: pc, request, queue entries read
    flush,      \* the replay pass in progress: pc, snapshot, entry, answer
    get,        \* the answer of a GET /lists/{id} not mirrored yet, or None
    net,        \* does a request reach the server now?
    session,    \* does the browser hold a live session?
    clock,      \* writes and server updates so far: write numbers and updated_at
    writes,     \* writes the page made so far
    faults,     \* faults left
    refusals    \* refusals left

\* What happened, for the properties only: no guard reads these.
VARIABLES
    accepted,   \* writes the page was told are queued (202) or folded (200)
    landed,     \* writes the server applied
    dropped,    \* queued writes the server refused or the user withdrew
    answered,   \* keys of the entries the server answered, 2xx or definitive 4xx
    withdrawn,  \* keys of the entries a DELETE of the page cancelled
    skipped,    \* keys cancelled because their list's create was refused
    posts,      \* times the server applied a create, by temp id
    lost,       \* times such a create's outcome was lost on the way back
    cut         \* rows whose creation a kill cut short, or whose removal, once
                \* refused, the end of the pass

local == <<mirror, queue, nextKey, used>>
env == <<net, session, faults, refusals>>
outcome == <<accepted, landed, dropped, answered, withdrawn, skipped, posts, lost, cut>>
vars == <<server, nextId, local, page, flush, get, clock, writes, env, outcome>>

Lists == TempLists \cup Nat
Ids == TempIds \cup Nat
Row == [id : Ids, list : Lists \cup {None}, val : Nat, at : Nat]
ServerRow == [id : Nat, list : Nat \cup {None}, val : Nat, at : Nat]
Request == [kind : {"create", "edit", "delete"}, row : Ids, list : Lists \cup {None}, op : Nat]
Entry == [key : Nat, kind : {"create", "edit", "delete"}, row : Ids,
          list : Lists \cup {None}, dep : TempLists \cup {None}, op : Nat, ops : SUBSET Nat]
Page == [pc : {"idle", "queue", "enqueue", "resolve"}, req : Request \cup {None},
         read : SUBSET Entry]
Flush == [pc : {"idle", "next", "answer", "remap", "discard"}, snap : SUBSET Entry,
          cur : Entry \cup {None}, newId : Nat \cup {None},
          status : {"ok", "unauthorized", "refused", "gone", None}]
Get == [list : Nat, rows : SUBSET ServerRow]

IdlePage == [pc |-> "idle", req |-> None, read |-> {}]
IdleFlush == [pc |-> "idle", snap |-> {}, cur |-> None, status |-> None, newId |-> None]

Init ==
    /\ server = {[id |-> 1, list |-> None, val |-> 0, at |-> 0]}
                \cup [id : ServerItems, list : {1}, val : {0}, at : {0}]
    /\ nextId = 3
    /\ mirror = server
    /\ queue = {} /\ nextKey = 1
    /\ used = {} /\ page = IdlePage /\ flush = IdleFlush /\ get = None
    /\ net = FALSE /\ session = TRUE
    /\ clock = 0 /\ writes = 0
    /\ faults = MaxFaults /\ refusals = MaxRefusals
    /\ accepted = {} /\ landed = {} /\ dropped = {}
    /\ answered = {} /\ withdrawn = {} /\ skipped = {}
    /\ posts = [t \in TempIds |-> 0] /\ lost = [t \in TempIds |-> 0]
    /\ cut = {}

-----------------------------------------------------------------------------
\* Rows: the same shape on the server and in the mirror.

HasRow(rows, id) == \E r \in rows : r.id = id
RowOf(rows, id) == CHOOSE r \in rows : r.id = id
Items(rows, id) == {r \in rows : r.list = id}

\* putList/putItem: an unconditional upsert.
Put(rows, new) == {r \in rows : \A n \in new : r.id # n.id} \cup new

\* deleteList cascades to the list's items; deleteItem has none.
Delete(rows, id) == {r \in rows : r.id # id /\ r.list # id}

\* isStaleWrite: an incoming row older, by its updated_at, than the mirrored one.
IsStale(rows, r) == \E m \in rows : m.id = r.id /\ r.at < m.at

\* getOne: the mirrored row, or a bare { id } when there is none.
Existing(id) == IF HasRow(mirror, id) THEN RowOf(mirror, id)
                ELSE [id |-> id, list |-> None, val |-> 0, at |-> 0]

\* Mutant: rows the server no longer has are never pruned.
MirrorRead_NoPrune(l, rows) == Put(mirror, {r \in rows : ~IsStale(mirror, r)})

\* mirrorReadResponse of GET /lists/{id}: upsert what is not stale, then
\* pruneRemovedListItems drops the list's other items, save temporary ones.
MirrorRead(l, rows) ==
    LET merged == Put(mirror, {r \in rows : ~IsStale(mirror, r)})
    IN  {m \in merged : m.list = l /\ m.id \notin TempIds => HasRow(rows, m.id)}

\* Mutant: a folded or remapped entry is changed in memory and never stored.
UpdateQueueEntry_InMemoryOnly(e) == {q \in queue : q.key = q.key}

\* updateQueueEntry: put never checks that the key is still there.
UpdateQueueEntry(e) == {q \in queue : q.key # e.key} \cup {e}
Dequeue(keys) == {q \in queue : q.key \notin keys}
Keys(entries) == {e.key : e \in entries}
OpsOf(entries) == UNION {e.ops : e \in entries}
Oldest(entries) == CHOOSE e \in entries : \A f \in entries : e.key <= f.key

-----------------------------------------------------------------------------
\* The server's answer to a request: a create whose list_id is a temp id is no
\* integer (400); a create in a list that is gone, or a write to a row that is
\* gone, is 404; anything else is applied in one transaction.

Gone(r) == IF r.kind = "create" THEN r.list # None /\ ~HasRow(server, r.list)
           ELSE ~HasRow(server, r.row)

StatusOf(r) == IF ~session THEN "unauthorized"
               ELSE IF r.kind = "create" /\ r.list \in TempLists THEN "refused"
               ELSE IF Gone(r) THEN "gone"
               ELSE "ok"

\* The row a create or an edit leaves on the server.
Written(r) == IF r.kind = "create"
              THEN [id |-> nextId, list |-> r.list, val |-> r.op, at |-> clock + 1]
              ELSE [RowOf(server, r.row) EXCEPT !.val = r.op, !.at = clock + 1]

Apply(r) ==
    /\ clock' = clock + 1
    /\ server' = IF r.kind = "delete" THEN Delete(server, r.row)
                 ELSE Put(server, {Written(r)})
    /\ nextId' = IF r.kind = "create" THEN nextId + 1 ELSE nextId

\* Ghost: the server applied create t (n = 1) or its answer was lost (n = 1).
Count(f, r, n) == IF r.kind = "create" THEN [f EXCEPT ![r.row] = @ + n] ELSE f

-----------------------------------------------------------------------------
\* The page's writes: handleApiWrite, then queueOfflineWrite when it fails.

CanWrite == page.pc = "idle" /\ writes < MaxWrites /\ (Overlap \/ flush.pc = "idle")

MirroredLists == {m.id : m \in {r \in mirror : r.list = None}} \ TempItems

Requests ==
    [kind : {"create"}, row : TempLists \ used, list : {None}, op : {clock + 1}]
    \cup [kind : {"create"}, row : TempItems \ used, list : MirroredLists, op : {clock + 1}]
    \cup [kind : {"edit", "delete"}, list : {None}, op : {clock + 1},
          row : {m.id : m \in mirror} \cup (IF Overlap THEN used ELSE {})]

\* The request reaches the server and its answer comes back; mirrorWriteResult
\* puts the answer in the mirror.
WriteOnline(r) ==
    /\ CanWrite /\ net
    /\ r.kind = "create" \/ r.row \in Nat
    /\ StatusOf(r) = "ok"
    /\ Apply(r)
    /\ mirror' = IF r.kind = "delete" THEN Delete(mirror, r.row) ELSE Put(mirror, {Written(r)})
    /\ landed' = landed \cup {r.op}
    /\ writes' = writes + 1
    /\ UNCHANGED <<queue, nextKey, used, page, flush, get, env, accepted, dropped,
                   answered, withdrawn, skipped, posts, lost, cut>>

\* The request never reaches the server.
WriteFails(r) ==
    /\ CanWrite /\ ~net
    /\ page' = [IdlePage EXCEPT !.pc = "queue", !.req = r]
    /\ clock' = clock + 1
    /\ writes' = writes + 1
    /\ UNCHANGED <<server, nextId, local, flush, get, env, outcome>>

\* The server applies the request and the answer is lost on the way back.
WriteAnswerLost(r) ==
    /\ CanWrite /\ net /\ faults > 0
    /\ r.kind = "create" \/ r.row \in Nat
    /\ StatusOf(r) = "ok"
    /\ Apply(r)
    /\ net' = FALSE /\ faults' = faults - 1
    /\ page' = [IdlePage EXCEPT !.pc = "queue", !.req = r]
    /\ writes' = writes + 1
    /\ landed' = landed \cup {r.op}
    /\ posts' = Count(posts, r, 1) /\ lost' = Count(lost, r, 1)
    /\ UNCHANGED <<local, flush, get, session, refusals, accepted, dropped,
                   answered, withdrawn, skipped, cut>>

HandleApiWrite == \E r \in Requests : WriteOnline(r) \/ WriteFails(r) \/ WriteAnswerLost(r)

\* queueOfflineWrite of a create: a temp id, the optimistic row in the mirror ...
QueueCreate ==
    /\ page.pc = "queue" /\ page.req.kind = "create"
    /\ mirror' = Put(mirror, {[id |-> page.req.row, list |-> page.req.list,
                               val |-> page.req.op, at |-> page.req.op]})
    /\ used' = used \cup {page.req.row}
    /\ page' = [page EXCEPT !.pc = "enqueue"]
    /\ UNCHANGED <<server, nextId, queue, nextKey, flush, get, clock, writes, env, outcome>>

\* Mutant: an item depends on its list, synced or not.
NewEntry_AlwaysDependent(r, list) ==
    [key |-> nextKey, kind |-> r.kind, row |-> r.row, list |-> list,
     dep |-> IF r.kind = "create" THEN list ELSE None,
     op |-> r.op, ops |-> {r.op}]

NewEntry(r, list) ==
    [key |-> nextKey, kind |-> r.kind, row |-> r.row, list |-> list,
     dep |-> IF r.kind = "create" /\ list \in TempLists THEN list ELSE None,
     op |-> r.op, ops |-> {r.op}]

\* ... and then its queue entry.
EnqueueCreate ==
    /\ page.pc = "enqueue"
    /\ queue' = queue \cup {NewEntry(page.req, page.req.list)}
    /\ nextKey' = nextKey + 1
    /\ accepted' = accepted \cup {page.req}
    /\ page' = IdlePage
    /\ UNCHANGED <<server, nextId, mirror, used, flush, get, clock, writes, env, landed,
                   dropped, answered, withdrawn, skipped, posts, lost, cut>>

\* A write to a synced row: resolveQueueTargetIds, enqueueRequest, applyOptimisticEdit.
TargetList(id) == IF id \in MirroredLists THEN id ELSE Existing(id).list

QueueEdit ==
    /\ page.pc = "queue" /\ page.req.kind # "create" /\ page.req.row \in Nat
    /\ queue' = queue \cup {NewEntry(page.req, TargetList(page.req.row))}
    /\ nextKey' = nextKey + 1
    /\ mirror' = IF page.req.kind = "delete" THEN Delete(mirror, page.req.row)
                 ELSE Put(mirror, {[Existing(page.req.row) EXCEPT !.val = page.req.op,
                                                                 !.at = page.req.op]})
    /\ accepted' = accepted \cup {page.req}
    /\ page' = IdlePage
    /\ UNCHANGED <<server, nextId, used, flush, get, clock, writes, env, landed, dropped,
                   answered, withdrawn, skipped, posts, lost, cut>>

\* resolveAgainstPendingCreate, for a temp id: read the queue ...
ResolveRead ==
    /\ page.pc = "queue" /\ page.req.kind # "create" /\ page.req.row \in TempIds
    /\ page' = [page EXCEPT !.pc = "resolve",
                            !.read = {q \in queue : \/ q.kind = "create" /\ q.row = page.req.row
                                                    \/ q.dep = page.req.row}]
    /\ UNCHANGED <<server, nextId, local, flush, get, clock, writes, env, outcome>>

\* ... then cancel the create and what depends on it (DELETE) ...
ResolveDelete ==
    /\ page.pc = "resolve" /\ page.req.kind = "delete"
    /\ queue' = Dequeue(Keys(page.read))
    /\ mirror' = Delete(mirror, page.req.row)
    /\ withdrawn' = withdrawn \cup Keys(page.read)
    /\ dropped' = dropped \cup OpsOf(page.read) \cup {page.req.op}
    /\ accepted' = accepted \cup {page.req}
    /\ page' = IdlePage
    /\ UNCHANGED <<server, nextId, nextKey, used, flush, get, clock, writes, env, landed,
                   answered, skipped, posts, lost, cut>>

\* ... or fold the edit into the create, if one is still pending.
Pending == {q \in page.read : q.kind = "create" /\ q.row = page.req.row}

ResolveEdit ==
    /\ page.pc = "resolve" /\ page.req.kind = "edit"
    /\ queue' = IF Pending = {} THEN queue
                ELSE LET e == Oldest(Pending)
                     IN  UpdateQueueEntry([e EXCEPT !.op = page.req.op,
                                                    !.ops = @ \cup {page.req.op}])
    /\ mirror' = Put(mirror, {[Existing(page.req.row) EXCEPT !.val = page.req.op,
                                                             !.at = page.req.op]})
    /\ accepted' = accepted \cup {page.req}
    /\ page' = IdlePage
    /\ UNCHANGED <<server, nextId, nextKey, used, flush, get, clock, writes, env, landed,
                   dropped, answered, withdrawn, skipped, posts, lost, cut>>

QueueOfflineWrite == QueueCreate \/ EnqueueCreate \/ QueueEdit \/ ResolveRead
                     \/ ResolveDelete \/ ResolveEdit

-----------------------------------------------------------------------------
\* flushQueue: one pass at a time over a snapshot of the queue.

\* The entries the pass still holds: its snapshot's rest and the one it is at.
InPass == flush.snap \cup (IF flush.pc \in {"answer", "remap", "discard"} THEN {flush.cur} ELSE {})

\* Ghost: the server applied the entry at hand, which is still queued.
Delivered == flush.pc \in {"answer", "remap"} /\ flush.status = "ok"

\* Ghost: the refused rows a pass that ends here leaves in the mirror: their entry
\* is out of the queue, and only the pass still knew that they are to be removed.
Abandoned == {e.row : e \in {f \in InPass : f.key \in skipped}}
             \cup (IF flush.pc = "discard" THEN {flush.cur.row} ELSE {})

FlushStart ==
    /\ flush.pc = "idle" /\ net /\ queue # {} /\ (Overlap \/ page.pc = "idle")
    /\ flush' = [IdleFlush EXCEPT !.pc = "next", !.snap = queue]
    /\ UNCHANGED <<server, nextId, local, page, get, clock, writes, env, outcome>>

\* Mutant: an entry that did not get through is skipped, the pass goes on.
FlushEnd_Continues ==
    /\ flush.pc = "next" /\ (flush.snap = {} \/ ~net)
    /\ flush' = IF flush.snap = {} THEN IdleFlush
                ELSE [flush EXCEPT !.snap = @ \ {Oldest(@)}]
    /\ UNCHANGED <<server, nextId, local, page, get, clock, writes, env, outcome>>

\* The pass ends: nothing is left, or a request did not get through.
FlushEnd ==
    /\ flush.pc = "next" /\ (flush.snap = {} \/ ~net)
    /\ flush' = IdleFlush /\ cut' = cut \cup Abandoned
    /\ UNCHANGED <<server, nextId, local, page, get, clock, writes, env, accepted, landed,
                   dropped, answered, withdrawn, skipped, posts, lost>>

Answered(e, status) ==
    [flush EXCEPT !.pc = "answer", !.snap = @ \ {e}, !.cur = e, !.status = status,
                  !.newId = IF e.kind = "create" THEN nextId ELSE None]

\* The oldest entry of the snapshot reaches the server and is applied ...
FlushSend ==
    /\ flush.pc = "next" /\ flush.snap # {} /\ net
    /\ LET e == Oldest(flush.snap)
       IN  /\ StatusOf(e) = "ok"
           /\ Apply(e)
           /\ flush' = Answered(e, "ok")
           /\ landed' = landed \cup e.ops
           /\ posts' = Count(posts, e, 1)
    /\ UNCHANGED <<local, page, get, writes, env, accepted, dropped, answered,
                   withdrawn, skipped, lost, cut>>

\* ... or is not: no session, a dead target, or (spending a refusal) a 400 or
\* 403 of the server's own.
FlushRefused ==
    /\ flush.pc = "next" /\ flush.snap # {} /\ net
    /\ LET e == Oldest(flush.snap)
       IN  \/ /\ StatusOf(e) # "ok"
              /\ flush' = Answered(e, StatusOf(e))
              /\ UNCHANGED refusals
           \/ /\ StatusOf(e) = "ok" /\ refusals > 0
              /\ flush' = Answered(e, "refused")
              /\ refusals' = refusals - 1
    /\ UNCHANGED <<server, nextId, local, page, get, clock, writes, net, session,
                   faults, outcome>>

\* The answer is lost on its way, or is a 5xx: the pass stops there.
FlushAnswerLost ==
    /\ flush.pc = "answer" /\ faults > 0
    /\ net' = FALSE /\ faults' = faults - 1
    /\ lost' = IF Delivered THEN Count(lost, flush.cur, 1) ELSE lost
    /\ flush' = IdleFlush /\ cut' = cut \cup Abandoned
    /\ UNCHANGED <<server, nextId, local, page, get, clock, writes, session, refusals,
                   accepted, landed, dropped, answered, withdrawn, skipped, posts>>

\* Mutant: a 401 is a rejection like any other 4xx.
FlushUnauthorized_Discards ==
    /\ flush.pc = "answer" /\ flush.status = "unauthorized"
    /\ queue' = Dequeue({flush.cur.key})
    /\ flush' = IdleFlush
    /\ UNCHANGED <<server, nextId, mirror, nextKey, used, page, get, clock, writes, env, outcome>>

\* 401: the entry and everything queued after it stay.
FlushUnauthorized ==
    /\ flush.pc = "answer" /\ flush.status = "unauthorized"
    /\ flush' = IdleFlush /\ cut' = cut \cup Abandoned
    /\ UNCHANGED <<server, nextId, local, page, get, clock, writes, env, accepted, landed,
                   dropped, answered, withdrawn, skipped, posts, lost>>

\* Mutant: the items are re-parented, the temporary list is never replaced.
Renamed_ItemsOnly(rows, id, realId) ==
    {IF r.list = id THEN [r EXCEPT !.list = realId] ELSE r : r \in rows}

\* remapTempId on the mirror: a list's items move to the real list before the
\* temporary list is deleted.
Renamed(rows, id, realId) ==
    {IF r.id = id THEN [r EXCEPT !.id = realId]
     ELSE IF r.list = id THEN [r EXCEPT !.list = realId] ELSE r : r \in rows}

RemapRow ==
    /\ flush.pc = "answer" /\ flush.status = "ok" /\ flush.cur.kind = "create"
    /\ mirror' = IF HasRow(mirror, flush.cur.row)
                 THEN Renamed(mirror, flush.cur.row, flush.newId) ELSE mirror
    /\ flush' = [flush EXCEPT !.pc = "remap"]
    /\ UNCHANGED <<server, nextId, queue, nextKey, used, page, get, clock, writes, env, outcome>>

\* remapTempId on the queue: each dependent of the snapshot gets the real
\* list_id, in memory and, written back whole, in the store.
Dependents == {e \in flush.snap : e.dep = flush.cur.row}

RemapDependent ==
    /\ flush.pc = "remap" /\ Dependents # {}
    /\ LET e == Oldest(Dependents)
           f == [e EXCEPT !.dep = None, !.list = flush.newId]
       IN  /\ queue' = UpdateQueueEntry(f)
           /\ flush' = [flush EXCEPT !.snap = (@ \ {e}) \cup {f}]
    /\ UNCHANGED <<server, nextId, mirror, nextKey, used, page, get, clock, writes, env, outcome>>

\* Mutant: a create that was remapped is taken for settled and stays queued.
FlushDequeue_EditsOnly ==
    /\ \/ flush.pc = "answer" /\ flush.status = "ok" /\ flush.cur.kind # "create"
       \/ flush.pc = "remap" /\ Dependents = {}
    /\ queue' = IF flush.cur.kind = "create" THEN queue ELSE Dequeue({flush.cur.key})
    /\ answered' = answered \cup {flush.cur.key}
    /\ flush' = [flush EXCEPT !.pc = "next", !.cur = None, !.status = None, !.newId = None]
    /\ UNCHANGED <<server, nextId, mirror, nextKey, used, page, get, clock, writes, env,
                   accepted, landed, dropped, withdrawn, skipped, posts, lost, cut>>

FlushDequeue ==
    /\ \/ flush.pc = "answer" /\ flush.status = "ok" /\ flush.cur.kind # "create"
       \/ flush.pc = "remap" /\ Dependents = {}
    /\ queue' = Dequeue({flush.cur.key})
    /\ answered' = answered \cup {flush.cur.key}
    /\ flush' = [flush EXCEPT !.pc = "next", !.cur = None, !.status = None, !.newId = None]
    /\ UNCHANGED <<server, nextId, mirror, nextKey, used, page, get, clock, writes, env,
                   accepted, landed, dropped, withdrawn, skipped, posts, lost, cut>>

\* discardRejectedEntry: drop the entry ...
IsDefinitiveClientError(status) == status \in {"refused", "gone"}

DiscardEntry ==
    /\ flush.pc = "answer" /\ IsDefinitiveClientError(flush.status)
    /\ queue' = Dequeue({flush.cur.key})
    /\ answered' = answered \cup {flush.cur.key}
    /\ dropped' = dropped \cup flush.cur.ops
    /\ flush' = [flush EXCEPT !.pc = "discard"]
    /\ UNCHANGED <<server, nextId, mirror, nextKey, used, page, get, clock, writes, env,
                   accepted, landed, withdrawn, skipped, posts, lost, cut>>

\* ... then what it left behind: a refused create goes with its dependents (their
\* queue entries: the snapshot keeps them), a dead row leaves the mirror, and
\* another refused edit has its list read again, if the server can be reached.
DiscardLocal ==
    /\ flush.pc = "discard"
    /\ LET e == flush.cur
           create == e.kind = "create"
           reread == ~create /\ flush.status = "refused" /\ net /\ session
                     /\ e.list \in Nat /\ HasRow(server, e.list)
       IN  /\ queue' = IF create THEN Dequeue(Keys(Dependents)) ELSE queue
           /\ mirror' = IF create \/ flush.status = "gone" THEN Delete(mirror, e.row)
                        ELSE IF reread
                             THEN MirrorRead(e.list, {r \in server : e.list \in {r.id, r.list}})
                             ELSE mirror
           /\ skipped' = IF create THEN skipped \cup Keys(Dependents) ELSE skipped
           /\ dropped' = IF create THEN dropped \cup OpsOf(Dependents) ELSE dropped
    /\ flush' = [flush EXCEPT !.pc = "next", !.cur = None, !.status = None, !.newId = None]
    /\ UNCHANGED <<server, nextId, nextKey, used, page, get, clock, writes, env, accepted,
                   landed, answered, withdrawn, posts, lost, cut>>

FlushQueue == FlushStart \/ FlushEnd \/ FlushSend \/ FlushRefused \/ FlushUnauthorized
              \/ RemapRow \/ RemapDependent \/ FlushDequeue \/ DiscardEntry \/ DiscardLocal

-----------------------------------------------------------------------------
\* handleApiRead of GET /lists/{id}: the server answers, the mirror follows later.

ReadList(l) ==
    /\ get = None /\ net /\ session
    /\ l \in MirroredLists /\ HasRow(server, l)
    /\ get' = [list |-> l, rows |-> {r \in server : l \in {r.id, r.list}}]
    /\ UNCHANGED <<server, nextId, local, page, flush, clock, writes, env, outcome>>

MirrorReadResponse ==
    /\ get # None
    /\ mirror' = MirrorRead(get.list, get.rows)
    /\ get' = None
    /\ UNCHANGED <<server, nextId, queue, nextKey, used, page, flush, clock, writes, env, outcome>>

-----------------------------------------------------------------------------
\* The world: the connection, the session, other devices, the worker's end.

Connect ==
    /\ ~net /\ net' = TRUE
    /\ UNCHANGED <<server, nextId, local, page, flush, get, clock, writes, session, faults,
                   refusals, outcome>>

Disconnect ==
    /\ net /\ faults > 0
    /\ net' = FALSE /\ faults' = faults - 1
    /\ UNCHANGED <<server, nextId, local, page, flush, get, clock, writes, session,
                   refusals, outcome>>

Expire ==
    /\ session /\ faults > 0
    /\ session' = FALSE /\ faults' = faults - 1
    /\ UNCHANGED <<server, nextId, local, page, flush, get, clock, writes, net, refusals, outcome>>

Login ==
    /\ ~session /\ session' = TRUE
    /\ UNCHANGED <<server, nextId, local, page, flush, get, clock, writes, net, faults,
                   refusals, outcome>>

\* Another device deletes or edits a row.
OtherDevice ==
    /\ faults > 0 /\ faults' = faults - 1
    /\ \E r \in server, kind \in {"edit", "delete"} :
        Apply([kind |-> kind, row |-> r.id, list |-> None, op |-> clock + 1])
    /\ UNCHANGED <<local, page, flush, get, writes, net, session, refusals, outcome>>

\* The browser ends the worker: every handler's memory goes, the stores stay.
Kill ==
    /\ faults > 0 /\ (page.pc # "idle" \/ flush.pc # "idle")
    /\ faults' = faults - 1
    /\ page' = IdlePage /\ flush' = IdleFlush /\ get' = None
    /\ lost' = IF Delivered THEN Count(lost, flush.cur, 1) ELSE lost
    /\ cut' = cut \cup Abandoned \cup (IF page.pc = "enqueue" THEN {page.req.row} ELSE {})
    /\ UNCHANGED <<server, nextId, local, clock, writes, net, session, refusals, accepted,
                   landed, dropped, answered, withdrawn, skipped, posts>>

World == Connect \/ Disconnect \/ Expire \/ Login \/ OtherDevice \/ Kill \/ FlushAnswerLost

\* Every id the server can have given within the bounds.
RealIds == 1 .. 2 + MaxWrites + MaxFaults

Next == HandleApiWrite \/ QueueOfflineWrite \/ FlushQueue \/ MirrorReadResponse \/ World
        \/ \E l \in RealIds : ReadList(l)

\* A handler runs on once started; some request comes while online and starts a
\* pass; the user opens each list again; the connection and the session come back.
Fairness ==
    /\ WF_vars(QueueOfflineWrite) /\ WF_vars(FlushQueue)
    /\ \A l \in RealIds : SF_vars(ReadList(l))
    /\ WF_vars(MirrorReadResponse)
    /\ WF_vars(Connect) /\ WF_vars(Login)

Spec == Init /\ [][Next]_vars /\ Fairness

-----------------------------------------------------------------------------
StoresOK ==
    /\ server \subseteq ServerRow /\ mirror \subseteq Row /\ queue \subseteq Entry
    /\ nextId \in Nat /\ nextKey \in Nat \ {0} /\ used \subseteq TempIds

HandlersOK == page \in Page /\ flush \in Flush /\ get \in Get \cup {None}

WorldOK ==
    /\ clock \in Nat /\ writes \in 0..MaxWrites
    /\ net \in BOOLEAN /\ session \in BOOLEAN
    /\ faults \in 0..MaxFaults /\ refusals \in 0..MaxRefusals

OutcomeOK ==
    /\ accepted \subseteq Request /\ landed \subseteq Nat /\ dropped \subseteq Nat
    /\ posts \in [TempIds -> Nat] /\ lost \in [TempIds -> Nat]

TypeOK == StoresOK /\ HandlersOK /\ WorldOK /\ OutcomeOK

\* No entry leaves the queue before the server answered it or the user (or its
\* list's refusal) cancelled it: a 401, a 5xx, a lost answer or a kill keeps it.
NoEntryLost ==
    \A k \in 1 .. nextKey - 1 : k \in Keys(queue) \cup answered \cup withdrawn \cup skipped

\* Every write the page was told is saved for later is still queued, reached the
\* server, or was refused or cancelled - edits folded into a create included, but
\* for those of a row that nothing creates or cleans up any more (cut).
NoWriteLost ==
    \A r \in accepted : r.row \in cut \/ r.op \in OpsOf(queue) \cup landed \cup dropped

\* A create reaches the server twice only when the outcome of an earlier
\* delivery was lost (answer lost, worker killed before it dequeued).
DuplicateOnlyAfterLoss == \A t \in TempIds : posts[t] <= 1 + lost[t]

\* A temporary row of the mirror is still on its way: its create is queued or in a
\* pass, or the page is saving it, or nothing creates or cleans it up any more: a kill
\* cut its create short, or the pass ended before it removed the refused row.
NoPhantom ==
    \A m \in {r \in mirror : r.id \in TempIds} :
        \/ \E e \in queue \cup InPass : e.kind = "create" /\ e.row = m.id
        \/ page.pc = "enqueue" /\ page.req.row = m.id
        \/ m.id \in cut

\* An item created under a list created offline is sent with the list's temporary id
\* only if that list was itself refused or withdrawn, or is one of the cut.
NoOrphanedItem ==
    flush.pc = "answer" /\ flush.cur.kind = "create" /\ flush.cur.list \in TempLists
        => \/ flush.cur.list \in cut
           \/ \E r \in accepted : r.row = flush.cur.list /\ r.kind = "create" /\ r.op \in dropped

\* The temporary ids of what is created offline are resolved, or their rows go.
TempIdsResolved == NoPhantom /\ NoOrphanedItem

\* A pass delivers queue entries in the order they were queued: nothing older
\* is still in the queue when an entry reaches the server.
InQueueOrder ==
    [][flush.pc = "next" /\ flush'.pc = "answer"
       => \A e \in queue : e.key >= flush'.cur.key]_vars

\* The mirror shows what the server has, for every list both know
\* (but for the cut rows, which nothing cleans up).
Agree ==
    \A l \in MirroredLists \cap Nat : HasRow(server, l) =>
        {<<m.id, m.val>> : m \in {r \in mirror : l \in {r.id, r.list} /\ r.id \notin cut}}
            = {<<r.id, r.val>> : r \in {s \in server : l \in {s.id, s.list}}}

\* With the connection and the session back, the queue drains and the mirror agrees.
Synced == <>[](queue = {} /\ Agree)
=============================================================================
