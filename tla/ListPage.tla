------------------------------ MODULE ListPage ------------------------------
(***************************************************************************)
(* The page of a list (static/js/list_view.js, selection.js, undo.js, and  *)
(* the dashboard's overrides of app.js): changes are shown at once, wait   *)
(* in a toast that can undo them, then are sent; several are in progress   *)
(* at a time, while the list itself is loaded again, left and reopened.    *)
(*                                                                         *)
(* Every GET of a list makes a new list object with new item objects; a    *)
(* toast or a request in progress keeps the objects it was made for.  heap *)
(* holds them in order, and a change names an object by its place there.   *)
(***************************************************************************)
EXTENDS Integers, Sequences, FiniteSets

CONSTANTS
    Lists, Items,
    ListOf,         \* the list of each item
    Selections,     \* bound: the items that are selected for a bulk action
    MaxQuantity,    \* bound: quantities
    None,           \* null
    MaxOps,         \* bound: what the user does, and the syncs
    MaxLoads,       \* bound: list objects
    MaxFaults       \* bound: failed requests, changes of other devices

ASSUME ListPageAssumption ==
    /\ ListOf \in [Items -> Lists] /\ None \notin Lists \cup Items
    /\ Selections \subseteq SUBSET Items /\ MaxQuantity \in Nat \ {0}
    /\ MaxOps \in Nat /\ MaxLoads \in Nat /\ MaxFaults \in Nat

VARIABLES
    server,         \* the items on the server
    mirror,         \* the service worker's copy of each list, or None
    heap,           \* the list objects made so far: [list, items]
    currentListId, currentList,     \* state.currentListId, state.currentList (0: null)
    listShown,      \* is the items section on screen, rather than the dashboard?
    toasts,         \* the undo toasts on screen
    pendingToggles, \* by item object: its toast, and the value before
    pendingQuantityUpdates, \* by item object: its request, and the value before
    requests,       \* requests in progress
    overrides,      \* dashboardOptimisticOverrides
    seq,            \* identities of toasts and requests
    ops, faults

\* What happened, for the properties only.
VARIABLES
    undone,         \* the toasts whose button was clicked
    dropped,        \* items whose pending toggle a deletion gave up
    astray          \* items about which the page may be wrong until the list is loaded
                    \* alone: another device changed them, two requests crossed, their
                    \* objects were replaced under a toast, or an answer overwrote a
                    \* pending toggle of theirs

page == <<heap, currentListId, currentList, listShown>>
pendings == <<toasts, pendingToggles, pendingQuantityUpdates>>
vars == <<server, mirror, page, pendings, requests, overrides, seq, ops, faults, undone, dropped,
          astray>>

ItemsOf(l) == {i \in Items : ListOf[i] = l}
Row == [done : BOOLEAN, quantity : 1 .. MaxQuantity, there : BOOLEAN]
NewRow == [done |-> FALSE, quantity |-> 1, there |-> TRUE]
ServerList(l) == [i \in ItemsOf(l) |-> server[i]]

\* An item object: a row of the server, and is it hidden by a pending deletion?
ObjectOf(row) ==
    [done |-> row.done, quantity |-> row.quantity, there |-> row.there, hidden |-> FALSE]
ListObject(l, rows) == [list |-> l, items |-> [i \in DOMAIN rows |-> ObjectOf(rows[i])]]

\* The dashboard, or a list that has just been loaded; no list was opened before on this
\* device, or all were.
Init ==
    /\ server = [i \in Items |-> NewRow]
    /\ \E known \in {{}, Lists} :
        /\ mirror = [l \in Lists |-> IF l \in known THEN ServerList(l) ELSE None]
        /\ \/ heap = <<>> /\ currentListId = None /\ currentList = 0 /\ listShown = FALSE
           \/ \E l \in known :
                /\ heap = <<ListObject(l, ServerList(l))>>
                /\ currentListId = l /\ currentList = 1 /\ listShown = TRUE
    /\ toasts = {} /\ pendingToggles = {} /\ pendingQuantityUpdates = {} /\ requests = {}
    /\ overrides = [l \in Lists |-> None]
    /\ seq = 0 /\ ops = 0 /\ faults = MaxFaults
    /\ undone = {} /\ dropped = {} /\ astray = {}

-----------------------------------------------------------------------------
\* A row is drawn for the items of the open list that no deletion hides.
Visible ==
    IF ~listShown \/ currentList = 0 THEN {}
    ELSE {i \in DOMAIN heap[currentList].items :
            heap[currentList].items[i].there /\ ~heap[currentList].items[i].hidden}
Shown(i) == heap[currentList].items[i]

\* The list objects, with `change` made to the objects of ids in the one at `at`.
Changed(at, ids, change(_)) ==
    [heap EXCEPT ![at].items =
        [i \in DOMAIN @ |-> IF i \in ids THEN change(@[i]) ELSE @[i]]]

Pending(at, i) == {p \in pendingToggles : p.at = at /\ p.item = i}
Without(map, at, ids) == {p \in map : p.at # at \/ p.item \notin ids}

\* notifyItemsChanged: the dashboard's card of l shows the list object at `at` of h.
SnapshotOf(h, at, all) ==
    [at |-> at, done |-> {i \in DOMAIN h[at].items :
        h[at].items[i].there /\ (all \/ ~h[at].items[i].hidden) /\ h[at].items[i].done}]
Notified(l, h, at, all) ==
    IF l = None THEN overrides ELSE [overrides EXCEPT ![l] = SnapshotOf(h, at, all)]
\* clearItemsOverride.
Cleared(l) == IF l = None THEN overrides ELSE [overrides EXCEPT ![l] = None]

Act == ops < MaxOps /\ ops' = ops + 1

\* Ghost: a load in progress is no longer the only thing in progress.
NotAlone(rs) == {[r EXCEPT !.alone = FALSE] : r \in rs}

-----------------------------------------------------------------------------
\* Mutant: a toggle leaves the toast of the one before on screen.
Superseded_Not(S) == {}
\* The toasts a new toggle of S takes down: not those of a selection.
Superseded(S) ==
    {t \in toasts : ~t.bulk /\ \E i \in S : \E p \in Pending(currentList, i) : p.toast = t.id}

\* toggleDone, bulkToggleDone: shown at once; what is not back to what it was before
\* the pending toggle waits in a toast.
Toggle(S, bulk) ==
    /\ Act /\ S # {} /\ S \subseteq Visible
    /\ LET value == ~\A i \in S : Shown(i).done
           before == [i \in S |-> IF Pending(currentList, i) = {} THEN Shown(i).done
                                  ELSE (CHOOSE p \in Pending(currentList, i) : TRUE).before]
           entries == {i \in S : before[i] # value}
           toast == [id |-> seq + 1, kind |-> "done", bulk |-> bulk, at |-> currentList,
                     list |-> currentListId, ids |-> entries, value |-> value,
                     before |-> before]
           SetDone(o) == [o EXCEPT !.done = value]
       IN  /\ heap' = Changed(currentList, S, SetDone)
           /\ toasts' = (toasts \ Superseded(S)) \cup (IF entries = {} THEN {} ELSE {toast})
           /\ pendingToggles' = Without(pendingToggles, currentList, S)
                \cup {[at |-> currentList, item |-> i, toast |-> seq + 1, before |-> before[i]] :
                        i \in entries}
    /\ overrides' = Notified(currentListId, heap', currentList, TRUE)
    /\ seq' = seq + 1 /\ requests' = NotAlone(requests)
    /\ UNCHANGED <<server, mirror, currentListId, currentList, listShown,
                   pendingQuantityUpdates, faults, undone, dropped, astray>>

\* removeItem, bulkDelete: hidden at once, a pending toggle of theirs is given up.
Remove(S, bulk) ==
    /\ Act /\ S # {} /\ S \subseteq Visible
    /\ LET l == heap[currentList].list
           Hide(o) == [o EXCEPT !.hidden = TRUE]
       IN  /\ heap' = Changed(currentList, S, Hide)
           /\ toasts' = (toasts \ Superseded(S))
                \cup {[id |-> seq + 1, kind |-> "delete", bulk |-> bulk, at |-> currentList,
                       list |-> l, ids |-> S, value |-> None, before |-> [i \in S |-> None]]}
           /\ pendingToggles' = Without(pendingToggles, currentList, S)
           /\ overrides' = Notified(l, heap', currentList, FALSE)
    /\ dropped' = dropped \cup {i \in S : Pending(currentList, i) # {}}
    /\ seq' = seq + 1 /\ requests' = NotAlone(requests)
    /\ UNCHANGED <<server, mirror, currentListId, currentList, listShown,
                   pendingQuantityUpdates, faults, undone, astray>>

-----------------------------------------------------------------------------
\* A request: its toast's identity or its own, what it is about, what to put back.
Request(id, kind, at, list, item, value, before) ==
    [id |-> id, kind |-> kind, at |-> at, list |-> list, item |-> item, value |-> value,
     before |-> before, pc |-> "sent", answer |-> None, alone |-> FALSE]

\* Ghost: the items of ids that another request in progress is about already.
Crossed(ids) ==
    {i \in ids : \E r \in requests : r.item = i \/ (r.item = None /\ r.list = ListOf[i])}

\* changeQuantity (toggleUrgent and commitItemPatches do the same for other fields).
ChangeQuantity(i, quantity) ==
    /\ Act /\ i \in Visible /\ quantity # Shown(i).quantity
    /\ LET mine == {p \in pendingQuantityUpdates : p.at = currentList /\ p.item = i}
           before == IF mine = {} THEN Shown(i).quantity ELSE (CHOOSE p \in mine : TRUE).before
           SetQuantity(o) == [o EXCEPT !.quantity = quantity]
       IN  /\ heap' = Changed(currentList, {i}, SetQuantity)
           /\ pendingQuantityUpdates' =
                (pendingQuantityUpdates \ mine)
                \cup {[at |-> currentList, item |-> i, request |-> seq + 1, before |-> before]}
           /\ requests' = NotAlone(requests) \cup
                {Request(seq + 1, "quantity", currentList, ListOf[i], i, quantity, before)}
    /\ seq' = seq + 1 /\ astray' = astray \cup Crossed({i})
    /\ UNCHANGED <<server, mirror, currentListId, currentList, listShown, toasts,
                   pendingToggles, overrides, faults, undone, dropped>>

\* The items of a toast that are still its own: a single toggle does not ask.
Owned(t) ==
    IF t.kind = "delete" \/ ~t.bulk THEN t.ids
    ELSE {i \in t.ids : \E p \in Pending(t.at, i) : p.toast = t.id}

\* Mutant: settled is not set, and the timer runs on.
Closed_Not(t) == toasts
Closed(t) == toasts \ {t}

\* The button of a toast: what it waited with is put back.
Undo(t) ==
    /\ t \in toasts /\ t.id \notin undone
    /\ toasts' = Closed(t) /\ undone' = undone \cup {t.id}
    /\ LET Restore(i, o) == IF t.kind = "delete" THEN [o EXCEPT !.hidden = FALSE]
                            ELSE [o EXCEPT !.done = t.before[i]]
       IN  heap' = [heap EXCEPT ![t.at].items =
                [i \in DOMAIN @ |-> IF i \in Owned(t) THEN Restore(i, @[i]) ELSE @[i]]]
    /\ pendingToggles' = IF t.kind = "delete" THEN pendingToggles
                         ELSE Without(pendingToggles, t.at, Owned(t))
    /\ overrides' = Notified(t.list, heap', t.at, t.kind = "done")
    /\ UNCHANGED <<server, mirror, currentListId, currentList, listShown,
                   pendingQuantityUpdates, requests, seq, ops, faults, dropped, astray>>

\* Its countdown ends: a request for each item still its own.
Commit(t) ==
    /\ t \in toasts /\ toasts' = Closed(t)
    /\ pendingToggles' = IF t.kind = "delete" THEN pendingToggles
                         ELSE Without(pendingToggles, t.at, Owned(t))
    /\ requests' = NotAlone(requests) \cup
            {Request(t.id, t.kind, t.at, t.list, i, t.value, t.before[i]) : i \in Owned(t)}
    /\ LET Splice(o) == [o EXCEPT !.there = FALSE]
       IN  heap' = IF t.kind = "delete" /\ ~t.bulk THEN Changed(t.at, t.ids, Splice) ELSE heap
    /\ overrides' = IF Owned(t) = {} THEN Cleared(t.list) ELSE overrides
    /\ astray' = astray \cup Crossed(Owned(t))
    /\ UNCHANGED <<server, mirror, currentListId, currentList, listShown,
                   pendingQuantityUpdates, seq, ops, faults, undone, dropped>>

-----------------------------------------------------------------------------
\* Loads.

Load(kind, l, at, pc, alone) ==
    [id |-> seq + 1, kind |-> kind, at |-> at, list |-> l, item |-> None, value |-> None,
     before |-> None, pc |-> pc, answer |-> None, alone |-> alone]
Alone == requests = {} /\ toasts = {}
\* Ghost: the items a toast waits with, those of l a request in progress is about.
InToasts == UNION {t.ids : t \in toasts}
CrossedBy(l) == {i \in ItemsOf(l) : \E r \in requests : r.item = i}
Start(load) ==
    /\ requests' = NotAlone(requests) \cup {load}
    /\ seq' = seq + 1 /\ astray' = astray \cup CrossedBy(load.list)

\* selectList, up to the answer of the local mirror ...
SelectList(l) ==
    /\ Act /\ Len(heap) < MaxLoads
    /\ Start(Load("open", l, 0, "cache", Alone))
    /\ UNCHANGED <<server, mirror, page, pendings, overrides, faults, undone, dropped>>

\* ... which is painted at once, if there is one, while the list is fetched.
Paint(r) ==
    /\ r \in requests /\ r.pc = "cache" /\ Len(heap) < MaxLoads
    /\ listShown' = TRUE
    /\ IF mirror[r.list] = None
       THEN UNCHANGED <<heap, currentListId, currentList>> /\ astray' = astray
       ELSE /\ heap' = Append(heap, ListObject(r.list, mirror[r.list]))
            /\ currentListId' = r.list /\ currentList' = Len(heap')
            /\ astray' = astray \cup InToasts \cup CrossedBy(r.list)
    /\ requests' = (requests \ {r}) \cup
            {[r EXCEPT !.pc = "sent", !.at = IF mirror[r.list] = None THEN 0 ELSE Len(heap')]}
    /\ UNCHANGED <<server, mirror, pendings, overrides, seq, ops, faults, undone, dropped>>

\* refreshCurrentList.
Refresh ==
    /\ Act /\ currentListId # None
    /\ Start(Load("refresh", currentListId, currentList, "sent", Alone))
    /\ UNCHANGED <<server, mirror, page, pendings, overrides, faults, undone, dropped>>

\* showDashboard.
ShowDashboard ==
    /\ Act /\ listShown
    /\ currentListId' = None /\ currentList' = 0 /\ listShown' = FALSE
    /\ UNCHANGED <<server, mirror, heap, pendings, requests, overrides, seq, faults, undone,
                   dropped, astray>>

-----------------------------------------------------------------------------
\* The server, and the service worker's mirror behind it.

Written(r) ==
    CASE r.kind = "done" -> [server[r.item] EXCEPT !.done = r.value]
      [] r.kind = "quantity" -> [server[r.item] EXCEPT !.quantity = r.value]
      [] r.kind = "delete" -> [server[r.item] EXCEPT !.there = FALSE]

Progress(r, s) == requests' = (requests \ {r}) \cup {s}

Serve(r) ==
    /\ r \in requests /\ r.pc = "sent"
    /\ IF r.item = None
       THEN /\ mirror' = [mirror EXCEPT ![r.list] = ServerList(r.list)]
            /\ Progress(r, [r EXCEPT !.pc = "answered", !.answer = ServerList(r.list)])
            /\ UNCHANGED server
       ELSE IF ~server[r.item].there
       THEN Progress(r, [r EXCEPT !.pc = "failed"]) /\ UNCHANGED <<server, mirror>>
       ELSE /\ server' = [server EXCEPT ![r.item] = Written(r)]
            /\ mirror' = [mirror EXCEPT ![ListOf[r.item]] =
                            IF @ = None THEN None ELSE [@ EXCEPT ![r.item] = Written(r)]]
            /\ Progress(r, [r EXCEPT !.pc = "answered", !.answer = Written(r)])
    /\ UNCHANGED <<page, pendings, overrides, seq, ops, faults, undone, dropped, astray>>

Fault == faults > 0 /\ faults' = faults - 1

\* A request is refused, or does not get through.
Fail(r) ==
    /\ Fault /\ r \in requests /\ r.pc = "sent"
    /\ Progress(r, [r EXCEPT !.pc = "failed"])
    /\ UNCHANGED <<server, mirror, page, pendings, overrides, seq, ops, undone, dropped, astray>>

OtherDevice ==
    /\ Fault
    /\ \E i \in Items : /\ server[i].there
                        /\ server' = [server EXCEPT ![i].done = ~@]
                        /\ astray' = astray \cup {i}
    /\ requests' = NotAlone(requests)
    /\ UNCHANGED <<mirror, page, pendings, overrides, seq, ops, undone, dropped>>

-----------------------------------------------------------------------------
\* The answers.

Answered(r) == r \in requests /\ r.pc \in {"answered", "failed"}
LastOf(r) == \A q \in requests \ {r} : q.id # r.id

\* Mutant: the answer takes the place of the object.
Merge_Replace(o, row) == row
\* The answer of a PATCH is the whole item.
Merge(o, row) == [o EXCEPT !.done = row.done, !.quantity = row.quantity]

\* Ghost: the answer overwrites what a pending toggle shows.
Overwritten(r) == IF Pending(r.at, r.item) = {} THEN astray ELSE astray \cup {r.item}

\* toggleDone's onCommit, bulkToggleDone's: once every request has settled the
\* dashboard no longer shows the snapshot.
ToggleSettles(r) ==
    /\ Answered(r) /\ r.kind = "done"
    /\ LET Settle(o) == IF r.pc = "failed" THEN [o EXCEPT !.done = r.before] ELSE Merge(o, r.answer)
       IN  heap' = Changed(r.at, {r.item}, Settle)
    /\ requests' = requests \ {r}
    /\ overrides' = IF LastOf(r) THEN Cleared(r.list) ELSE overrides
    /\ astray' = Overwritten(r)
    /\ UNCHANGED <<server, mirror, currentListId, currentList, listShown, pendings, seq, ops,
                   faults, undone, dropped>>

\* Superseded by a newer click, the answer of a quantity is ignored.
QuantitySettles(r) ==
    /\ Answered(r) /\ r.kind = "quantity"
    /\ LET mine == {p \in pendingQuantityUpdates : p.request = r.id}
           Settle(o) == IF r.pc = "failed" THEN [o EXCEPT !.quantity = r.before]
                        ELSE Merge(o, r.answer)
       IN  /\ heap' = IF mine = {} THEN heap ELSE Changed(r.at, {r.item}, Settle)
           /\ pendingQuantityUpdates' = pendingQuantityUpdates \ mine
           /\ astray' = IF mine = {} THEN astray ELSE Overwritten(r)
    /\ requests' = requests \ {r}
    /\ UNCHANGED <<server, mirror, currentListId, currentList, listShown, toasts,
                   pendingToggles, overrides, seq, ops, faults, undone, dropped>>

\* Mutant: an item whose deletion failed stays hidden.
PutBack_Hidden(o) == [o EXCEPT !.there = TRUE]
PutBack(o) == [o EXCEPT !.there = TRUE, !.hidden = FALSE]

\* removeItem's onCommit, bulkDelete's: what is on screen is loaded again if it is not
\* the list object the items were deleted from.
DeleteSettles(r) ==
    /\ Answered(r) /\ r.kind = "delete"
    /\ LET Gone(o) == [o EXCEPT !.there = FALSE]
       IN  heap' = IF r.pc = "failed" THEN Changed(r.at, {r.item}, PutBack)
                   ELSE Changed(r.at, {r.item}, Gone)
    /\ overrides' = IF LastOf(r) THEN Cleared(r.list) ELSE overrides
    /\ IF LastOf(r) /\ currentList # r.at /\ currentListId # None
       THEN /\ requests' = NotAlone(requests \ {r}) \cup
                    {Load("refresh", currentListId, currentList, "sent",
                          requests = {r} /\ toasts = {})}
            /\ seq' = seq + 1
            /\ astray' = astray \cup
                    {i \in ItemsOf(currentListId) : \E q \in requests \ {r} : q.item = i}
       ELSE requests' = requests \ {r} /\ UNCHANGED <<seq, astray>>
    /\ UNCHANGED <<server, mirror, currentListId, currentList, listShown, pendings, ops,
                   faults, undone, dropped>>

\* Ghost: the objects a load replaces, and those it makes while nothing else goes on.
Reloaded(r) ==
    (IF r.alone THEN astray \ ItemsOf(r.list) ELSE astray) \cup InToasts

StillDropped(r) == IF r.alone THEN dropped \ ItemsOf(r.list) ELSE dropped

\* selectList's end.
OpenSettles(r) ==
    /\ Answered(r) /\ r.kind = "open" /\ Len(heap) < MaxLoads
    /\ IF r.pc = "answered"
       THEN /\ heap' = Append(heap, ListObject(r.list, r.answer))
            /\ currentListId' = r.list /\ currentList' = Len(heap')
            /\ astray' = Reloaded(r) /\ dropped' = StillDropped(r) /\ UNCHANGED listShown
       ELSE /\ UNCHANGED <<heap, dropped>>
            /\ astray' = IF r.at \in {0, currentList} THEN astray
                         ELSE astray \cup ItemsOf(r.list)
            /\ IF r.at = 0
               THEN listShown' = FALSE /\ currentListId' = None /\ currentList' = 0
               ELSE currentListId' = r.list /\ currentList' = r.at /\ UNCHANGED listShown
    /\ requests' = requests \ {r}
    /\ UNCHANGED <<server, mirror, pendings, overrides, seq, ops, faults, undone>>

\* refreshCurrentList's end: the answer, or else the mirror of the list open by then.
RefreshSettles(r) ==
    /\ Answered(r) /\ r.kind = "refresh" /\ Len(heap) < MaxLoads
    /\ LET cached == IF currentListId = None THEN None ELSE mirror[currentListId]
       IN  IF r.pc = "answered"
           THEN /\ heap' = Append(heap, ListObject(r.list, r.answer))
                /\ currentList' = Len(heap')
                /\ astray' = Reloaded(r) /\ dropped' = StillDropped(r)
           ELSE IF cached # None
           THEN /\ heap' = Append(heap, ListObject(currentListId, cached))
                /\ currentList' = Len(heap')
                /\ astray' = astray \cup InToasts \cup CrossedBy(currentListId)
                /\ UNCHANGED dropped
           ELSE UNCHANGED <<heap, currentList, dropped, astray>>
    /\ requests' = requests \ {r}
    /\ UNCHANGED <<server, mirror, currentListId, listShown, pendings, overrides, seq, ops,
                   faults, undone>>

Settles(r) ==
    ToggleSettles(r) \/ QuantitySettles(r) \/ DeleteSettles(r) \/ OpenSettles(r) \/ RefreshSettles(r)

Next ==
    \/ \E i \in Items : Toggle({i}, FALSE) \/ Remove({i}, FALSE)
    \/ \E S \in Selections : Toggle(S, TRUE) \/ Remove(S, TRUE)
    \/ \E i \in Items, quantity \in 1 .. MaxQuantity : ChangeQuantity(i, quantity)
    \/ \E t \in toasts : Undo(t) \/ Commit(t)
    \/ \E l \in Lists : SelectList(l)
    \/ Refresh \/ ShowDashboard \/ OtherDevice
    \/ \E r \in requests : Paint(r) \/ Serve(r) \/ Fail(r) \/ Settles(r)

Spec == Init /\ [][Next]_vars

-----------------------------------------------------------------------------
Object == [done : BOOLEAN, quantity : 1 .. MaxQuantity, there : BOOLEAN, hidden : BOOLEAN]

TypeOK ==
    /\ server \in [Items -> Row]
    /\ \A l \in Lists : mirror[l] = None \/ mirror[l] \in [ItemsOf(l) -> Row]
    /\ \A n \in DOMAIN heap : heap[n].list \in Lists
                              /\ heap[n].items \in [ItemsOf(heap[n].list) -> Object]
    /\ currentListId \in Lists \cup {None} /\ currentList \in 0 .. Len(heap)
    /\ listShown \in BOOLEAN
    /\ \A t \in toasts : t.at \in DOMAIN heap /\ t.ids \subseteq DOMAIN heap[t.at].items
    /\ \A p \in pendingToggles : p.at \in DOMAIN heap /\ p.before \in BOOLEAN
    /\ \A p \in pendingQuantityUpdates : p.at \in DOMAIN heap /\ p.before \in 1 .. MaxQuantity
    /\ \A r \in requests : r.pc \in {"cache", "sent", "answered", "failed"}
    /\ astray \cup dropped \subseteq Items

\* undo.js: "Exactly one of the two ever runs": what the user undid is not sent.
UndoneIsNeverSent == \A r \in requests : r.id \notin undone

\* However toggles of one item and of a selection follow each other, an item object has
\* at most one toast that would send it, and it is the one that knows what to put back.
OneToastPerToggle ==
    /\ \A t \in toasts : t.kind = "done" /\ ~t.bulk =>
            \A i \in t.ids : {p.toast : p \in Pending(t.at, i)} = {t.id}
    /\ \A p, q \in pendingToggles : p.at = q.at /\ p.item = q.item => p = q
    /\ \A p \in pendingToggles : \E t \in toasts :
            p.toast = t.id /\ p.item \in t.ids /\ t.before[p.item] = p.before

Quiet == toasts = {} /\ requests = {}

\* Once nothing waits or is in progress, the open list is the server's, whatever was
\* undone, refused, reloaded or deleted on the way: but for the items other devices
\* changed, and those the page loses track of (see astray and dropped).
ListAgrees ==
    Quiet /\ currentList # 0 =>
        \A i \in ItemsOf(heap[currentList].list) \ (astray \cup dropped) :
            /\ Shown(i).there = server[i].there
            /\ server[i].there => /\ ~Shown(i).hidden
                                  /\ Shown(i).done = server[i].done
                                  /\ Shown(i).quantity = server[i].quantity

\* The card a check-off was reported to shows it while it waits, if its snapshot was taken
\* of the same list object.  (It may be another list's card: see RefreshSettles.)
CardShowsPending ==
    \A t \in toasts, p \in pendingToggles :
        (p.toast = t.id /\ t.list # None /\ p.item \notin astray) =>
            \/ overrides[t.list] = None \/ overrides[t.list].at # p.at
            \/ (p.item \in overrides[t.list].done) = ~p.before

\* The list and its card agree with the server and with what waits to be sent.
PageAgrees == ListAgrees /\ CardShowsPending
=============================================================================
