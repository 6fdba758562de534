-------------------------- MODULE SyncQueue_proofs --------------------------
(***************************************************************************)
(* Proofs about the offline write queue (SyncQueue), for any temporary ids *)
(* and any number of writes, faults and refusals.  What holds whatever     *)
(* overlaps comes first: types, and that no entry leaves the queue unseen. *)
(* The rest is about a page that does not write while a pass runs          *)
(* (Overlap = FALSE): one inductive invariant, in five named parts.        *)
(***************************************************************************)
EXTENDS SyncQueue, NaturalsInduction, WellFoundedInduction, TLAPS

-----------------------------------------------------------------------------
(* The operators *)

\* A set of numbers has a least one.
LEMMA NatMin ==
    ASSUME NEW S \in SUBSET Nat, S # {}
    PROVE  \E m \in S : \A n \in S : m <= n
<1> DEFINE R == {p \in Nat \X Nat : p[1] < p[2]}
<1>1. IsWellFoundedOn(R, Nat)
  BY NatLessThanWellFounded DEF OpToRel
<1>2. PICK m \in S : \A n \in S : ~(<<n, m>> \in R)
  BY <1>1, WFMin
<1>3. \A n \in S : m <= n
  <2> SUFFICES ASSUME NEW n \in S, n < m PROVE FALSE  OBVIOUS
  <2>1. <<n, m>> \in R  OBVIOUS
  <2> QED  BY <1>2, <2>1
<1> QED  BY <1>3

\* The oldest of some entries is one of them, and no other has a smaller key.
LEMMA OldestIsFirst ==
    ASSUME NEW entries \in SUBSET Entry, entries # {}
    PROVE  /\ Oldest(entries) \in entries
           /\ \A f \in entries : Oldest(entries).key <= f.key
<1>1. Keys(entries) \subseteq Nat /\ Keys(entries) # {}
  BY DEF Keys, Entry
<1>2. PICK k \in Keys(entries) : \A n \in Keys(entries) : k <= n
  BY <1>1, NatMin
<1>3. \E e \in entries : \A f \in entries : e.key <= f.key
  BY <1>2 DEF Keys
<1> QED  BY <1>3 DEF Oldest

\* A mirrored row is one of the rows, with the id it was asked for.
LEMMA RowOfIsRow ==
    ASSUME NEW rows, NEW id, HasRow(rows, id)
    PROVE  RowOf(rows, id) \in rows /\ RowOf(rows, id).id = id
BY DEF HasRow, RowOf

\* An upsert adds the new row, and keeps those with another id.
LEMMA PutRows ==
    ASSUME NEW S, NEW rows \in SUBSET S, NEW r \in S
    PROVE  /\ Put(rows, {r}) \subseteq S
           /\ \A m \in S : m \in Put(rows, {r}) <=> m = r \/ (m \in rows /\ m.id # r.id)
BY DEF Put

\* Deleting a row leaves the others that are not in it.
LEMMA DeleteRows ==
    ASSUME NEW rows, NEW id
    PROVE  /\ Delete(rows, id) \subseteq rows
           /\ \A m \in rows : m \in Delete(rows, id) <=> m.id # id /\ m.list # id
BY DEF Delete

\* A row on the server is a row, whatever the ids of the temporary rows.
LEMMA ServerRowIsRow == ServerRow \subseteq Row
BY DEF ServerRow, Row, Ids, Lists

\* Mirroring what the server answered keeps the types, and touches no temporary row.
LEMMA MirrorReadRows ==
    ASSUME NEW l, NEW rows \in SUBSET ServerRow, mirror \subseteq Row
    PROVE  /\ MirrorRead(l, rows) \subseteq Row
           /\ \A m : m.id \in TempIds => (m \in MirrorRead(l, rows) <=> m \in mirror)
<1> USE SyncQueueAssumption
<1>1. \A n \in rows : n \in Row /\ n.id \notin TempIds
  BY ServerRowIsRow DEF ServerRow
<1> QED  BY <1>1 DEF MirrorRead, Put

\* Giving a row its real id keeps the types; the other temporary rows stay, in the
\* list they were in or, when that was the row, in the real one.
LEMMA RenamedRows ==
    ASSUME NEW id, NEW realId \in Nat, mirror \subseteq Row
    PROVE  /\ Renamed(mirror, id, realId) \subseteq Row
           /\ \A m \in Renamed(mirror, id, realId) : m.id \in TempIds =>
                 /\ m.id # id
                 /\ \E r \in mirror : r.id = m.id /\ m.list = IF r.list = id THEN realId ELSE r.list
<1> USE SyncQueueAssumption DEF Ids, Lists, Row
<1> SUFFICES ASSUME NEW r \in mirror,
                    NEW m, m = IF r.id = id THEN [r EXCEPT !.id = realId]
                               ELSE IF r.list = id THEN [r EXCEPT !.list = realId] ELSE r
             PROVE  /\ m \in Row
                    /\ m.id \in TempIds => /\ m.id # id /\ r.id = m.id
                                           /\ m.list = IF r.list = id THEN realId ELSE r.list
  BY DEF Renamed
<1>1. CASE r.id = id  BY <1>1
<1>2. CASE r.id # id /\ r.list = id  BY <1>2
<1>3. CASE r.id # id /\ r.list # id  BY <1>3
<1> QED  BY <1>1, <1>2, <1>3

-----------------------------------------------------------------------------
(* Types *)

\* The entries of the queue, and those a pass still holds.
Known == queue \cup InPass

IsCreate(e, t) == e.kind = "create" /\ e.row = t

\* What a create names: a list in no list, an item in one.  Everything else is
\* queued for a row the server gave an id to.
Shape(r) ==
    IF r.kind = "create"
    THEN \/ r.row \in TempLists /\ r.list = None
         \/ r.row \in TempItems /\ r.list \in Lists
    ELSE r.row \in Nat

EntryShape(e) ==
    /\ Shape(e)
    /\ e.dep = IF e.kind = "create" /\ e.list \in TempLists THEN e.list ELSE None

PageShape ==
    /\ page.pc # "idle" => page.req \in Request
    /\ page.pc # "idle" /\ page.req.kind = "create" => Shape(page.req)
    /\ page.pc = "enqueue" => page.req.kind = "create"
    /\ page.pc = "resolve" => page.req.kind # "create" /\ page.req.row \in TempIds

FlushShape ==
    /\ flush.pc = "idle" => flush.snap = {}
    /\ flush.pc \in {"idle", "next"} => flush.cur = None /\ flush.status = None
    /\ flush.pc \notin {"idle", "next"} => flush.cur \in Entry
    /\ flush.pc = "answer" => flush.status \in {"ok", "unauthorized", "refused", "gone"}
    /\ flush.pc = "remap" => flush.status = "ok" /\ flush.cur.kind = "create"
    /\ flush.pc = "discard" => flush.status \in {"refused", "gone"}
    /\ flush.pc \in {"answer", "remap"} /\ flush.cur.kind = "create" => flush.newId \in Nat

\* TypeOK, with what each point of a handler knows of what it holds.
TypeInv ==
    /\ TypeOK
    /\ \A e \in Known \cup page.read : EntryShape(e)
    /\ PageShape /\ FlushShape

\* The items the server holds at first are rows.
LEMMA ServerItemsAreRows ==
    [id : ServerItems, list : {1}, val : {0}, at : {0}] \subseteq ServerRow
<1> SUFFICES ASSUME NEW r \in [id : ServerItems, list : {1}, val : {0}, at : {0}]
             PROVE  r \in ServerRow
  OBVIOUS
<1>1. ServerItems \subseteq Nat  BY SyncQueueAssumption
<1>2. r.id \in Nat /\ r.list = 1 /\ r.val = 0 /\ r.at = 0  BY <1>1
<1>3. r = [id |-> r.id, list |-> r.list, val |-> r.val, at |-> r.at]  OBVIOUS
<1> QED  BY <1>2, <1>3 DEF ServerRow

\* At first everything has its type.
LEMMA TypeInit == Init => TypeInv
<1> SUFFICES ASSUME Init PROVE TypeInv  OBVIOUS
<1> USE SyncQueueAssumption DEF Init
<1>1. server \subseteq ServerRow /\ mirror \subseteq Row
  <2>1. [id |-> 1, list |-> None, val |-> 0, at |-> 0] \in ServerRow
    BY DEF ServerRow
  <2>2. [id : ServerItems, list : {1}, val : {0}, at : {0}] \subseteq ServerRow
    BY ServerItemsAreRows
  <2> QED  BY <2>1, <2>2, ServerRowIsRow
<1>2. TypeOK
  <2>1. page \in Page  BY DEF IdlePage, Page
  <2>2. flush \in Flush  BY DEF IdleFlush, Flush
  <2>3. StoresOK  BY <1>1 DEF StoresOK
  <2>4. HandlersOK  BY <2>1, <2>2 DEF HandlersOK
  <2>5. WorldOK
    <3>1. writes \in 0..MaxWrites /\ faults \in 0..MaxFaults /\ refusals \in 0..MaxRefusals
      OBVIOUS
    <3> QED  BY <3>1 DEF WorldOK
  <2>6. OutcomeOK  BY DEF OutcomeOK
  <2> QED  BY <2>3, <2>4, <2>5, <2>6 DEF TypeOK
<1> QED
  BY <1>2 DEF TypeInv, Known, InPass, PageShape, FlushShape, IdlePage, IdleFlush

\* A request of the page is well formed.
LEMMA RequestType ==
    ASSUME TypeInv, NEW r \in Requests
    PROVE  /\ r \in Request /\ r.op = clock + 1
           /\ r.kind = "create" => Shape(r) /\ r.row \notin used /\ r.row \in TempIds
           /\ r.kind = "create" => r.list = None \/ HasRow(mirror, r.list)
           /\ r.kind # "create" => r.row \in used \/ HasRow(mirror, r.row)
           /\ r.kind # "create" /\ ~Overlap => HasRow(mirror, r.row)
<1> USE SyncQueueAssumption
<1>1. MirroredLists \subseteq Lists /\ \A l \in MirroredLists : HasRow(mirror, l)
  BY DEF MirroredLists, HasRow, TypeInv, TypeOK, StoresOK, Row, Ids, Lists, TempIds
<1>2. CASE r \in [kind : {"create"}, row : TempLists \ used, list : {None}, op : {clock + 1}]
  BY <1>2 DEF Request, Shape, TypeInv, TypeOK, StoresOK, WorldOK, Ids, TempIds
<1>3. CASE r \in [kind : {"create"}, row : TempItems \ used, list : MirroredLists,
                  op : {clock + 1}]
  BY <1>1, <1>3 DEF Request, Shape, TypeInv, TypeOK, StoresOK, WorldOK, Ids, TempIds
<1>4. CASE r \in [kind : {"edit", "delete"}, list : {None}, op : {clock + 1},
                  row : {m.id : m \in mirror} \cup (IF Overlap THEN used ELSE {})]
  BY <1>4 DEF Request, Shape, TypeInv, TypeOK, StoresOK, WorldOK, Ids, TempIds, HasRow, Row
<1> QED  BY <1>2, <1>3, <1>4 DEF Requests

\* The server's tables keep their types, and its write is a row of its own.
LEMMA ApplyType ==
    ASSUME TypeInv, NEW r, r \in Request \/ r \in Entry, Apply(r), StatusOf(r) = "ok",
           r.kind # "create" \/ r.list \in Lists \cup {None}
    PROVE  /\ server' \subseteq ServerRow /\ nextId' \in Nat /\ clock' \in Nat
           /\ r.kind # "delete" => Written(r) \in ServerRow
           /\ r.kind = "create" => r.list \notin TempLists
<1> USE SyncQueueAssumption DEF TypeInv, TypeOK, StoresOK, WorldOK
<1>1. r.op \in Nat /\ r.kind \in {"create", "edit", "delete"} /\ r.list \in Lists \cup {None}
  BY DEF Request, Entry
<1>2. r.kind = "create" => r.list \in Nat \cup {None}
  BY DEF StatusOf, Lists, TempIds
<1>3. r.kind = "edit" => HasRow(server, r.row)
  BY DEF StatusOf, Gone
<1>4. r.kind # "delete" => Written(r) \in ServerRow
  <2>1. CASE r.kind = "create"  BY <1>1, <1>2, <2>1 DEF Written, ServerRow
  <2>2. CASE r.kind = "edit"
    <3> DEFINE old == RowOf(server, r.row)
    <3>1. old \in ServerRow  BY <1>3, <2>2, RowOfIsRow
    <3>2. Written(r) = [old EXCEPT !.val = r.op, !.at = clock + 1]  BY <2>2 DEF Written
    <3> HIDE DEF old
    <3> DEFINE new == [old EXCEPT !.val = r.op]
    <3>3. new \in ServerRow  BY <1>1, <3>1 DEF ServerRow
    <3>4. Written(r) = [new EXCEPT !.at = clock + 1]  BY <3>2
    <3> HIDE DEF new
    <3> QED  BY <3>3, <3>4 DEF ServerRow
  <2> QED  BY <1>1, <2>1, <2>2
<1>5. nextId' \in Nat /\ clock' \in Nat
  BY DEF Apply
<1>6. server' \subseteq ServerRow
  <2>1. CASE r.kind = "delete"  BY <2>1, DeleteRows DEF Apply
  <2>2. CASE r.kind # "delete"  BY <2>2, <1>4, PutRows DEF Apply
  <2> QED  BY <2>1, <2>2
<1>7. r.kind = "create" => r.list \notin TempLists
  BY <1>2 DEF TempIds
<1> QED  BY <1>4, <1>5, <1>6, <1>7

\* What the mirror has of a row, or would have, is a row.
LEMMA ExistingType ==
    ASSUME TypeInv, NEW id \in Ids
    PROVE  Existing(id) \in Row /\ Existing(id).id = id /\ TargetList(id) \in Lists \cup {None}
<1> USE SyncQueueAssumption DEF TypeInv, TypeOK, StoresOK, WorldOK
<1>1. Existing(id) \in Row /\ Existing(id).id = id
  BY RowOfIsRow DEF Existing, Row
<1>2. TargetList(id) \in Lists \cup {None}
  BY <1>1 DEF TargetList, MirroredLists, Row, Lists, Ids, TempIds
<1> QED  BY <1>1, <1>2

\* A write of the page keeps the types.
LEMMA TypeWrite == TypeInv /\ HandleApiWrite => TypeInv'
<1> SUFFICES ASSUME TypeInv, NEW r \in Requests,
                    WriteOnline(r) \/ WriteFails(r) \/ WriteAnswerLost(r)
             PROVE  TypeInv'
  BY DEF HandleApiWrite
<1> USE SyncQueueAssumption DEF TypeInv, TypeOK
<1>0. /\ r \in Request /\ r.op \in Nat
      /\ r.kind = "create" => Shape(r) /\ r.row \in TempIds
      /\ r.kind # "create" \/ r.list \in Lists \cup {None}
  BY RequestType DEF Request
<1>1. ASSUME WriteOnline(r) PROVE TypeInv'
  <2>1. /\ server' \subseteq ServerRow /\ nextId' \in Nat /\ clock' \in Nat
        /\ r.kind # "delete" => Written(r) \in ServerRow
    BY <1>0, <1>1, ApplyType DEF WriteOnline
  <2>2. mirror' \subseteq Row
    BY <1>1, <2>1, PutRows, DeleteRows, ServerRowIsRow DEF WriteOnline, StoresOK
  <2>3. StoresOK'  BY <1>1, <2>1, <2>2 DEF WriteOnline, StoresOK
  <2>4. HandlersOK'  BY <1>1 DEF WriteOnline, HandlersOK
  <2>5. WorldOK'  BY <1>1, <2>1 DEF WriteOnline, CanWrite, WorldOK, env
  <2>6. OutcomeOK'  BY <1>0, <1>1 DEF WriteOnline, OutcomeOK
  <2> QED
    BY <1>1, <2>3, <2>4, <2>5, <2>6 DEF WriteOnline, Known, InPass, PageShape, FlushShape
<1>2. ASSUME WriteFails(r) PROVE TypeInv'
  <2>1. page' = [pc |-> "queue", req |-> r, read |-> {}]
    BY <1>2 DEF WriteFails, IdlePage
  <2>2. StoresOK'  BY <1>2 DEF WriteFails, StoresOK, local
  <2>3. HandlersOK'  BY <1>0, <1>2, <2>1 DEF WriteFails, HandlersOK, Page
  <2>4. WorldOK'  BY <1>2 DEF WriteFails, CanWrite, WorldOK, env
  <2>5. OutcomeOK'  BY <1>2 DEF WriteFails, OutcomeOK, outcome
  <2>6. PageShape'  BY <1>0, <2>1 DEF PageShape
  <2>7. FlushShape' /\ Known' = Known  BY <1>2 DEF WriteFails, FlushShape, Known, InPass, local
  <2> QED  BY <2>1, <2>2, <2>3, <2>4, <2>5, <2>6, <2>7
<1>3. ASSUME WriteAnswerLost(r) PROVE TypeInv'
  <2>1. page' = [pc |-> "queue", req |-> r, read |-> {}]
    BY <1>3 DEF WriteAnswerLost, IdlePage
  <2>2. server' \subseteq ServerRow /\ nextId' \in Nat /\ clock' \in Nat
    BY <1>0, <1>3, ApplyType DEF WriteAnswerLost
  <2>3. StoresOK'  BY <1>3, <2>2 DEF WriteAnswerLost, StoresOK, local
  <2>4. HandlersOK'  BY <1>0, <1>3, <2>1 DEF WriteAnswerLost, HandlersOK, Page
  <2>5. WorldOK'
    <3>1. writes' \in 0..MaxWrites /\ faults' \in 0..MaxFaults /\ refusals' \in 0..MaxRefusals
      BY <1>3 DEF WriteAnswerLost, CanWrite, WorldOK
    <3> QED  BY <1>3, <2>2, <3>1 DEF WriteAnswerLost, WorldOK
  <2>6. posts' \in [TempIds -> Nat] /\ lost' \in [TempIds -> Nat]
    BY <1>0, <1>3 DEF WriteAnswerLost, Count, OutcomeOK
  <2>7. OutcomeOK'  BY <1>0, <1>3, <2>6 DEF WriteAnswerLost, OutcomeOK
  <2>8. PageShape'  BY <1>0, <2>1 DEF PageShape
  <2>9. FlushShape' /\ Known' = Known
    BY <1>3 DEF WriteAnswerLost, FlushShape, Known, InPass, local
  <2> QED  BY <2>1, <2>3, <2>4, <2>5, <2>7, <2>8, <2>9
<1> QED  BY <1>1, <1>2, <1>3

\* A new queue entry is an entry.
LEMMA NewEntryType ==
    ASSUME nextKey \in Nat, NEW r \in Request, Shape(r), NEW l \in Lists \cup {None},
           r.kind = "create" => l = r.list
    PROVE  /\ NewEntry(r, l) \in Entry /\ EntryShape(NewEntry(r, l))
           /\ NewEntry(r, l).key = nextKey /\ NewEntry(r, l).kind = r.kind
           /\ NewEntry(r, l).row = r.row /\ NewEntry(r, l).list = l
           /\ NewEntry(r, l).op = r.op /\ NewEntry(r, l).ops = {r.op}
           /\ NewEntry(r, l).dep = IF r.kind = "create" /\ l \in TempLists THEN l ELSE None
<1>1. /\ r.kind \in {"create", "edit", "delete"} /\ r.row \in Ids /\ r.op \in Nat
      /\ {r.op} \in SUBSET Nat
  BY DEF Request
<1>2. (IF r.kind = "create" /\ l \in TempLists THEN l ELSE None) \in TempLists \cup {None}
  OBVIOUS
<1>3. NewEntry(r, l) \in Entry
  BY <1>1, <1>2 DEF NewEntry, Entry
<1> QED  BY <1>3 DEF NewEntry, EntryShape, Shape

\* An entry an edit was folded into is an entry, with one more write.
LEMMA FoldedType ==
    ASSUME NEW e \in Entry, EntryShape(e), NEW op \in Nat,
           NEW f, f = [e EXCEPT !.op = op, !.ops = @ \cup {op}]
    PROVE  /\ f \in Entry /\ EntryShape(f)
           /\ f.key = e.key /\ f.kind = e.kind /\ f.row = e.row /\ f.list = e.list
           /\ f.dep = e.dep /\ f.ops = e.ops \cup {op}
<1>1. f \in Entry /\ f.ops = e.ops \cup {op}
  BY DEF Entry
<1>2. /\ f.key = e.key /\ f.kind = e.kind /\ f.row = e.row /\ f.list = e.list
      /\ f.dep = e.dep
  BY DEF Entry
<1> QED  BY <1>1, <1>2 DEF EntryShape, Shape

\* A dependent that got the real id of its list depends on nothing.
LEMMA RemappedType ==
    ASSUME NEW e \in Entry, EntryShape(e), e.dep \in TempLists, NEW realId \in Nat,
           NEW f, f = [e EXCEPT !.dep = None, !.list = realId]
    PROVE  /\ f \in Entry /\ EntryShape(f)
           /\ f.key = e.key /\ f.kind = e.kind /\ f.row = e.row /\ f.ops = e.ops
           /\ f.dep = None /\ f.list = realId /\ f.list \notin TempLists /\ f.kind = "create"
<1> USE SyncQueueAssumption
<1>1. realId \in Lists /\ realId \notin TempLists
  BY DEF Lists, TempIds
<1>2. f \in Entry /\ f.dep = None /\ f.list = realId
  BY <1>1 DEF Entry
<1>3. f.key = e.key /\ f.kind = e.kind /\ f.row = e.row /\ f.ops = e.ops
  BY DEF Entry
<1>4. e.kind = "create" /\ e.list \in TempLists /\ e.row \in TempItems
  BY DEF EntryShape, Shape, TempIds
<1> QED  BY <1>1, <1>2, <1>3, <1>4 DEF EntryShape, Shape

\* Saving a write for later keeps the types.
LEMMA TypeQueue == TypeInv /\ QueueOfflineWrite => TypeInv'
<1> SUFFICES ASSUME TypeInv, QueueOfflineWrite PROVE TypeInv'  OBVIOUS
<1> USE SyncQueueAssumption DEF TypeInv, TypeOK
<1> DEFINE r == page.req
<1>0. ASSUME page.pc # "idle"
      PROVE  /\ r \in Request /\ r.op \in Nat /\ r.row \in Ids
             /\ r.kind = "create" => Shape(r) /\ r.row \in TempIds /\ r.list \in Lists \cup {None}
  BY <1>0 DEF PageShape, Shape, Request, TempIds
<1>1. ASSUME QueueCreate PROVE TypeInv'
  <2> DEFINE m == [id |-> r.row, list |-> r.list, val |-> r.op, at |-> r.op]
  <2>1. m \in Row  BY <1>0, <1>1 DEF QueueCreate, Row
  <2>2. mirror' \subseteq Row  BY <1>1, <2>1, PutRows DEF QueueCreate, StoresOK
  <2>3. page' = [page EXCEPT !.pc = "enqueue"]  BY <1>1 DEF QueueCreate
  <2>4. page' \in Page /\ page'.pc = "enqueue" /\ page'.req = r /\ page'.read = page.read
    BY <2>3 DEF HandlersOK, Page
  <2>5. StoresOK'  BY <1>0, <1>1, <2>2 DEF QueueCreate, StoresOK
  <2>6. HandlersOK'  BY <1>1, <2>4 DEF QueueCreate, HandlersOK
  <2>7. WorldOK'  BY <1>1 DEF QueueCreate, WorldOK, env
  <2>8. OutcomeOK'  BY <1>1 DEF QueueCreate, OutcomeOK, outcome
  <2>9. PageShape'  BY <1>1, <2>4 DEF QueueCreate, PageShape
  <2>10. FlushShape' /\ Known' = Known  BY <1>1 DEF QueueCreate, FlushShape, Known, InPass
  <2> QED  BY <2>4, <2>5, <2>6, <2>7, <2>8, <2>9, <2>10
<1>2. ASSUME EnqueueCreate PROVE TypeInv'
  <2> DEFINE e == NewEntry(r, r.list)
  <2>1. r.kind = "create"  BY <1>2 DEF EnqueueCreate, PageShape
  <2>2. e \in Entry /\ EntryShape(e)
    BY <1>0, <1>2, <2>1, NewEntryType DEF EnqueueCreate, StoresOK
  <2>3. StoresOK'  BY <1>2, <2>2 DEF EnqueueCreate, StoresOK
  <2>4. HandlersOK'  BY <1>2 DEF EnqueueCreate, HandlersOK, Page, IdlePage
  <2>5. WorldOK'  BY <1>2 DEF EnqueueCreate, WorldOK, env
  <2>6. OutcomeOK'  BY <1>0, <1>2 DEF EnqueueCreate, OutcomeOK
  <2>7. PageShape' /\ page'.read = {}  BY <1>2 DEF EnqueueCreate, PageShape, IdlePage
  <2>8. FlushShape' /\ Known' = Known \cup {e}
    BY <1>2 DEF EnqueueCreate, FlushShape, Known, InPass
  <2> QED  BY <2>2, <2>3, <2>4, <2>5, <2>6, <2>7, <2>8
<1>3. ASSUME QueueEdit PROVE TypeInv'
  <2> DEFINE e == NewEntry(r, TargetList(r.row))
             old == Existing(r.row)
             m == [old EXCEPT !.val = r.op, !.at = r.op]
  <2>1. r.kind # "create" /\ r.row \in Nat  BY <1>3 DEF QueueEdit
  <2>2. e \in Entry /\ EntryShape(e)
    BY <1>0, <1>3, <2>1, NewEntryType, ExistingType DEF QueueEdit, StoresOK, Shape
  <2>3. old \in Row  BY <1>0, <1>3, ExistingType DEF QueueEdit
  <2>4. m \in Row
    <3> HIDE DEF old
    <3> QED  BY <1>0, <1>3, <2>3 DEF QueueEdit, Row
  <2>5. mirror' \subseteq Row
    <3>1. CASE r.kind = "delete"  BY <1>3, <3>1, DeleteRows DEF QueueEdit, StoresOK
    <3>2. CASE r.kind # "delete"
      <4>1. mirror' = Put(mirror, {m})  BY <1>3, <3>2 DEF QueueEdit
      <4> HIDE DEF m
      <4> QED  BY <2>4, <4>1, PutRows DEF StoresOK
    <3> QED  BY <3>1, <3>2
  <2>6. StoresOK'
    <3>1. queue' = queue \cup {e} /\ nextKey' = nextKey + 1  BY <1>3 DEF QueueEdit
    <3>2. UNCHANGED <<server, nextId, used>>  BY <1>3 DEF QueueEdit
    <3> HIDE DEF e
    <3> QED  BY <2>2, <2>5, <3>1, <3>2 DEF StoresOK
  <2>7. HandlersOK'  BY <1>3 DEF QueueEdit, HandlersOK, Page, IdlePage
  <2>8. WorldOK'  BY <1>3 DEF QueueEdit, WorldOK, env
  <2>9. OutcomeOK'  BY <1>0, <1>3 DEF QueueEdit, OutcomeOK
  <2>10. PageShape' /\ page'.read = {}  BY <1>3 DEF QueueEdit, PageShape, IdlePage
  <2>11. FlushShape' /\ Known' = Known \cup {e}
    BY <1>3 DEF QueueEdit, FlushShape, Known, InPass
  <2> QED  BY <2>2, <2>6, <2>7, <2>8, <2>9, <2>10, <2>11
<1>4. ASSUME ResolveRead PROVE TypeInv'
  <2>1. PICK read \in SUBSET queue : page' = [page EXCEPT !.pc = "resolve", !.read = read]
    BY <1>4 DEF ResolveRead
  <2>2. page' \in Page /\ page'.pc = "resolve" /\ page'.req = r /\ page'.read = read
    BY <2>1 DEF HandlersOK, StoresOK, Page
  <2>3. StoresOK'  BY <1>4 DEF ResolveRead, StoresOK, local
  <2>4. HandlersOK'  BY <1>4, <2>2 DEF ResolveRead, HandlersOK
  <2>5. WorldOK'  BY <1>4 DEF ResolveRead, WorldOK, env
  <2>6. OutcomeOK'  BY <1>4 DEF ResolveRead, OutcomeOK, outcome
  <2>7. PageShape'  BY <1>4, <2>2 DEF ResolveRead, PageShape
  <2>8. FlushShape' /\ Known' = Known /\ page'.read \subseteq Known
    BY <1>4, <2>2 DEF ResolveRead, FlushShape, Known, InPass, local
  <2> QED  BY <2>3, <2>4, <2>5, <2>6, <2>7, <2>8
<1>5. ASSUME ResolveDelete PROVE TypeInv'
  <2>1. mirror' \subseteq Row  BY <1>5, DeleteRows DEF ResolveDelete, StoresOK
  <2>2. queue' \subseteq queue  BY <1>5 DEF ResolveDelete, Dequeue
  <2>3. StoresOK'  BY <1>5, <2>1, <2>2 DEF ResolveDelete, StoresOK
  <2>4. HandlersOK'  BY <1>5 DEF ResolveDelete, HandlersOK, Page, IdlePage
  <2>5. WorldOK'  BY <1>5 DEF ResolveDelete, WorldOK, env
  <2>6. OpsOf(page.read) \subseteq Nat  BY DEF OpsOf, HandlersOK, Page, Entry
  <2>7. OutcomeOK'  BY <1>0, <1>5, <2>6 DEF ResolveDelete, OutcomeOK
  <2>8. PageShape' /\ page'.read = {}  BY <1>5 DEF ResolveDelete, PageShape, IdlePage
  <2>9. FlushShape' /\ Known' \subseteq Known
    BY <1>5, <2>2 DEF ResolveDelete, FlushShape, Known, InPass
  <2> QED  BY <2>3, <2>4, <2>5, <2>7, <2>8, <2>9
<1>6. ASSUME ResolveEdit PROVE TypeInv'
  <2> DEFINE old == Existing(r.row)
             m == [old EXCEPT !.val = r.op, !.at = r.op]
  <2>1. old \in Row  BY <1>0, <1>6, ExistingType DEF ResolveEdit
  <2>2. m \in Row
    <3> HIDE DEF old
    <3> QED  BY <1>0, <1>6, <2>1 DEF ResolveEdit, Row
  <2>3. mirror' \subseteq Row
    <3>1. mirror' = Put(mirror, {m})  BY <1>6 DEF ResolveEdit
    <3> HIDE DEF m
    <3> QED  BY <2>2, <3>1, PutRows DEF StoresOK
  <2>4. queue' \subseteq Entry /\ \A e \in queue' : EntryShape(e)
    <3>1. CASE Pending = {}  BY <1>6, <3>1 DEF ResolveEdit, StoresOK, Known
    <3>2. CASE Pending # {}
      <4> DEFINE e == Oldest(Pending)
                 f == [e EXCEPT !.op = r.op, !.ops = @ \cup {r.op}]
      <4>1. Pending \in SUBSET Entry  BY DEF Pending, HandlersOK, Page
      <4>2. e \in Entry /\ EntryShape(e)
        BY <3>2, <4>1, OldestIsFirst DEF Pending
      <4>3. queue' = UpdateQueueEntry(f)  BY <1>6, <3>2 DEF ResolveEdit
      <4> HIDE DEF e
      <4>4. f \in Entry /\ EntryShape(f)  BY <1>0, <1>6, <4>2, FoldedType DEF ResolveEdit
      <4> HIDE DEF f
      <4> QED  BY <4>3, <4>4 DEF UpdateQueueEntry, StoresOK, Known
    <3> QED  BY <3>1, <3>2
  <2>5. StoresOK'  BY <1>6, <2>3, <2>4 DEF ResolveEdit, StoresOK
  <2>6. HandlersOK'  BY <1>6 DEF ResolveEdit, HandlersOK, Page, IdlePage
  <2>7. WorldOK'  BY <1>6 DEF ResolveEdit, WorldOK, env
  <2>8. OutcomeOK'  BY <1>0, <1>6 DEF ResolveEdit, OutcomeOK
  <2>9. PageShape' /\ page'.read = {}  BY <1>6 DEF ResolveEdit, PageShape, IdlePage
  <2>10. FlushShape' /\ Known' \subseteq queue' \cup Known
    BY <1>6 DEF ResolveEdit, FlushShape, Known, InPass
  <2> QED  BY <2>4, <2>5, <2>6, <2>7, <2>8, <2>9, <2>10
<1> QED  BY <1>1, <1>2, <1>3, <1>4, <1>5, <1>6 DEF QueueOfflineWrite

\* A pass keeps the types.
LEMMA TypeFlush == TypeInv /\ (FlushQueue \/ FlushAnswerLost) => TypeInv'
<1> SUFFICES ASSUME TypeInv, FlushQueue \/ FlushAnswerLost PROVE TypeInv'  OBVIOUS
<1> USE SyncQueueAssumption DEF TypeInv, TypeOK
<1> DEFINE e == flush.cur
<1>a. /\ flush.snap \in SUBSET Entry /\ \A f \in flush.snap : EntryShape(f)
      /\ flush.pc \in {"answer", "remap", "discard"} => e \in Entry /\ EntryShape(e)
  BY DEF HandlersOK, Flush, FlushShape, Known, InPass
<1>b. IdleFlush \in Flush  BY DEF IdleFlush, Flush
<1>c. ASSUME flush' = IdleFlush, queue' = queue, UNCHANGED page PROVE
        FlushShape' /\ PageShape' /\ \A f \in Known' \cup page'.read : EntryShape(f)
  BY <1>c DEF IdleFlush, FlushShape, PageShape, Known, InPass
<1>d. ASSUME NEW f \in flush.snap, NEW status \in {"ok", "unauthorized", "refused", "gone"},
             flush.pc = "next", flush' = Answered(f, status), queue' = queue, UNCHANGED page
      PROVE  /\ flush' \in Flush /\ FlushShape' /\ PageShape'
             /\ \A g \in Known' \cup page'.read : EntryShape(g)
  <2> DEFINE newId == IF f.kind = "create" THEN nextId ELSE None
  <2>1. newId \in Nat \cup {None} /\ (f.kind = "create" => newId \in Nat)  BY DEF StoresOK
  <2>2. flush' = [flush EXCEPT !.pc = "answer", !.snap = @ \ {f}, !.cur = f,
                               !.status = status, !.newId = newId]
    BY <1>d DEF Answered
  <2>3. f \in Entry  BY <1>a
  <2> HIDE DEF newId
  <2>4. flush' = [pc |-> "answer", snap |-> flush.snap \ {f}, cur |-> f, status |-> status,
                  newId |-> newId]
    BY <2>2 DEF HandlersOK, Flush
  <2>5. flush' \in Flush  BY <1>a, <2>1, <2>3, <2>4 DEF Flush
  <2>6. FlushShape'  BY <2>1, <2>3, <2>4 DEF FlushShape
  <2>7. Known' \subseteq Known  BY <1>d, <2>4 DEF Known, InPass
  <2> QED  BY <1>d, <2>5, <2>6, <2>7 DEF PageShape
<1>e. ASSUME flush' = [flush EXCEPT !.pc = "next", !.cur = None, !.status = None,
                                    !.newId = None],
             queue' \subseteq queue, UNCHANGED page
      PROVE  /\ flush' \in Flush /\ FlushShape' /\ PageShape'
             /\ \A g \in Known' \cup page'.read : EntryShape(g)
  <2>1. flush' = [pc |-> "next", snap |-> flush.snap, cur |-> None, status |-> None,
                  newId |-> None]
    BY <1>e DEF HandlersOK, Flush
  <2>2. flush' \in Flush  BY <1>a, <2>1 DEF Flush
  <2>3. FlushShape'  BY <2>1 DEF FlushShape
  <2>4. Known' \subseteq Known  BY <1>e, <2>1 DEF Known, InPass
  <2> QED  BY <1>e, <2>2, <2>3, <2>4 DEF PageShape
<1>1. ASSUME FlushStart PROVE TypeInv'
  <2>1. flush' = [pc |-> "next", snap |-> queue, cur |-> None, status |-> None,
                  newId |-> None]
    BY <1>1 DEF FlushStart, IdleFlush
  <2>2. flush' \in Flush  BY <2>1 DEF Flush, StoresOK
  <2>3. StoresOK' /\ HandlersOK' /\ WorldOK' /\ OutcomeOK'
    BY <1>1, <2>2 DEF FlushStart, StoresOK, HandlersOK, WorldOK, OutcomeOK, local, env, outcome
  <2>4. FlushShape'  BY <2>1 DEF FlushShape
  <2>5. Known' \subseteq Known  BY <1>1, <2>1 DEF FlushStart, Known, InPass, local
  <2>6. PageShape' /\ page' = page  BY <1>1 DEF FlushStart, PageShape
  <2> QED  BY <2>3, <2>4, <2>5, <2>6
<1>2. ASSUME FlushEnd PROVE TypeInv'
  <2>1. StoresOK' /\ HandlersOK' /\ WorldOK' /\ OutcomeOK'
    BY <1>2, <1>b DEF FlushEnd, StoresOK, HandlersOK, WorldOK, OutcomeOK, local, env
  <2> QED  BY <1>2, <1>c, <2>1 DEF FlushEnd, local
<1>3. ASSUME FlushUnauthorized PROVE TypeInv'
  <2>1. StoresOK' /\ HandlersOK' /\ WorldOK' /\ OutcomeOK'
    BY <1>3, <1>b DEF FlushUnauthorized, StoresOK, HandlersOK, WorldOK, OutcomeOK, local, env
  <2> QED  BY <1>3, <1>c, <2>1 DEF FlushUnauthorized, local
<1>4. ASSUME FlushAnswerLost PROVE TypeInv'
  <2>1. e \in Entry /\ EntryShape(e)  BY <1>4, <1>a DEF FlushAnswerLost, FlushShape
  <2>2. lost' \in [TempIds -> Nat]
    BY <1>4, <2>1 DEF FlushAnswerLost, Count, OutcomeOK, EntryShape, Shape, TempIds
  <2>3. StoresOK' /\ HandlersOK' /\ OutcomeOK'
    BY <1>4, <1>b, <2>2 DEF FlushAnswerLost, StoresOK, HandlersOK, OutcomeOK, local
  <2>4. WorldOK'
    <3>1. faults' \in 0..MaxFaults  BY <1>4 DEF FlushAnswerLost, WorldOK
    <3> QED  BY <1>4, <3>1 DEF FlushAnswerLost, WorldOK
  <2> QED  BY <1>4, <1>c, <2>3, <2>4 DEF FlushAnswerLost, local
<1>5. ASSUME FlushSend PROVE TypeInv'
  <2> DEFINE f == Oldest(flush.snap)
  <2>1. f \in flush.snap  BY <1>5, <1>a, OldestIsFirst DEF FlushSend
  <2>2. f \in Entry /\ EntryShape(f) /\ f.ops \subseteq Nat /\ f.list \in Lists \cup {None}
    BY <2>1, <1>a DEF Entry
  <2>3. /\ StatusOf(f) = "ok" /\ Apply(f) /\ flush' = Answered(f, "ok")
        /\ landed' = landed \cup f.ops /\ posts' = Count(posts, f, 1) /\ flush.pc = "next"
    BY <1>5 DEF FlushSend
  <2> HIDE DEF f
  <2>4. server' \subseteq ServerRow /\ nextId' \in Nat /\ clock' \in Nat
    BY <2>2, <2>3, ApplyType
  <2>5. posts' \in [TempIds -> Nat]
    BY <2>2, <2>3 DEF Count, OutcomeOK, EntryShape, Shape, TempIds
  <2>6. /\ flush' \in Flush /\ FlushShape' /\ PageShape'
        /\ \A g \in Known' \cup page'.read : EntryShape(g)
    BY <1>5, <1>d, <2>1, <2>3 DEF FlushSend, local
  <2>7. StoresOK'  BY <1>5, <2>4 DEF FlushSend, StoresOK, local
  <2>8. HandlersOK'  BY <1>5, <2>6 DEF FlushSend, HandlersOK
  <2>9. WorldOK'  BY <1>5, <2>4 DEF FlushSend, WorldOK, env
  <2>10. OutcomeOK'  BY <1>5, <2>2, <2>3, <2>5 DEF FlushSend, OutcomeOK
  <2> QED  BY <2>6, <2>7, <2>8, <2>9, <2>10
<1>6. ASSUME FlushRefused PROVE TypeInv'
  <2> DEFINE f == Oldest(flush.snap)
  <2>1. f \in flush.snap  BY <1>6, <1>a, OldestIsFirst DEF FlushRefused
  <2>2. PICK status \in {"unauthorized", "refused", "gone"} : flush' = Answered(f, status)
    BY <1>6 DEF FlushRefused, StatusOf
  <2>3. refusals' \in 0..MaxRefusals
    BY <1>6 DEF FlushRefused, WorldOK
  <2> HIDE DEF f
  <2>4. /\ flush' \in Flush /\ FlushShape' /\ PageShape'
        /\ \A g \in Known' \cup page'.read : EntryShape(g)
    BY <1>6, <1>d, <2>1, <2>2 DEF FlushRefused, local
  <2>5. StoresOK' /\ HandlersOK' /\ OutcomeOK'
    BY <1>6, <2>4 DEF FlushRefused, StoresOK, HandlersOK, OutcomeOK, local, outcome
  <2>6. WorldOK'  BY <1>6, <2>3 DEF FlushRefused, WorldOK
  <2> QED  BY <2>4, <2>5, <2>6
<1>7. ASSUME RemapRow PROVE TypeInv'
  <2>1. flush.newId \in Nat  BY <1>7 DEF RemapRow, FlushShape
  <2>2. mirror' \subseteq Row  BY <1>7, <2>1, RenamedRows DEF RemapRow, StoresOK
  <2>3. flush' = [flush EXCEPT !.pc = "remap"]  BY <1>7 DEF RemapRow
  <2>4. /\ flush' \in Flush /\ flush'.pc = "remap" /\ flush'.snap = flush.snap
        /\ flush'.cur = e /\ flush'.status = flush.status /\ flush'.newId = flush.newId
    BY <2>3 DEF HandlersOK, Flush
  <2>5. StoresOK'  BY <1>7, <2>2 DEF RemapRow, StoresOK
  <2>6. HandlersOK'  BY <1>7, <2>4 DEF RemapRow, HandlersOK
  <2>7. WorldOK' /\ OutcomeOK'  BY <1>7 DEF RemapRow, WorldOK, OutcomeOK, env, outcome
  <2>8. FlushShape'  BY <1>7, <2>1, <2>4 DEF RemapRow, FlushShape
  <2>9. PageShape' /\ Known' = Known /\ page' = page
    BY <1>7, <2>4 DEF RemapRow, PageShape, Known, InPass
  <2> QED  BY <2>5, <2>6, <2>7, <2>8, <2>9
<1>8. ASSUME RemapDependent PROVE TypeInv'
  <2> DEFINE d == Oldest(Dependents)
             f == [d EXCEPT !.dep = None, !.list = flush.newId]
             snap == (flush.snap \ {d}) \cup {f}
  <2>1. d \in Dependents
    BY <1>8, <1>a, OldestIsFirst DEF RemapDependent, Dependents
  <2>2. flush.newId \in Nat /\ d \in Entry /\ EntryShape(d) /\ d.dep = e.row
        /\ e \in Entry /\ e.kind = "create" /\ EntryShape(e)
    BY <1>8, <1>a, <2>1 DEF RemapDependent, Dependents, FlushShape
  <2>3. d.dep \in TempLists
    BY <2>2 DEF EntryShape, Shape, TempIds
  <2>4. queue' = UpdateQueueEntry(f) /\ flush' = [flush EXCEPT !.snap = snap]
    BY <1>8 DEF RemapDependent
  <2> HIDE DEF d
  <2>5. f \in Entry /\ EntryShape(f)  BY <2>2, <2>3, RemappedType
  <2> HIDE DEF f
  <2>6. queue' \subseteq queue \cup {f}  BY <2>4 DEF UpdateQueueEntry
  <2>7. snap \in SUBSET Entry /\ snap \subseteq flush.snap \cup {f}  BY <1>a, <2>5
  <2> HIDE DEF snap
  <2>8. /\ flush' \in Flush /\ flush'.pc = flush.pc /\ flush'.snap = snap /\ flush'.cur = e
        /\ flush'.status = flush.status /\ flush'.newId = flush.newId
    BY <2>4, <2>7 DEF HandlersOK, Flush
  <2>9. StoresOK'  BY <1>8, <2>5, <2>6 DEF RemapDependent, StoresOK
  <2>10. HandlersOK'  BY <1>8, <2>8 DEF RemapDependent, HandlersOK
  <2>11. WorldOK' /\ OutcomeOK'  BY <1>8 DEF RemapDependent, WorldOK, OutcomeOK, env, outcome
  <2>12. FlushShape'  BY <1>8, <2>8 DEF RemapDependent, FlushShape
  <2>13. PageShape' /\ page' = page  BY <1>8 DEF RemapDependent, PageShape
  <2>14. Known' \subseteq Known \cup {f}  BY <2>6, <2>7, <2>8 DEF Known, InPass
  <2> QED  BY <2>5, <2>9, <2>10, <2>11, <2>12, <2>13, <2>14
<1>9. ASSUME FlushDequeue PROVE TypeInv'
  <2>1. queue' \subseteq queue  BY <1>9 DEF FlushDequeue, Dequeue
  <2>2. /\ flush' \in Flush /\ FlushShape' /\ PageShape'
        /\ \A g \in Known' \cup page'.read : EntryShape(g)
    BY <1>9, <1>e, <2>1 DEF FlushDequeue
  <2>3. StoresOK' /\ HandlersOK' /\ WorldOK' /\ OutcomeOK'
    BY <1>9, <2>1, <2>2 DEF FlushDequeue, StoresOK, HandlersOK, WorldOK, OutcomeOK, env
  <2> QED  BY <2>2, <2>3
<1>10. ASSUME DiscardEntry PROVE TypeInv'
  <2>1. queue' \subseteq queue  BY <1>10 DEF DiscardEntry, Dequeue
  <2>2. flush' = [flush EXCEPT !.pc = "discard"]  BY <1>10 DEF DiscardEntry
  <2>3. /\ flush' \in Flush /\ flush'.pc = "discard" /\ flush'.snap = flush.snap
        /\ flush'.cur = e /\ flush'.status = flush.status /\ flush'.newId = flush.newId
    BY <2>2 DEF HandlersOK, Flush
  <2>4. e.ops \subseteq Nat  BY <1>10 DEF DiscardEntry, FlushShape, Entry
  <2>5. StoresOK' /\ WorldOK' /\ OutcomeOK'
    BY <1>10, <2>1, <2>4 DEF DiscardEntry, StoresOK, WorldOK, OutcomeOK, env
  <2>6. HandlersOK'  BY <1>10, <2>3 DEF DiscardEntry, HandlersOK
  <2>7. FlushShape'
    BY <1>10, <2>3 DEF DiscardEntry, FlushShape, IsDefinitiveClientError
  <2>8. PageShape' /\ Known' \subseteq Known /\ page' = page
    BY <1>10, <2>1, <2>3 DEF DiscardEntry, PageShape, Known, InPass
  <2> QED  BY <2>5, <2>6, <2>7, <2>8
<1>11. ASSUME DiscardLocal PROVE TypeInv'
  <2>1. queue' \subseteq queue  BY <1>11 DEF DiscardLocal, Dequeue
  <2>2. mirror' \subseteq Row
    <3>1. {r \in server : e.list \in {r.id, r.list}} \in SUBSET ServerRow
      BY DEF StoresOK
    <3>2. mirror' \in {Delete(mirror, e.row), mirror,
                       MirrorRead(e.list, {r \in server : e.list \in {r.id, r.list}})}
      BY <1>11 DEF DiscardLocal
    <3> QED  BY <3>1, <3>2, MirrorReadRows, DeleteRows DEF StoresOK
  <2>3. OpsOf(Dependents) \subseteq Nat  BY <1>a DEF OpsOf, Dependents, Entry
  <2>4. dropped' \subseteq dropped \cup OpsOf(Dependents)  BY <1>11 DEF DiscardLocal
  <2>5. /\ flush' \in Flush /\ FlushShape' /\ PageShape'
        /\ \A g \in Known' \cup page'.read : EntryShape(g)
    BY <1>11, <1>e, <2>1 DEF DiscardLocal
  <2>6. StoresOK'  BY <1>11, <2>1, <2>2 DEF DiscardLocal, StoresOK
  <2>7. HandlersOK' /\ WorldOK'  BY <1>11, <2>5 DEF DiscardLocal, HandlersOK, WorldOK, env
  <2>8. OutcomeOK'  BY <1>11, <2>3, <2>4 DEF DiscardLocal, OutcomeOK
  <2> QED  BY <2>5, <2>6, <2>7, <2>8
<1> QED
  BY <1>1, <1>2, <1>3, <1>4, <1>5, <1>6, <1>7, <1>8, <1>9, <1>10, <1>11 DEF FlushQueue

\* Reading a list and mirroring it keep the types.
LEMMA TypeRead ==
    TypeInv /\ ((\E l \in RealIds : ReadList(l)) \/ MirrorReadResponse) => TypeInv'
<1> SUFFICES ASSUME TypeInv, (\E l \in RealIds : ReadList(l)) \/ MirrorReadResponse
             PROVE  TypeInv'
  OBVIOUS
<1> USE SyncQueueAssumption DEF TypeInv, TypeOK
<1>1. ASSUME NEW l \in RealIds, ReadList(l) PROVE TypeInv'
  <2>1. get' \in Get  BY <1>1 DEF ReadList, RealIds, Get, StoresOK
  <2>2. StoresOK' /\ HandlersOK' /\ WorldOK' /\ OutcomeOK'
    BY <1>1, <2>1
    DEF ReadList, StoresOK, HandlersOK, WorldOK, OutcomeOK, local, env, outcome
  <2>3. PageShape' /\ FlushShape' /\ Known' = Known /\ page' = page
    BY <1>1 DEF ReadList, PageShape, FlushShape, Known, InPass, local
  <2> QED  BY <2>2, <2>3
<1>2. ASSUME MirrorReadResponse PROVE TypeInv'
  <2>1. get.rows \in SUBSET ServerRow  BY <1>2 DEF MirrorReadResponse, HandlersOK, Get
  <2>2. mirror' \subseteq Row  BY <1>2, <2>1, MirrorReadRows DEF MirrorReadResponse, StoresOK
  <2>3. StoresOK'  BY <1>2, <2>2 DEF MirrorReadResponse, StoresOK
  <2>4. HandlersOK' /\ WorldOK' /\ OutcomeOK'
    BY <1>2 DEF MirrorReadResponse, HandlersOK, WorldOK, OutcomeOK, env, outcome
  <2>5. PageShape' /\ FlushShape' /\ Known' = Known /\ page' = page
    BY <1>2 DEF MirrorReadResponse, PageShape, FlushShape, Known, InPass
  <2> QED  BY <2>3, <2>4, <2>5
<1> QED  BY <1>1, <1>2

\* The world, and a step of none of these variables, keep the types.
LEMMA TypeWorld == TypeInv /\ (World \/ UNCHANGED vars) => TypeInv'
<1> SUFFICES ASSUME TypeInv, World \/ UNCHANGED vars PROVE TypeInv'  OBVIOUS
<1> USE SyncQueueAssumption DEF TypeInv, TypeOK
<1>1. ASSUME Connect \/ Login \/ UNCHANGED vars PROVE TypeInv'
  <2>1. StoresOK' /\ HandlersOK' /\ OutcomeOK'
    BY <1>1 DEF Connect, Login, StoresOK, HandlersOK, OutcomeOK, vars, local, outcome
  <2>2. WorldOK'  BY <1>1 DEF Connect, Login, WorldOK, vars, env
  <2>3. PageShape' /\ FlushShape' /\ Known' = Known /\ page' = page
    BY <1>1 DEF Connect, Login, PageShape, FlushShape, Known, InPass, vars, local
  <2> QED  BY <2>1, <2>2, <2>3
<1>2. ASSUME Disconnect \/ Expire PROVE TypeInv'
  <2>1. StoresOK' /\ HandlersOK' /\ OutcomeOK'
    BY <1>2 DEF Disconnect, Expire, StoresOK, HandlersOK, OutcomeOK, local, outcome
  <2>2. faults' \in 0..MaxFaults  BY <1>2 DEF Disconnect, Expire, WorldOK
  <2>3. WorldOK'  BY <1>2, <2>2 DEF Disconnect, Expire, WorldOK
  <2>4. PageShape' /\ FlushShape' /\ Known' = Known /\ page' = page
    BY <1>2 DEF Disconnect, Expire, PageShape, FlushShape, Known, InPass, local
  <2> QED  BY <2>1, <2>3, <2>4
<1>3. ASSUME OtherDevice PROVE TypeInv'
  <2>1. PICK r \in server, kind \in {"edit", "delete"} :
            Apply([kind |-> kind, row |-> r.id, list |-> None, op |-> clock + 1])
    BY <1>3 DEF OtherDevice
  <2> DEFINE w == [kind |-> kind, row |-> r.id, list |-> None, op |-> clock + 1]
             old == RowOf(server, w.row)
             new == [old EXCEPT !.val = w.op]
  <2>2. clock + 1 \in Nat /\ clock \in Nat  BY DEF WorldOK
  <2>3. old \in ServerRow
    BY RowOfIsRow DEF HasRow, StoresOK
  <2>4. Written(w) = [new EXCEPT !.at = clock + 1]  BY DEF Written
  <2>5. Written(w) \in ServerRow
    <3> HIDE DEF old
    <3>1. new \in ServerRow  BY <2>2, <2>3 DEF ServerRow
    <3> HIDE DEF new
    <3> QED  BY <2>2, <2>4, <3>1 DEF ServerRow
  <2>6. server' \subseteq ServerRow
    <3>1. server' = Delete(server, w.row) \/ server' = Put(server, {Written(w)})
      BY <2>1 DEF Apply
    <3> QED  BY <2>5, <3>1, PutRows, DeleteRows DEF StoresOK
  <2>7. nextId' \in Nat /\ clock' \in Nat  BY <2>1, <2>2 DEF Apply, StoresOK
  <2>8. faults' \in 0..MaxFaults  BY <1>3 DEF OtherDevice, WorldOK
  <2>9. StoresOK'  BY <1>3, <2>6, <2>7 DEF OtherDevice, StoresOK, local
  <2>10. HandlersOK' /\ OutcomeOK'  BY <1>3 DEF OtherDevice, HandlersOK, OutcomeOK, outcome
  <2>11. WorldOK'  BY <1>3, <2>7, <2>8 DEF OtherDevice, WorldOK
  <2>12. PageShape' /\ FlushShape' /\ Known' = Known /\ page' = page
    BY <1>3 DEF OtherDevice, PageShape, FlushShape, Known, InPass, local
  <2> QED  BY <2>9, <2>10, <2>11, <2>12
<1>4. ASSUME Kill PROVE TypeInv'
  <2>1. /\ page' = [pc |-> "idle", req |-> None, read |-> {}]
        /\ flush' = [pc |-> "idle", snap |-> {}, cur |-> None, status |-> None, newId |-> None]
        /\ get' = None
    BY <1>4 DEF Kill, IdlePage, IdleFlush
  <2>2. page' \in Page /\ flush' \in Flush  BY <2>1 DEF Page, Flush
  <2>3. lost' \in [TempIds -> Nat]
    <3> DEFINE t == flush.cur.row
    <3>1. lost' = lost \/ lost' = [lost EXCEPT ![t] = @ + 1]  BY <1>4 DEF Kill, Count
    <3> HIDE DEF t
    <3> QED  BY <3>1 DEF OutcomeOK
  <2>4. faults' \in 0..MaxFaults  BY <1>4 DEF Kill, WorldOK
  <2>5. StoresOK'  BY <1>4 DEF Kill, StoresOK, local
  <2>6. HandlersOK'  BY <2>1, <2>2 DEF HandlersOK
  <2>7. WorldOK'  BY <1>4, <2>4 DEF Kill, WorldOK
  <2>8. OutcomeOK'  BY <1>4, <2>3 DEF Kill, OutcomeOK
  <2>9. PageShape' /\ FlushShape'  BY <2>1 DEF PageShape, FlushShape
  <2>10. Known' \subseteq Known /\ page'.read = {}
    BY <1>4, <2>1 DEF Kill, Known, InPass, local
  <2> QED  BY <2>5, <2>6, <2>7, <2>8, <2>9, <2>10
<1> QED  BY <1>1, <1>2, <1>3, <1>4, TypeFlush DEF World

\* Every step keeps the types.
LEMMA TypeStep == TypeInv /\ [Next]_vars => TypeInv'
BY TypeWrite, TypeQueue, TypeFlush, TypeRead, TypeWorld DEF Next

\* The types, with what a pass holds where it awaits.
LEMMA TypeInvariance == Spec => []TypeInv
<1>1. Init => TypeInv  BY TypeInit
<1>2. TypeInv /\ [Next]_vars => TypeInv'  BY TypeStep
<1> QED  BY <1>1, <1>2, PTL DEF Spec

\* The stores, the handlers' memory and the counters keep their types, whatever
\* overlaps: a create is for a temporary id, every other entry for a real one.
THEOREM TypeCorrect == Spec => []TypeOK
<1>1. TypeInv => TypeOK  BY DEF TypeInv
<1> QED  BY <1>1, TypeInvariance, PTL

-----------------------------------------------------------------------------
(* Nothing leaves the queue unseen *)

\* No step takes an entry out of the queue before the server answered it or the
\* page or a refusal cancelled it.
LEMMA NoEntryLostStep == TypeInv /\ NoEntryLost /\ [Next]_vars => NoEntryLost'
<1> SUFFICES ASSUME TypeInv, NoEntryLost, [Next]_vars PROVE NoEntryLost'  OBVIOUS
<1> DEFINE Accounted == Keys(queue) \cup answered \cup withdrawn \cup skipped
<1>0. nextKey \in Nat  BY DEF TypeInv, TypeOK, StoresOK
<1>a. ASSUME nextKey' = nextKey, Accounted \subseteq Accounted' PROVE NoEntryLost'
  BY <1>a DEF NoEntryLost
<1>b. ASSUME NEW e, e.key = nextKey, queue' = queue \cup {e}, nextKey' = nextKey + 1,
             UNCHANGED <<answered, withdrawn, skipped>>
      PROVE  NoEntryLost'
  <2>1. Keys(queue') = Keys(queue) \cup {nextKey}  BY <1>b DEF Keys
  <2> QED  BY <1>0, <1>b, <2>1 DEF NoEntryLost
<1>c. ASSUME NEW entries \in SUBSET queue, queue' = Dequeue(Keys(entries))
      PROVE  Keys(queue) \subseteq Keys(queue') \cup Keys(entries)
  BY <1>c DEF Keys, Dequeue
<1>1. ASSUME UNCHANGED <<queue, nextKey, answered, withdrawn, skipped>> PROVE NoEntryLost'
  BY <1>a, <1>1 DEF Keys
<1>2. CASE EnqueueCreate
  <2>1. NewEntry(page.req, page.req.list).key = nextKey  BY DEF NewEntry
  <2> QED  BY <1>2, <1>b, <2>1 DEF EnqueueCreate
<1>3. CASE QueueEdit
  <2>1. NewEntry(page.req, TargetList(page.req.row)).key = nextKey  BY DEF NewEntry
  <2> QED  BY <1>3, <1>b, <2>1 DEF QueueEdit
<1>4. CASE ResolveDelete
  <2>1. Keys(queue) \subseteq Keys(queue') \cup Keys(page.read)
    BY <1>4 DEF ResolveDelete, Dequeue, Keys
  <2> QED  BY <1>4, <1>a, <2>1 DEF ResolveDelete
<1>d. ASSUME NEW f, queue' = UpdateQueueEntry(f) PROVE Keys(queue) \subseteq Keys(queue')
  BY <1>d DEF UpdateQueueEntry, Keys
<1>5. CASE ResolveEdit
  <2>1. Keys(queue) \subseteq Keys(queue')
    BY <1>5, <1>d DEF ResolveEdit
  <2> QED  BY <1>5, <1>a, <2>1 DEF ResolveEdit
<1>6. CASE RemapDependent
  <2>1. Keys(queue) \subseteq Keys(queue')
    BY <1>6, <1>d DEF RemapDependent
  <2>2. UNCHANGED <<nextKey, answered, withdrawn, skipped>>
    BY <1>6 DEF RemapDependent, outcome
  <2> QED  BY <1>a, <2>1, <2>2
<1>7. CASE FlushDequeue \/ DiscardEntry
  <2>1. Keys(queue) \subseteq Keys(queue') \cup {flush.cur.key}
    BY <1>7 DEF FlushDequeue, DiscardEntry, Dequeue, Keys
  <2> QED  BY <1>7, <1>a, <2>1 DEF FlushDequeue, DiscardEntry
<1>8. CASE DiscardLocal
  <2>1. \/ queue' = queue /\ skipped' = skipped
        \/ queue' = Dequeue(Keys(Dependents)) /\ skipped' = skipped \cup Keys(Dependents)
    <3>1. /\ queue' = IF flush.cur.kind = "create" THEN Dequeue(Keys(Dependents)) ELSE queue
          /\ skipped' = IF flush.cur.kind = "create" THEN skipped \cup Keys(Dependents)
                        ELSE skipped
      BY <1>8 DEF DiscardLocal
    <3> QED  BY <3>1
  <2>2. Keys(queue) \cup skipped \subseteq Keys(queue') \cup skipped'
    BY <2>1 DEF Dequeue, Keys
  <2> QED  BY <1>8, <1>a, <2>2 DEF DiscardLocal
<1>9. CASE HandleApiWrite
  BY <1>1, <1>9 DEF HandleApiWrite, WriteOnline, WriteFails, WriteAnswerLost, local, outcome
<1>10. CASE QueueCreate \/ ResolveRead
  BY <1>1, <1>10 DEF QueueCreate, ResolveRead, local, outcome
<1>11. CASE FlushStart \/ FlushEnd \/ FlushSend \/ FlushRefused \/ FlushUnauthorized \/ RemapRow
  BY <1>1, <1>11
  DEF FlushStart, FlushEnd, FlushSend, FlushRefused, FlushUnauthorized, RemapRow, local, outcome
<1>12. CASE World
  BY <1>1, <1>12
  DEF World, Connect, Disconnect, Expire, Login, OtherDevice, Kill, FlushAnswerLost, local,
      outcome
<1>13. CASE MirrorReadResponse \/ (\E l \in RealIds : ReadList(l)) \/ UNCHANGED vars
  BY <1>1, <1>13 DEF MirrorReadResponse, ReadList, vars, local, outcome
<1> QED
  BY <1>2, <1>3, <1>4, <1>5, <1>6, <1>7, <1>8, <1>9, <1>10, <1>11, <1>12, <1>13
  DEF Next, QueueOfflineWrite, FlushQueue

\* Whatever overlaps, no entry leaves the queue before the server answered it, the
\* page withdrew it, or the refusal of its list cancelled it: a 401, a 5xx, a lost
\* answer or a killed worker keeps it for the next pass.
THEOREM EntriesAreKept == Spec => []NoEntryLost
<1>1. Init => NoEntryLost  BY DEF Init, NoEntryLost
<1>2. TypeInv /\ NoEntryLost /\ [Next]_vars => NoEntryLost'  BY NoEntryLostStep
<1> QED  BY <1>1, <1>2, TypeInvariance, PTL DEF Spec

-----------------------------------------------------------------------------
(* What each step does to the queue, the pass and the page *)

Holding == flush.pc \in {"answer", "remap", "discard"}

\* The oldest entry of the snapshot is sent, and becomes the entry at hand.
SendStep(f) ==
    /\ flush.pc = "next" /\ f \in flush.snap
    /\ \A g \in flush.snap : f.key <= g.key
    /\ flush'.pc = "answer" /\ flush'.snap = flush.snap \ {f} /\ flush'.cur = f
    /\ \/ /\ flush'.status = "ok" /\ StatusOf(f) = "ok"
          /\ landed' = landed \cup f.ops /\ posts' = Count(posts, f, 1)
       \/ flush'.status # "ok" /\ UNCHANGED <<landed, posts>>
    /\ UNCHANGED <<queue, nextKey, used, page, mirror, skipped, cut, accepted, dropped, lost>>

\* The entry at hand stays at hand.
HoldStep(pc) ==
    /\ Holding
    /\ flush'.pc = pc /\ flush'.snap = flush.snap /\ flush'.cur = flush.cur
    /\ flush'.status = flush.status
    /\ UNCHANGED <<nextKey, used, page, skipped>>

\* The pass is done with the entry at hand.
NextStep ==
    /\ Holding
    /\ flush'.pc = "next" /\ flush'.snap = flush.snap
    /\ UNCHANGED <<nextKey, used, page>>

\* The pass stops: what it held is in the queue, or a row is left over.
StopStep ==
    /\ flush'.pc = "idle" /\ flush'.snap = {}
    /\ UNCHANGED <<queue, nextKey, used, mirror, skipped, accepted, landed, dropped, posts>>
    /\ Abandoned \subseteq cut' /\ cut \subseteq cut'
    /\ lost' = IF Delivered THEN Count(lost, flush.cur, 1) ELSE lost
    /\ \/ page' = page /\ flush.pc # "idle"
       \/ page'.pc = "idle" /\ (page.pc = "enqueue" => page.req.row \in cut')

\* A pass sends the oldest entry of what it read.
LEMMA SendEffect ==
    ASSUME TypeInv, FlushSend \/ FlushRefused
    PROVE  \E f \in flush.snap : SendStep(f) /\ f = Oldest(flush.snap)
<1> DEFINE f == Oldest(flush.snap)
<1>1. flush.snap \in SUBSET Entry /\ flush.snap # {}
  BY DEF FlushSend, FlushRefused, TypeInv, TypeOK, HandlersOK, Flush
<1>2. f \in flush.snap /\ \A g \in flush.snap : f.key <= g.key  BY <1>1, OldestIsFirst
<1>3. PICK status :
            /\ flush' = Answered(f, status)
            /\ \/ /\ status = "ok" /\ StatusOf(f) = "ok"
                  /\ landed' = landed \cup f.ops /\ posts' = Count(posts, f, 1)
               \/ status # "ok" /\ UNCHANGED <<landed, posts>>
  <2>1. CASE FlushSend  BY <2>1 DEF FlushSend
  <2>2. CASE FlushRefused
    <3>1. PICK status \in {"unauthorized", "refused", "gone"} : flush' = Answered(f, status)
      BY <2>2 DEF FlushRefused, StatusOf
    <3>2. status # "ok" /\ UNCHANGED <<landed, posts>>  BY <2>2, <3>1 DEF FlushRefused, outcome
    <3> QED  BY <3>1, <3>2
  <2> QED  BY <2>1, <2>2
<1> HIDE DEF f
<1>4. /\ flush'.pc = "answer" /\ flush'.snap = flush.snap \ {f} /\ flush'.cur = f
      /\ flush'.status = status
  <2> DEFINE newId == IF f.kind = "create" THEN nextId ELSE None
  <2>1. flush' = [flush EXCEPT !.pc = "answer", !.snap = @ \ {f}, !.cur = f,
                               !.status = status, !.newId = newId]
    BY <1>3 DEF Answered
  <2> HIDE DEF newId
  <2> QED  BY <2>1 DEF TypeInv, TypeOK, HandlersOK, Flush
<1>5. /\ flush.pc = "next"
      /\ UNCHANGED <<queue, nextKey, used, page, mirror, skipped, cut, accepted, dropped, lost>>
  BY DEF FlushSend, FlushRefused, local, outcome
<1> QED  BY <1>2, <1>3, <1>4, <1>5 DEF SendStep, f

\* A create that was answered gives its row the server's id, and holds its entry.
LEMMA RemapRowEffect ==
    ASSUME TypeInv, RemapRow
    PROVE  /\ HoldStep("remap") /\ queue' = queue
           /\ flush.pc = "answer" /\ flush.status = "ok" /\ flush.cur.kind = "create"
<1>1. flush' = [flush EXCEPT !.pc = "remap"]  BY DEF RemapRow
<1>2. /\ flush'.pc = "remap" /\ flush'.snap = flush.snap /\ flush'.cur = flush.cur
      /\ flush'.status = flush.status
  BY <1>1 DEF TypeInv, TypeOK, HandlersOK, Flush
<1> QED  BY <1>2 DEF RemapRow, HoldStep, Holding, outcome

\* An entry the server refuses for good leaves the queue first.
LEMMA DiscardEntryEffect ==
    ASSUME TypeInv, DiscardEntry
    PROVE  /\ HoldStep("discard") /\ queue' = Dequeue({flush.cur.key})
           /\ flush.pc = "answer" /\ IsDefinitiveClientError(flush.status)
<1>1. flush' = [flush EXCEPT !.pc = "discard"]  BY DEF DiscardEntry
<1>2. /\ flush'.pc = "discard" /\ flush'.snap = flush.snap /\ flush'.cur = flush.cur
      /\ flush'.status = flush.status
  BY <1>1 DEF TypeInv, TypeOK, HandlersOK, Flush
<1> QED  BY <1>2 DEF DiscardEntry, HoldStep, Holding

\* An entry done with leaves the queue; the pass goes on to the next one.
LEMMA NextEffect ==
    ASSUME TypeInv, FlushDequeue \/ DiscardLocal
    PROVE  NextStep
<1>1. flush' = [flush EXCEPT !.pc = "next", !.cur = None, !.status = None, !.newId = None]
  BY DEF FlushDequeue, DiscardLocal
<1>2. flush'.pc = "next" /\ flush'.snap = flush.snap
  BY <1>1 DEF TypeInv, TypeOK, HandlersOK, Flush
<1>3. Holding /\ UNCHANGED <<nextKey, used, page>>
  BY DEF FlushDequeue, DiscardLocal, Holding
<1> QED  BY <1>2, <1>3 DEF NextStep

\* With a create refused goes its row, and every entry about it.
LEMMA DiscardLocalEffect ==
    ASSUME TypeInv, DiscardLocal
    PROVE  /\ NextStep /\ flush.pc = "discard"
           /\ \/ /\ flush.cur.kind = "create"
                 /\ queue' = Dequeue(Keys(Dependents))
                 /\ skipped' = skipped \cup Keys(Dependents)
                 /\ dropped' = dropped \cup OpsOf(Dependents)
                 /\ mirror' = Delete(mirror, flush.cur.row)
              \/ flush.cur.kind # "create" /\ UNCHANGED <<queue, skipped, dropped>>
<1>1. NextStep /\ flush.pc = "discard"  BY NextEffect DEF DiscardLocal
<1>2. CASE flush.cur.kind = "create"
  <2>1. /\ queue' = Dequeue(Keys(Dependents)) /\ skipped' = skipped \cup Keys(Dependents)
        /\ dropped' = dropped \cup OpsOf(Dependents) /\ mirror' = Delete(mirror, flush.cur.row)
    BY <1>2 DEF DiscardLocal
  <2> QED  BY <1>1, <1>2, <2>1
<1>3. CASE flush.cur.kind # "create"
  <2>1. UNCHANGED <<queue, skipped, dropped>>  BY <1>3 DEF DiscardLocal
  <2> QED  BY <1>1, <1>3, <2>1
<1> QED  BY <1>2, <1>3

\* A pass that ends, or is cut short, does not touch the queue.
LEMMA StopEffect ==
    ASSUME TypeInv, FlushEnd \/ FlushUnauthorized \/ FlushAnswerLost \/ Kill
    PROVE  StopStep
<1>1. flush'.pc = "idle" /\ flush'.snap = {}
  BY DEF FlushEnd, FlushUnauthorized, FlushAnswerLost, Kill, IdleFlush
<1>2. /\ UNCHANGED <<queue, nextKey, used, mirror, skipped, accepted, landed, dropped, posts>>
      /\ Abandoned \subseteq cut' /\ cut \subseteq cut'
  BY DEF FlushEnd, FlushUnauthorized, FlushAnswerLost, Kill, local
<1>3. \/ page' = page /\ flush.pc # "idle"
      \/ page'.pc = "idle" /\ (page.pc = "enqueue" => page.req.row \in cut')
  BY DEF FlushEnd, FlushUnauthorized, FlushAnswerLost, Kill, IdlePage
<1>4. lost' = IF Delivered THEN Count(lost, flush.cur, 1) ELSE lost
  <2>1. CASE FlushEnd \/ FlushUnauthorized
    BY <2>1 DEF FlushEnd, FlushUnauthorized, Delivered
  <2>2. CASE FlushAnswerLost  BY <2>2 DEF FlushAnswerLost
  <2>3. CASE Kill  BY <2>3 DEF Kill
  <2> QED  BY <2>1, <2>2, <2>3
<1> QED  BY <1>1, <1>2, <1>3, <1>4 DEF StopStep

\* One dependent of a created list gets its real id, in the pass and in the queue.
DependentStep(d, f) ==
    /\ flush.pc = "remap" /\ flush.cur.kind = "create"
    /\ d \in flush.snap /\ d.dep = flush.cur.row /\ d.list = d.dep /\ d.kind = "create"
    /\ f.key = d.key /\ f.kind = d.kind /\ f.row = d.row /\ f.ops = d.ops
    /\ f.dep = None /\ f.list \notin TempLists
    /\ queue' = UpdateQueueEntry(f)
    /\ flush'.snap = (flush.snap \ {d}) \cup {f}
    /\ UNCHANGED <<flush.pc, flush.cur, flush.status>>
    /\ UNCHANGED <<nextKey, used, page, mirror, skipped, cut, accepted, landed, dropped,
                   posts, lost>>

\* An entry about a row just created takes the server's id.
LEMMA DependentEffect ==
    ASSUME TypeInv, RemapDependent
    PROVE  \E d \in Dependents : \E f : DependentStep(d, f)
<1> DEFINE d == Oldest(Dependents)
           f == [d EXCEPT !.dep = None, !.list = flush.newId]
           snap == (flush.snap \ {d}) \cup {f}
<1> USE SyncQueueAssumption DEF TypeInv, TypeOK
<1>1. Dependents \in SUBSET Entry /\ Dependents # {}
  BY DEF RemapDependent, Dependents, HandlersOK, Flush
<1>2. d \in Dependents  BY <1>1, OldestIsFirst
<1>3. /\ d \in flush.snap /\ d.dep = flush.cur.row /\ d \in Entry /\ EntryShape(d)
      /\ flush.newId \in Nat /\ flush.cur \in Entry /\ EntryShape(flush.cur)
      /\ flush.cur.kind = "create" /\ flush.pc = "remap"
  BY <1>2 DEF Dependents, RemapDependent, Known, InPass, FlushShape, HandlersOK, Flush
<1>4. d.dep \in TempLists /\ d.list = d.dep /\ d.kind = "create"
  BY <1>3 DEF EntryShape, Shape, TempIds
<1>5. queue' = UpdateQueueEntry(f) /\ flush' = [flush EXCEPT !.snap = snap]
  BY DEF RemapDependent
<1>6. UNCHANGED <<nextKey, used, page, mirror, skipped, cut, accepted, landed, dropped,
                  posts, lost>>
  BY DEF RemapDependent, outcome
<1> HIDE DEF d
<1>7. /\ f.key = d.key /\ f.kind = d.kind /\ f.row = d.row /\ f.ops = d.ops
      /\ f.dep = None /\ f.list \notin TempLists
  <2>1. flush.newId \notin TempLists  BY <1>3 DEF TempIds
  <2>2. f.dep = None /\ f.list = flush.newId  BY <1>3 DEF Entry
  <2>3. f.key = d.key /\ f.kind = d.kind /\ f.row = d.row /\ f.ops = d.ops  BY <1>3 DEF Entry
  <2> QED  BY <2>1, <2>2, <2>3
<1> HIDE DEF f, snap
<1>8. /\ flush'.snap = snap /\ flush'.pc = flush.pc /\ flush'.cur = flush.cur
      /\ flush'.status = flush.status
  BY <1>5 DEF HandlersOK, Flush
<1> QED  BY <1>2, <1>3, <1>4, <1>5, <1>6, <1>7, <1>8 DEF DependentStep, snap

\* An edit is folded into a pending create, if there is one.
FoldStep(e, f) ==
    /\ e \in Pending
    /\ f.key = e.key /\ f.kind = e.kind /\ f.row = e.row /\ f.list = e.list /\ f.dep = e.dep
    /\ f.ops = e.ops \cup {page.req.op}
    /\ queue' = UpdateQueueEntry(f)

\* An edit of a row whose create is queued goes into that create.
LEMMA FoldEffect ==
    ASSUME TypeInv, ResolveEdit
    PROVE  (Pending = {} /\ queue' = queue) \/ \E e \in Pending : \E f : FoldStep(e, f)
<1> USE DEF TypeInv, TypeOK
<1>1. CASE Pending = {}  BY <1>1 DEF ResolveEdit
<1>2. CASE Pending # {}
  <2> DEFINE e == Oldest(Pending)
             f == [e EXCEPT !.op = page.req.op, !.ops = @ \cup {page.req.op}]
  <2>1. Pending \in SUBSET Entry  BY DEF Pending, HandlersOK, Page
  <2>2. e \in Pending /\ e \in Entry /\ EntryShape(e)
    BY <1>2, <2>1, OldestIsFirst DEF Pending
  <2>3. queue' = UpdateQueueEntry(f)  BY <1>2 DEF ResolveEdit
  <2>4. page.req.op \in Nat  BY DEF ResolveEdit, PageShape, Request
  <2> HIDE DEF e
  <2>5. /\ f.key = e.key /\ f.kind = e.kind /\ f.row = e.row /\ f.list = e.list
        /\ f.dep = e.dep /\ f.ops = e.ops \cup {page.req.op}
    <3>1. f.ops = e.ops \cup {page.req.op}  BY <2>2 DEF Entry
    <3>2. /\ f.key = e.key /\ f.kind = e.kind /\ f.row = e.row /\ f.list = e.list
          /\ f.dep = e.dep
      BY <2>2 DEF Entry
    <3> QED  BY <3>1, <3>2
  <2> HIDE DEF f
  <2> QED  BY <2>2, <2>3, <2>5 DEF FoldStep
<1> QED  BY <1>1, <1>2

-----------------------------------------------------------------------------
(* The queue and the pass: part one of the invariant *)

\* Keys identify entries, grow, and are spent once the entry was cancelled; the
\* entry at hand is older than what is left of the snapshot.
KeysInv ==
    /\ \A e \in Known : e.key < nextKey
    /\ \A k \in skipped : k \in Nat /\ k < nextKey
    /\ \A e, f \in Known : e.key = f.key => e = f
    /\ \A e \in queue : e.key \notin skipped
    /\ Holding => \A e \in flush.snap : flush.cur.key < e.key

\* A temporary row has one create, and none before its id is given.
CreatesInv ==
    /\ \A e, f \in Known : e.kind = "create" /\ f.kind = "create" /\ e.row = f.row => e = f
    /\ \A e \in Known : e.kind = "create" => e.row \in used
    /\ page.pc = "queue" /\ page.req.kind = "create" => page.req.row \notin used
    /\ page.pc = "enqueue" =>
          page.req.row \in used /\ \A e \in Known : ~IsCreate(e, page.req.row)

\* A pass holds the whole queue, and next to it only what the refusal of a list
\* cancelled: items whose list has no create any more.
PassInv ==
    /\ page.pc = "idle" \/ flush.pc = "idle"
    /\ flush.pc # "idle" => queue \subseteq InPass
    /\ flush.pc = "discard" => flush.cur \notin queue
    /\ \A e \in InPass : e \notin queue /\ (flush.pc = "discard" => e # flush.cur)
                            => e.key \in skipped
    /\ \A e \in InPass : e.key \in skipped =>
          e.kind = "create" /\ e.list \in TempLists /\ \A c \in Known : ~IsCreate(c, e.list)
    /\ Delivered => /\ flush.cur.key \notin skipped
                    /\ flush.cur.kind = "create" => flush.cur.list \notin TempLists
    /\ page.pc = "resolve" =>
          page.read = {q \in queue : IsCreate(q, page.req.row) \/ q.dep = page.req.row}

QueueInv == KeysInv /\ CreatesInv /\ PassInv

\* With no pass running, what is known is what is queued.
LEMMA IdleKnown ==
    ASSUME TypeInv
    PROVE  /\ flush.pc = "idle" => Known = queue /\ InPass = {}
           /\ flush.pc' = "idle" /\ flush.snap' = {} => Known' = queue' /\ InPass' = {}
           /\ Holding => InPass = flush.snap \cup {flush.cur}
           /\ ~Holding => InPass = flush.snap
           /\ Holding' => InPass' = flush.snap' \cup {flush.cur'}
           /\ ~Holding' => InPass' = flush.snap'
BY DEF TypeInv, FlushShape, Known, InPass, Holding

\* Every key is a number, and the entry at hand is none of the snapshot's.
LEMMA KnownKeys ==
    ASSUME TypeInv
    PROVE  \A e \in Known : e.key \in Nat /\ e \in Entry /\ EntryShape(e)
<1>1. Known \subseteq Entry
  BY DEF TypeInv, TypeOK, StoresOK, HandlersOK, FlushShape, Flush, Known, InPass
<1> QED  BY <1>1 DEF TypeInv, Entry

\* The entry a pass holds is none of those it has still to send.
LEMMA AtHand ==
    ASSUME TypeInv, QueueInv, Holding
    PROVE  flush.cur \in Known /\ flush.cur \notin flush.snap /\ flush.snap \subseteq Known
<1>1. flush.cur \in Known /\ flush.snap \subseteq Known
  BY DEF Holding, Known, InPass
<1>2. flush.cur.key \in Nat  BY <1>1, KnownKeys
<1> QED  BY <1>1, <1>2 DEF QueueInv, KeysInv

\* Sending.
LEMMA QueueInvSend ==
    ASSUME TypeInv, QueueInv, NEW f \in flush.snap, SendStep(f)
    PROVE  QueueInv'
<1> USE DEF SendStep
<1>1. Holding' /\ ~Holding /\ Holding' = TRUE  BY DEF Holding
<1>2. InPass' = InPass /\ Known' = Known /\ InPass = flush.snap
  BY <1>1, IdleKnown DEF Known
<1>3. flush.snap \subseteq Known  BY <1>2 DEF Known
<1>4. KeysInv'
  <2>1. \A g \in flush.snap \ {f} : f.key < g.key
    BY <1>3, KnownKeys DEF QueueInv, KeysInv
  <2> QED  BY <1>1, <1>2, <2>1 DEF QueueInv, KeysInv
<1>5. CreatesInv'  BY <1>2 DEF QueueInv, CreatesInv
<1>6. PassInv'
  <2>1. Delivered' => f.key \notin skipped /\ (f.kind = "create" => f.list \notin TempLists)
    <3> SUFFICES ASSUME Delivered' PROVE f.key \notin skipped
                                        /\ (f.kind = "create" => f.list \notin TempLists)
      OBVIOUS
    <3>1. StatusOf(f) = "ok"  BY DEF Delivered
    <3>2. f.kind = "create" => f.list \notin TempLists  BY <3>1 DEF StatusOf
    <3> QED  BY <3>2, <1>2 DEF QueueInv, PassInv
  <2> QED  BY <1>2, <2>1 DEF QueueInv, PassInv, Delivered
<1> QED  BY <1>4, <1>5, <1>6 DEF QueueInv

\* A pass that starts reads the whole queue.
LEMMA QueueInvStart ==
    ASSUME TypeInv, QueueInv, ~Overlap, FlushStart
    PROVE  QueueInv'
<1>1. flush'.pc = "next" /\ flush'.snap = queue /\ flush.pc = "idle" /\ page.pc = "idle"
  BY DEF FlushStart, IdleFlush
<1>2. UNCHANGED <<queue, nextKey, used, page, skipped>>
  BY DEF FlushStart, local, outcome
<1>3. ~Holding'  BY <1>1 DEF Holding
<1>4. InPass' = queue /\ Known' = Known /\ Known = queue
  BY <1>1, <1>2, <1>3, IdleKnown DEF Known
<1>5. KeysInv'  BY <1>2, <1>3, <1>4 DEF QueueInv, KeysInv
<1>6. CreatesInv'  BY <1>2, <1>4 DEF QueueInv, CreatesInv
<1>7. PassInv'  BY <1>1, <1>2, <1>4 DEF QueueInv, KeysInv, PassInv, Delivered
<1> QED  BY <1>5, <1>6, <1>7 DEF QueueInv

\* A pass that stops.
LEMMA QueueInvStop ==
    ASSUME TypeInv, QueueInv, FlushEnd \/ FlushUnauthorized \/ FlushAnswerLost \/ Kill
    PROVE  QueueInv'
<1>1. StopStep /\ page'.pc = "idle"
  BY StopEffect DEF StopStep, QueueInv, PassInv
<1>2. /\ flush'.pc = "idle" /\ flush'.snap = {}
      /\ UNCHANGED <<queue, nextKey, used, skipped>>
  BY <1>1 DEF StopStep
<1>3. Known' = queue /\ InPass' = {} /\ ~Holding' /\ queue \subseteq Known
  BY <1>2, IdleKnown DEF Known, Holding
<1>4. KeysInv'  BY <1>2, <1>3 DEF QueueInv, KeysInv
<1>5. CreatesInv'  BY <1>1, <1>2, <1>3 DEF QueueInv, CreatesInv
<1>6. PassInv'  BY <1>1, <1>2, <1>3 DEF QueueInv, PassInv, Delivered
<1> QED  BY <1>4, <1>5, <1>6 DEF QueueInv

\* A row that takes the server's id.
LEMMA QueueInvRemapRow ==
    ASSUME TypeInv, QueueInv, RemapRow
    PROVE  QueueInv'
<1>1. /\ HoldStep("remap") /\ queue' = queue
      /\ flush.pc = "answer" /\ flush.status = "ok" /\ flush.cur.kind = "create"
  BY RemapRowEffect
<1> USE DEF HoldStep
<1>2. InPass' = InPass /\ Known' = Known /\ Holding'
  BY <1>1, IdleKnown DEF Known, Holding
<1>3. KeysInv'  BY <1>1, <1>2 DEF QueueInv, KeysInv
<1>4. CreatesInv'  BY <1>1, <1>2 DEF QueueInv, CreatesInv
<1>5. PassInv'  BY <1>1, <1>2 DEF QueueInv, PassInv, Delivered
<1> QED  BY <1>3, <1>4, <1>5 DEF QueueInv

\* A dependent that gets its list's real id keeps its place.
LEMMA DependentQueue ==
    ASSUME TypeInv, QueueInv, NEW d, NEW f, DependentStep(d, f)
    PROVE  /\ d \in queue /\ d \in flush.snap /\ d # flush.cur /\ f # flush.cur
           /\ queue' = (queue \ {d}) \cup {f}
           /\ InPass' = (InPass \ {d}) \cup {f} /\ Known' = (Known \ {d}) \cup {f}
<1> USE DEF DependentStep
<1>1. Holding /\ Holding'  BY DEF Holding
<1>2. /\ d \in Known /\ flush.cur \in Known /\ d # flush.cur
      /\ flush.cur.key \in Nat /\ d.key \in Nat /\ flush.cur.key # d.key
  BY <1>1, AtHand, KnownKeys DEF QueueInv, KeysInv
<1>3. d \in InPass /\ InPass = flush.snap \cup {flush.cur}
  BY <1>1, IdleKnown
<1>4. d.key \notin skipped
  BY <1>2, <1>3 DEF QueueInv, PassInv, IsCreate
<1>5. d \in queue
  BY <1>3, <1>4 DEF QueueInv, PassInv
<1>6. queue' = (queue \ {d}) \cup {f}
  BY <1>2 DEF UpdateQueueEntry, QueueInv, KeysInv, Known
<1>7. InPass' = (flush.snap \ {d}) \cup {f} \cup {flush.cur}
  BY <1>1, IdleKnown
<1> QED  BY <1>2, <1>3, <1>5, <1>6, <1>7 DEF Known

\* An entry that takes the server's id.
LEMMA QueueInvDependent ==
    ASSUME TypeInv, QueueInv, NEW d, NEW f, DependentStep(d, f)
    PROVE  QueueInv'
<1>1. /\ d \in queue /\ d \in flush.snap /\ d # flush.cur /\ f # flush.cur
      /\ queue' = (queue \ {d}) \cup {f}
      /\ InPass' = (InPass \ {d}) \cup {f} /\ Known' = (Known \ {d}) \cup {f}
  BY DependentQueue
<1>2. Holding /\ Holding' /\ (Delivered' <=> Delivered) /\ d \in Known
  BY <1>1 DEF DependentStep, Holding, Delivered, Known
<1>3. KeysInv'  BY <1>1, <1>2 DEF DependentStep, QueueInv, KeysInv
<1>4. CreatesInv'  BY <1>1, <1>2 DEF DependentStep, QueueInv, CreatesInv, IsCreate
<1>5. PassInv'
  <2>1. page.pc = "idle"  BY DEF DependentStep, QueueInv, PassInv
  <2>2. d.key \notin skipped  BY <1>1 DEF QueueInv, KeysInv
  <2> QED  BY <1>1, <1>2, <2>1, <2>2 DEF DependentStep, QueueInv, PassInv, IsCreate
<1> QED  BY <1>3, <1>4, <1>5 DEF QueueInv

\* An entry done with.
LEMMA QueueInvDequeue ==
    ASSUME TypeInv, QueueInv, FlushDequeue
    PROVE  QueueInv' /\ queue' = queue \ {flush.cur} /\ flush.cur \in queue
<1>1. NextStep /\ queue' = Dequeue({flush.cur.key}) /\ skipped' = skipped
  BY NextEffect DEF FlushDequeue
<1>2. /\ flush'.pc = "next" /\ flush'.snap = flush.snap /\ Holding /\ ~Holding'
      /\ UNCHANGED <<nextKey, used, page>>
  BY <1>1 DEF NextStep, Holding
<1>3. queue' = queue \ {flush.cur}
  BY <1>1, <1>2, AtHand DEF Dequeue, QueueInv, KeysInv, Known
<1>4. /\ InPass' = flush.snap /\ InPass = flush.snap \cup {flush.cur}
      /\ Known' \subseteq Known /\ flush.cur \notin flush.snap
  BY <1>2, <1>3, IdleKnown, AtHand DEF Known
<1>5. flush.cur \in queue
  BY <1>4 DEF FlushDequeue, FlushShape, TypeInv, QueueInv, PassInv, Delivered
<1>6. KeysInv'  BY <1>1, <1>2, <1>3, <1>4 DEF QueueInv, KeysInv
<1>7. CreatesInv'  BY <1>2, <1>4 DEF QueueInv, CreatesInv
<1>8. PassInv'
  <2>1. page.pc = "idle" /\ flush.pc # "discard"
    BY <1>2 DEF FlushDequeue, Holding, QueueInv, PassInv
  <2>2. queue' \subseteq flush.snap  BY <1>3, <1>2, <1>4 DEF Holding, QueueInv, PassInv
  <2>3. \A e \in flush.snap : e \notin queue' => e.key \in skipped
    BY <1>3, <1>4, <2>1 DEF QueueInv, PassInv
  <2>4. \A e \in flush.snap : e.key \in skipped =>
            e.kind = "create" /\ e.list \in TempLists /\ \A c \in Known' : ~IsCreate(c, e.list)
    BY <1>4 DEF QueueInv, PassInv
  <2> QED  BY <1>1, <1>2, <1>4, <2>1, <2>2, <2>3, <2>4 DEF PassInv, Delivered
<1> QED  BY <1>3, <1>5, <1>6, <1>7, <1>8 DEF QueueInv

\* An entry refused.
LEMMA QueueInvDiscardEntry ==
    ASSUME TypeInv, QueueInv, DiscardEntry
    PROVE  QueueInv' /\ queue' = queue \ {flush.cur}
<1>1. HoldStep("discard") /\ queue' = Dequeue({flush.cur.key}) /\ flush.pc = "answer"
  BY DiscardEntryEffect
<1> USE DEF HoldStep
<1>2. Holding /\ Holding'  BY <1>1 DEF Holding
<1>3. queue' = queue \ {flush.cur}
  BY <1>1, <1>2, AtHand DEF Dequeue, QueueInv, KeysInv, Known
<1>4. InPass' = InPass /\ Known' \subseteq Known
  BY <1>1, <1>2, <1>3, IdleKnown DEF Known
<1>5. KeysInv'  BY <1>1, <1>2, <1>3, <1>4 DEF QueueInv, KeysInv
<1>6. CreatesInv'  BY <1>1, <1>4 DEF QueueInv, CreatesInv
<1>7. PassInv'  BY <1>1, <1>3, <1>4 DEF QueueInv, PassInv, Delivered
<1> QED  BY <1>3, <1>5, <1>6, <1>7 DEF QueueInv

\* What goes with an entry refused.
LEMMA QueueInvDiscardLocal ==
    ASSUME TypeInv, QueueInv, DiscardLocal
    PROVE  QueueInv' /\ (flush.cur.kind = "create" => queue' = queue \ Dependents)
<1>1. NextStep /\ flush.pc = "discard"  BY DiscardLocalEffect
<1>2. /\ flush'.pc = "next" /\ flush'.snap = flush.snap /\ Holding /\ ~Holding'
      /\ UNCHANGED <<nextKey, used, page>>
  BY <1>1 DEF NextStep, Holding
<1>3. /\ InPass' = flush.snap /\ InPass = flush.snap \cup {flush.cur}
      /\ flush.cur \notin flush.snap /\ flush.cur \notin queue /\ flush.cur \in Known
      /\ flush.snap \subseteq Known /\ queue \subseteq Known
  BY <1>1, <1>2, IdleKnown, AtHand DEF Known, QueueInv, PassInv
<1>4. CASE flush.cur.kind = "create"
  <2>1. queue' = Dequeue(Keys(Dependents)) /\ skipped' = skipped \cup Keys(Dependents)
    BY <1>4, DiscardLocalEffect
  <2>2. Dependents \subseteq flush.snap  BY DEF Dependents
  <2>3. \A e \in Known : e.key \in Keys(Dependents) <=> e \in Dependents
    BY <1>3, <2>2 DEF Keys, QueueInv, KeysInv
  <2>4. queue' = queue \ Dependents  BY <1>3, <2>1, <2>3 DEF Dequeue
  <2>5. Known' \subseteq Known /\ flush.cur \notin Known'
    BY <1>3, <2>4 DEF Known
  <2>6. KeysInv'
    <3>1. \A k \in Keys(Dependents) : k \in Nat /\ k < nextKey
      BY <1>3, <2>2, KnownKeys DEF Keys, QueueInv, KeysInv
    <3> QED  BY <1>2, <1>3, <2>1, <2>3, <2>4, <2>5, <3>1 DEF QueueInv, KeysInv
  <2>7. CreatesInv'  BY <1>2, <2>5 DEF QueueInv, CreatesInv
  <2>8. PassInv'
    <3>1. \A e \in flush.snap : e \notin queue' => e.key \in skipped'
      BY <1>3, <2>1, <2>2, <2>3, <2>4 DEF QueueInv, PassInv
    <3>2. ASSUME NEW e \in flush.snap, e.key \in skipped'
          PROVE  e.kind = "create" /\ e.list \in TempLists /\ \A c \in Known' : ~IsCreate(c, e.list)
      <4>1. CASE e.key \in skipped  BY <1>3, <2>5, <4>1 DEF QueueInv, PassInv
      <4>2. CASE e \in Dependents
        <5>1. e.dep = flush.cur.row /\ EntryShape(e) /\ EntryShape(flush.cur)
          BY <1>3, <4>2, KnownKeys DEF Dependents
        <5>2. e.kind = "create" /\ e.list = flush.cur.row /\ e.list \in TempLists
          BY <1>4, <5>1, SyncQueueAssumption DEF EntryShape, Shape, TempIds
        <5>3. \A c \in Known' : ~IsCreate(c, flush.cur.row)
          BY <1>3, <1>4, <2>5 DEF QueueInv, CreatesInv, IsCreate
        <5> QED  BY <5>2, <5>3
      <4> QED  BY <1>3, <2>1, <2>3, <3>2, <4>1, <4>2
    <3>3. page.pc = "idle" /\ queue' \subseteq flush.snap
      BY <1>1, <1>3, <2>4 DEF QueueInv, PassInv
    <3> QED  BY <1>2, <1>3, <3>1, <3>2, <3>3 DEF PassInv, Delivered
  <2> QED  BY <2>4, <2>6, <2>7, <2>8 DEF QueueInv
<1>5. CASE flush.cur.kind # "create"
  <2>1. UNCHANGED <<queue, skipped>>  BY <1>5, DiscardLocalEffect
  <2>2. Known' \subseteq Known  BY <1>3, <2>1 DEF Known
  <2>3. KeysInv'  BY <1>2, <1>3, <2>1, <2>2 DEF QueueInv, KeysInv
  <2>4. CreatesInv'  BY <1>2, <2>2 DEF QueueInv, CreatesInv
  <2>5. PassInv'  BY <1>1, <1>2, <1>3, <2>1, <2>2 DEF QueueInv, PassInv, Delivered
  <2> QED  BY <1>5, <2>3, <2>4, <2>5 DEF QueueInv
<1> QED  BY <1>4, <1>5

\* What the page does leaves no pass and no cancelled entry behind.
LEMMA QueueInvPage ==
    ASSUME TypeInv, QueueInv, ~Overlap, QueueOfflineWrite \/ HandleApiWrite
    PROVE  QueueInv'
<1> DEFINE r == page.req
<1>a. flush.pc = "idle" /\ Known = queue /\ InPass = {} /\ ~Holding
  <2>1. flush.pc = "idle"
    BY DEF QueueOfflineWrite, HandleApiWrite, WriteOnline, WriteFails, WriteAnswerLost,
           CanWrite, QueueCreate, EnqueueCreate, QueueEdit, ResolveRead, ResolveDelete,
           ResolveEdit, QueueInv, PassInv
  <2> QED  BY <2>1, IdleKnown DEF Holding
<1>b. flush' = flush /\ skipped' = skipped
  BY DEF QueueOfflineWrite, HandleApiWrite, WriteOnline, WriteFails, WriteAnswerLost,
         QueueCreate, EnqueueCreate, QueueEdit, ResolveRead, ResolveDelete, ResolveEdit, outcome
<1>c. Known' = queue' /\ InPass' = {} /\ ~Holding' /\ ~Delivered'
  BY <1>a, <1>b, IdleKnown DEF Holding, Delivered, TypeInv, FlushShape
<1>d. nextKey \in Nat  BY DEF TypeInv, TypeOK, StoresOK
<1>1. ASSUME HandleApiWrite PROVE QueueInv'
  <2>1. UNCHANGED <<queue, nextKey, used>>
    BY <1>1 DEF HandleApiWrite, WriteOnline, WriteFails, WriteAnswerLost, local
  <2>2. CASE page' = page
    BY <1>a, <1>b, <1>c, <2>1, <2>2 DEF QueueInv, KeysInv, CreatesInv, PassInv
  <2>3. ASSUME NEW q \in Requests, page' = [pc |-> "queue", req |-> q, read |-> {}]
        PROVE  QueueInv'
    <3>1. KeysInv'  BY <1>a, <1>b, <1>c, <2>1 DEF QueueInv, KeysInv
    <3>2. CreatesInv'
      BY <1>a, <1>b, <1>c, <2>1, <2>3, RequestType DEF QueueInv, CreatesInv
    <3>3. PassInv'  BY <1>a, <1>b, <1>c, <2>1, <2>3 DEF QueueInv, PassInv
    <3> QED  BY <3>1, <3>2, <3>3 DEF QueueInv
  <2> QED
    BY <1>1, <2>2, <2>3
    DEF HandleApiWrite, WriteOnline, WriteFails, WriteAnswerLost, IdlePage
<1>2. ASSUME QueueCreate PROVE QueueInv'
  <2>1. /\ UNCHANGED <<queue, nextKey>> /\ used' = used \cup {r.row}
        /\ page.pc = "queue" /\ r.kind = "create" /\ r.row \notin used
    BY <1>2 DEF QueueCreate, QueueInv, CreatesInv
  <2>2. page'.pc = "enqueue" /\ page'.req = r
    BY <1>2 DEF QueueCreate, TypeInv, TypeOK, HandlersOK, Page
  <2>3. KeysInv'  BY <1>a, <1>b, <1>c, <2>1 DEF QueueInv, KeysInv
  <2>4. CreatesInv'  BY <1>a, <1>c, <2>1, <2>2 DEF QueueInv, CreatesInv, IsCreate
  <2>5. PassInv'  BY <1>a, <1>b, <1>c, <2>2 DEF QueueInv, PassInv
  <2> QED  BY <2>3, <2>4, <2>5 DEF QueueInv
<1>3. ASSUME EnqueueCreate \/ QueueEdit PROVE QueueInv'
  <2>1. PICK e : /\ queue' = queue \cup {e} /\ e.key = nextKey /\ e.row = r.row
                 /\ e.kind = r.kind
    <3>1. \A l : /\ NewEntry(r, l).key = nextKey /\ NewEntry(r, l).row = r.row
                 /\ NewEntry(r, l).kind = r.kind
      BY DEF NewEntry
    <3>2. \E l : queue' = queue \cup {NewEntry(r, l)}  BY <1>3 DEF EnqueueCreate, QueueEdit
    <3> QED  BY <3>1, <3>2
  <2>2. /\ page'.pc = "idle" /\ nextKey' = nextKey + 1 /\ used' = used
        /\ r.kind = "create" =>
             r.row \in used /\ \A c \in queue : ~IsCreate(c, r.row)
    BY <1>3, <1>a DEF EnqueueCreate, QueueEdit, IdlePage, QueueInv, CreatesInv
  <2>3. \A c \in queue : c.key \in Nat  BY <1>a, KnownKeys
  <2>4. KeysInv'  BY <1>a, <1>b, <1>c, <1>d, <2>1, <2>2, <2>3 DEF QueueInv, KeysInv
  <2>5. CreatesInv'  BY <1>a, <1>c, <2>1, <2>2 DEF QueueInv, CreatesInv, IsCreate
  <2>6. PassInv'  BY <1>a, <1>b, <1>c, <2>2 DEF QueueInv, PassInv
  <2> QED  BY <2>4, <2>5, <2>6 DEF QueueInv
<1>4. ASSUME ResolveRead PROVE QueueInv'
  <2> DEFINE read == {q \in queue : \/ q.kind = "create" /\ q.row = r.row
                                    \/ q.dep = r.row}
  <2>1. UNCHANGED <<queue, nextKey, used>> /\ page' = [page EXCEPT !.pc = "resolve", !.read = read]
    BY <1>4 DEF ResolveRead, local
  <2> HIDE DEF read
  <2>2. page'.pc = "resolve" /\ page'.req = r /\ page'.read = read
    BY <2>1 DEF TypeInv, TypeOK, HandlersOK, Page
  <2>3. KeysInv'  BY <1>a, <1>b, <1>c, <2>1 DEF QueueInv, KeysInv
  <2>4. CreatesInv'  BY <1>a, <1>c, <2>1, <2>2 DEF QueueInv, CreatesInv
  <2>5. PassInv'  BY <1>a, <1>b, <1>c, <2>1, <2>2 DEF QueueInv, PassInv, read, IsCreate
  <2> QED  BY <2>3, <2>4, <2>5 DEF QueueInv
<1>5. ASSUME ResolveDelete PROVE QueueInv'
  <2>1. UNCHANGED <<nextKey, used>> /\ queue' \subseteq queue /\ page'.pc = "idle"
    BY <1>5 DEF ResolveDelete, Dequeue, IdlePage
  <2>2. KeysInv'  BY <1>a, <1>b, <1>c, <2>1 DEF QueueInv, KeysInv
  <2>3. CreatesInv'  BY <1>a, <1>c, <2>1 DEF QueueInv, CreatesInv
  <2>4. PassInv'  BY <1>a, <1>b, <1>c, <2>1 DEF QueueInv, PassInv
  <2> QED  BY <2>2, <2>3, <2>4 DEF QueueInv
<1>6. ASSUME ResolveEdit PROVE QueueInv'
  <2>1. UNCHANGED <<nextKey, used>> /\ page'.pc = "idle" /\ page.pc = "resolve"
    BY <1>6 DEF ResolveEdit, IdlePage
  <2>2. PassInv'  BY <1>a, <1>b, <1>c, <2>1 DEF QueueInv, PassInv
  <2>3. CASE queue' = queue
    <3>1. KeysInv'  BY <1>a, <1>b, <1>c, <2>1, <2>3 DEF QueueInv, KeysInv
    <3>2. CreatesInv'  BY <1>a, <1>c, <2>1, <2>3 DEF QueueInv, CreatesInv
    <3> QED  BY <2>2, <3>1, <3>2 DEF QueueInv
  <2>4. ASSUME NEW e \in Pending, NEW f, FoldStep(e, f) PROVE QueueInv'
    <3>1. e \in queue  BY <2>1, <2>4 DEF Pending, QueueInv, PassInv
    <3>2. \A c \in queue' : c = f \/ (c \in queue /\ c # e)
      BY <2>4, <3>1 DEF FoldStep, UpdateQueueEntry
    <3>3. KeysInv'
      <4>1. \A c \in queue' : c = f \/ c.key # f.key
        BY <2>4 DEF FoldStep, UpdateQueueEntry
      <4> QED
        BY <1>a, <1>b, <1>c, <2>1, <2>4, <3>1, <3>2, <4>1 DEF QueueInv, KeysInv, FoldStep
    <3>4. CreatesInv'
      BY <1>a, <1>c, <2>1, <2>4, <3>1, <3>2 DEF QueueInv, CreatesInv, FoldStep
    <3> QED  BY <2>2, <3>3, <3>4 DEF QueueInv
  <2> QED  BY <1>6, <2>3, <2>4, FoldEffect
<1> QED  BY <1>1, <1>2, <1>3, <1>4, <1>5, <1>6 DEF QueueOfflineWrite

\* What touches neither the queue nor a handler's memory of it.
LEMMA QueueInvOther ==
    ASSUME QueueInv, UNCHANGED <<queue, nextKey, used, page, flush, skipped>>
    PROVE  QueueInv'
BY DEF QueueInv, KeysInv, CreatesInv, PassInv, Known, InPass, Holding, Delivered

\* The steps that touch neither, and those of the rest of the world.
LEMMA OtherSteps ==
    ASSUME Connect \/ Disconnect \/ Expire \/ Login \/ OtherDevice \/ MirrorReadResponse
           \/ (\E l \in RealIds : ReadList(l)) \/ UNCHANGED vars
    PROVE  /\ UNCHANGED <<queue, nextKey, used, page, flush, skipped, cut, accepted, landed,
                          dropped, posts, lost>>
           /\ mirror' = mirror \/ MirrorReadResponse
BY DEF Connect, Disconnect, Expire, Login, OtherDevice, MirrorReadResponse, ReadList, vars,
       local, outcome

\* Every step keeps the first part.
LEMMA QueueInvStep ==
    ASSUME TypeInv, QueueInv, ~Overlap, [Next]_vars
    PROVE  QueueInv'
<1>1. CASE FlushSend \/ FlushRefused  BY <1>1, SendEffect, QueueInvSend
<1>2. CASE RemapDependent  BY <1>2, DependentEffect, QueueInvDependent
<1>3. CASE FlushStart \/ RemapRow \/ FlushDequeue \/ DiscardEntry \/ DiscardLocal
  BY <1>3, QueueInvStart, QueueInvRemapRow, QueueInvDequeue, QueueInvDiscardEntry,
     QueueInvDiscardLocal
<1>4. CASE FlushEnd \/ FlushUnauthorized \/ FlushAnswerLost \/ Kill  BY <1>4, QueueInvStop
<1>5. CASE QueueOfflineWrite \/ HandleApiWrite  BY <1>5, QueueInvPage
<1>6. CASE Connect \/ Disconnect \/ Expire \/ Login \/ OtherDevice \/ MirrorReadResponse
           \/ (\E l \in RealIds : ReadList(l)) \/ UNCHANGED vars
  BY <1>6, OtherSteps, QueueInvOther
<1> QED  BY <1>1, <1>2, <1>3, <1>4, <1>5, <1>6 DEF Next, FlushQueue, World

\* At first the queue is empty, and no pass runs.
LEMMA QueueInvInit == Init => QueueInv
BY DEF Init, IdlePage, IdleFlush, QueueInv, KeysInv, CreatesInv, PassInv, Known, InPass,
       Holding, Delivered

-----------------------------------------------------------------------------
(* Deliveries: part two of the invariant *)

\* Will the worker, as far as it knows, still send the create of t?
Owed(t) == \/ t \notin used
           \/ page.pc = "enqueue" /\ page.req.row = t
           \/ \E c \in queue : IsCreate(c, t) /\ ~(Delivered /\ flush.cur = c)

\* A create got to the server at most once more than an outcome of it was lost, and
\* no more often as long as it is still to be sent.
CreditInv ==
    \A t \in TempIds :
        /\ posts[t] <= lost[t] + 1
        /\ Owed(t) => posts[t] <= lost[t]

\* A step that owes no row more than before, and sends nothing.
LEMMA CreditKept ==
    ASSUME CreditInv, UNCHANGED <<posts, lost>>, \A t \in TempIds : Owed(t)' => Owed(t)
    PROVE  CreditInv'
BY DEF CreditInv

\* Sending a create spends the one delivery it is owed.
LEMMA CreditSend ==
    ASSUME TypeInv, QueueInv, CreditInv, NEW f \in flush.snap, SendStep(f)
    PROVE  CreditInv'
<1> USE DEF SendStep
<1>1. ~Delivered /\ page.pc = "idle" /\ page'.pc = "idle" /\ f \in Known
  BY DEF Delivered, QueueInv, PassInv, Known, InPass
<1>2. CASE flush'.status # "ok"
  BY <1>1, <1>2, CreditKept DEF Owed, Delivered
<1>3. CASE flush'.status = "ok"
  <2>1. Delivered' /\ StatusOf(f) = "ok" /\ posts' = Count(posts, f, 1)
    BY <1>3 DEF Delivered
  <2>2. CASE f.kind # "create"
    <3>1. posts' = posts  BY <2>1, <2>2 DEF Count
    <3> QED  BY <1>1, <3>1, CreditKept DEF Owed
  <2>3. CASE f.kind = "create"
    <3>1. f.row \in TempIds /\ f.row \in used
      BY <1>1, <2>3, KnownKeys DEF EntryShape, Shape, TempIds, QueueInv, CreatesInv
    <3>2. f \in queue
      <4>1. f.list \notin TempLists  BY <2>1, <2>3 DEF StatusOf
      <4> QED  BY <4>1, IdleKnown DEF Holding, QueueInv, PassInv
    <3>3. posts[f.row] <= lost[f.row]
      BY <1>1, <2>3, <3>1, <3>2 DEF CreditInv, Owed, IsCreate
    <3>4. posts' = [posts EXCEPT ![f.row] = @ + 1]  BY <2>1, <2>3 DEF Count
    <3>5. ASSUME NEW t \in TempIds
          PROVE  posts'[t] <= lost'[t] + 1 /\ (Owed(t)' => posts'[t] <= lost'[t])
      <4>1. posts[t] \in Nat /\ lost[t] \in Nat  BY DEF TypeInv, TypeOK, OutcomeOK
      <4>2. CASE t = f.row
        <5>1. posts'[t] = posts[t] + 1
          BY <3>4, <4>2 DEF TypeInv, TypeOK, OutcomeOK
        <5>2. ~Owed(t)'
          BY <1>1, <2>1, <2>3, <3>1, <3>2, <4>2
          DEF Owed, IsCreate, QueueInv, CreatesInv, Known
        <5> QED  BY <3>3, <4>1, <4>2, <5>1, <5>2
      <4>3. CASE t # f.row
        <5>1. posts'[t] = posts[t]  BY <3>4, <4>3 DEF TypeInv, TypeOK, OutcomeOK
        <5>2. Owed(t)' => Owed(t)  BY <1>1 DEF Owed
        <5> QED  BY <4>1, <5>1, <5>2 DEF CreditInv
      <4> QED  BY <4>2, <4>3
    <3> QED  BY <3>5 DEF CreditInv
  <2> QED  BY <2>2, <2>3
<1> QED  BY <1>2, <1>3

\* A pass cut short after a create was sent counts its answer as lost.
LEMMA CreditStop ==
    ASSUME TypeInv, QueueInv, CreditInv, StopStep
    PROVE  CreditInv'
<1> SUFFICES ASSUME NEW t \in TempIds
             PROVE  posts'[t] <= lost'[t] + 1 /\ (Owed(t)' => posts'[t] <= lost'[t])
  BY DEF CreditInv
<1>1. posts' = posts /\ queue' = queue /\ used' = used /\ ~Delivered'
  BY DEF StopStep, Delivered
<1>2. posts[t] \in Nat /\ lost[t] \in Nat  BY DEF TypeInv, TypeOK, OutcomeOK
<1>3. CASE Delivered /\ flush.cur.kind = "create"
  <2>1. lost' = [lost EXCEPT ![flush.cur.row] = @ + 1]
    BY <1>3 DEF StopStep, Count
  <2>2. CASE t = flush.cur.row
    <3>1. lost'[t] = lost[t] + 1  BY <2>1, <2>2 DEF TypeInv, TypeOK, OutcomeOK
    <3> QED  BY <1>1, <1>2, <3>1 DEF CreditInv
  <2>3. CASE t # flush.cur.row
    <3>1. lost'[t] = lost[t]  BY <2>1, <2>3 DEF TypeInv, TypeOK, OutcomeOK
    <3>2. Owed(t)' => Owed(t)  BY <1>1, <2>3 DEF Owed, StopStep, IsCreate
    <3> QED  BY <1>1, <1>2, <3>1, <3>2 DEF CreditInv
  <2> QED  BY <2>2, <2>3
<1>4. CASE ~(Delivered /\ flush.cur.kind = "create")
  <2>1. lost' = lost  BY <1>4 DEF StopStep, Count
  <2>2. Owed(t)' => Owed(t)  BY <1>1, <1>4 DEF Owed, StopStep, IsCreate
  <2> QED  BY <1>1, <2>1, <2>2 DEF CreditInv
<1> QED  BY <1>3, <1>4

\* The rest of a pass.
LEMMA CreditPass ==
    ASSUME TypeInv, QueueInv, CreditInv,
           FlushStart \/ RemapRow \/ RemapDependent \/ FlushDequeue \/ DiscardEntry
           \/ DiscardLocal
    PROVE  CreditInv'
<1>0. UNCHANGED <<posts, lost, used, page>>
  BY DEF FlushStart, RemapRow, RemapDependent, FlushDequeue, DiscardEntry, DiscardLocal,
         local, outcome
<1>1. CASE FlushStart
  <2>1. ~Delivered /\ queue' = queue  BY <1>1 DEF FlushStart, Delivered, local
  <2> QED  BY <1>0, <2>1, CreditKept DEF Owed
<1>2. CASE RemapRow
  <2>1. queue' = queue /\ flush'.cur = flush.cur /\ (Delivered' <=> Delivered)
    BY <1>2, RemapRowEffect DEF HoldStep, Delivered
  <2> QED  BY <1>0, <2>1, CreditKept DEF Owed
<1>3. CASE RemapDependent
  <2>1. PICK d, f : DependentStep(d, f)  BY <1>3, DependentEffect
  <2>2. /\ d \in queue /\ d # flush.cur /\ queue' = (queue \ {d}) \cup {f}
        /\ f.kind = d.kind /\ f.row = d.row
        /\ flush'.cur = flush.cur /\ (Delivered' <=> Delivered)
    BY <2>1, DependentQueue DEF DependentStep, Delivered
  <2> QED  BY <1>0, <2>2, CreditKept DEF Owed, IsCreate
<1>4. CASE FlushDequeue
  <2>1. queue' = queue \ {flush.cur}  BY <1>4, QueueInvDequeue
  <2> QED  BY <1>0, <2>1, CreditKept DEF Owed
<1>5. CASE DiscardEntry
  <2>1. queue' = queue \ {flush.cur}  BY <1>5, QueueInvDiscardEntry
  <2> QED  BY <1>0, <2>1, CreditKept DEF Owed
<1>6. CASE DiscardLocal
  <2>1. queue' \subseteq queue  BY <1>6 DEF DiscardLocal, Dequeue
  <2>2. ~Delivered  BY <1>6 DEF DiscardLocal, Delivered
  <2> QED  BY <1>0, <2>1, <2>2, CreditKept DEF Owed
<1> QED  BY <1>1, <1>2, <1>3, <1>4, <1>5, <1>6

\* A create queued by the page is owed its first delivery.
LEMMA CreditPage ==
    ASSUME TypeInv, QueueInv, CreditInv, ~Overlap, QueueOfflineWrite \/ HandleApiWrite
    PROVE  CreditInv'
<1> DEFINE r == page.req
<1>1. CASE HandleApiWrite
  <2>1. PICK q \in Requests : WriteOnline(q) \/ WriteFails(q) \/ WriteAnswerLost(q)
    BY <1>1 DEF HandleApiWrite
  <2>2. UNCHANGED <<queue, used, flush>> /\ (page' = page \/ page'.pc = "queue")
    BY <2>1 DEF WriteOnline, WriteFails, WriteAnswerLost, IdlePage, local
  <2>3. \A t \in TempIds : Owed(t)' => Owed(t)  BY <2>2 DEF Owed, Delivered
  <2>4. CASE UNCHANGED <<posts, lost>>  BY <2>3, <2>4, CreditKept
  <2>5. CASE posts' = Count(posts, q, 1) /\ lost' = Count(lost, q, 1)
    <3>1. CASE q.kind # "create"  BY <2>3, <2>5, <3>1, CreditKept DEF Count
    <3>2. CASE q.kind = "create"
      <4>1. q.row \in TempIds /\ q.row \notin used  BY <3>2, RequestType
      <4>2. /\ posts' = [posts EXCEPT ![q.row] = @ + 1]
            /\ lost' = [lost EXCEPT ![q.row] = @ + 1]
        BY <2>5, <3>2 DEF Count
      <4>3. ASSUME NEW t \in TempIds
            PROVE  posts'[t] <= lost'[t] + 1 /\ (Owed(t)' => posts'[t] <= lost'[t])
        <5>1. posts[t] \in Nat /\ lost[t] \in Nat  BY DEF TypeInv, TypeOK, OutcomeOK
        <5>2. \/ posts'[t] = posts[t] /\ lost'[t] = lost[t]
              \/ posts'[t] = posts[t] + 1 /\ lost'[t] = lost[t] + 1
          BY <4>2 DEF TypeInv, TypeOK, OutcomeOK
        <5> QED  BY <2>3, <5>1, <5>2 DEF CreditInv
      <4> QED  BY <4>3 DEF CreditInv
    <3> QED  BY <3>1, <3>2
  <2> QED  BY <2>1, <2>4, <2>5 DEF WriteOnline, WriteFails, WriteAnswerLost, outcome
<1>2. CASE QueueOfflineWrite
  <2>0. UNCHANGED <<posts, lost, flush>> /\ ~Delivered
    BY <1>2
    DEF QueueOfflineWrite, QueueCreate, EnqueueCreate, QueueEdit, ResolveRead, ResolveDelete,
        ResolveEdit, outcome, QueueInv, PassInv, Delivered
  <2>1. CASE QueueCreate
    <3>1. /\ queue' = queue /\ used' = used \cup {r.row} /\ page'.req = r
          /\ page.pc = "queue" /\ r.row \notin used
      BY <2>1 DEF QueueCreate, QueueInv, CreatesInv, TypeInv, TypeOK, HandlersOK, Page
    <3> QED  BY <2>0, <3>1, CreditKept DEF Owed
  <2>2. CASE EnqueueCreate
    <3>1. /\ queue' = queue \cup {NewEntry(r, r.list)} /\ used' = used
          /\ page.pc = "enqueue" /\ page'.pc = "idle" /\ NewEntry(r, r.list).row = r.row
      BY <2>2 DEF EnqueueCreate, IdlePage, NewEntry
    <3> QED  BY <2>0, <3>1, CreditKept DEF Owed, IsCreate
  <2>3. CASE QueueEdit
    <3> DEFINE e == NewEntry(r, TargetList(r.row))
    <3>1. /\ queue' = queue \cup {e} /\ used' = used
          /\ page'.pc = "idle" /\ e.kind # "create"
      BY <2>3 DEF QueueEdit, IdlePage, NewEntry
    <3> HIDE DEF e
    <3> QED  BY <2>0, <3>1, CreditKept DEF Owed, IsCreate
  <2>4. CASE ResolveRead
    <3>1. queue' = queue /\ used' = used /\ page'.pc = "resolve"
      BY <2>4 DEF ResolveRead, local, TypeInv, TypeOK, HandlersOK, Page
    <3> QED  BY <2>0, <3>1, CreditKept DEF Owed
  <2>5. CASE ResolveDelete
    <3>1. queue' \subseteq queue /\ used' = used /\ page'.pc = "idle"
      BY <2>5 DEF ResolveDelete, Dequeue, IdlePage
    <3> QED  BY <2>0, <3>1, CreditKept DEF Owed
  <2>6. CASE ResolveEdit
    <3>1. used' = used /\ page'.pc = "idle" /\ page.pc = "resolve"
      BY <2>6 DEF ResolveEdit, IdlePage
    <3>2. CASE queue' = queue  BY <2>0, <3>1, <3>2, CreditKept DEF Owed
    <3>3. ASSUME NEW e \in Pending, NEW f, FoldStep(e, f) PROVE CreditInv'
      <4>1. e \in queue /\ f.kind = e.kind /\ f.row = e.row /\ queue' \subseteq queue \cup {f}
        BY <3>1, <3>3 DEF Pending, FoldStep, UpdateQueueEntry, QueueInv, PassInv
      <4> QED  BY <2>0, <3>1, <4>1, CreditKept DEF Owed, IsCreate
    <3> QED  BY <2>6, <3>2, <3>3, FoldEffect
  <2> QED
    BY <1>2, <2>1, <2>2, <2>3, <2>4, <2>5, <2>6 DEF QueueOfflineWrite
<1> QED  BY <1>1, <1>2

\* Every step keeps the second part.
LEMMA CreditStep ==
    ASSUME TypeInv, QueueInv, CreditInv, ~Overlap, [Next]_vars
    PROVE  CreditInv'
<1>1. CASE FlushSend \/ FlushRefused  BY <1>1, SendEffect, CreditSend
<1>2. CASE FlushStart \/ RemapRow \/ RemapDependent \/ FlushDequeue \/ DiscardEntry
           \/ DiscardLocal
  BY <1>2, CreditPass
<1>3. CASE FlushEnd \/ FlushUnauthorized \/ FlushAnswerLost \/ Kill
  BY <1>3, StopEffect, CreditStop
<1>4. CASE QueueOfflineWrite \/ HandleApiWrite  BY <1>4, CreditPage
<1>5. CASE Connect \/ Disconnect \/ Expire \/ Login \/ OtherDevice \/ MirrorReadResponse
           \/ (\E l \in RealIds : ReadList(l)) \/ UNCHANGED vars
  BY <1>5, OtherSteps, CreditKept DEF Owed, Delivered
<1> QED  BY <1>1, <1>2, <1>3, <1>4, <1>5 DEF Next, FlushQueue, World

\* At first nothing is owed, and nothing was sent.
LEMMA CreditInit == Init => CreditInv
BY DEF Init, CreditInv

-----------------------------------------------------------------------------
(* The mirror: part three *)

\* While an item waits for its list, it is in that list.
Placed(c) ==
    c.dep # None =>
        /\ c.dep \in used
        /\ HasRow(mirror, c.dep) => \A m \in mirror : m.id = c.row => m.list = c.dep

\* A temporary row of the mirror is on its way, or nothing will ever clean it up,
\* and a row the page has in hand is mirrored.
MirrorInv ==
    /\ NoPhantom
    /\ \A m \in mirror : m.id \in TempIds => m.id \in used
    /\ \A c \in queue : Placed(c)
    /\ flush.pc = "remap" => ~HasRow(mirror, flush.cur.row)
    /\ page.pc \in {"queue", "resolve"} /\ page.req.kind # "create" /\ page.req.row \in TempIds
          => HasRow(mirror, page.req.row)
    /\ page.pc = "enqueue" => \A m \in mirror : m.id = page.req.row => m.list = page.req.list
    /\ page.pc \in {"queue", "enqueue"} /\ page.req.kind = "create" /\ page.req.list \in TempIds
          => page.req.list \in used

\* The temporary rows are rows that were there, in the list they were in.
FewerRows == \A m \in mirror' : m.id \in TempIds =>
                \E r \in mirror : r.id = m.id /\ r.list = m.list

\* What waits for a list is an item of a temporary id.
LEMMA Waiting ==
    ASSUME TypeInv, NEW c \in Known, c.dep # None
    PROVE  c.kind = "create" /\ c.list = c.dep /\ c.dep \in TempLists /\ c.dep \in TempIds
           /\ c.row \in TempItems /\ c.row \in TempIds
BY KnownKeys, SyncQueueAssumption DEF EntryShape, Shape, TempIds

\* With no new temporary row, what waits for a list stays in it.
LEMMA FewerRowsPlaced ==
    ASSUME TypeInv, MirrorInv, FewerRows, used' = used
    PROVE  /\ \A m \in mirror' : m.id \in TempIds => m.id \in used'
           /\ \A c \in queue : Placed(c)'
<1>1. \A m \in mirror' : m.id \in TempIds => m.id \in used'
  BY DEF FewerRows, MirrorInv
<1>2. ASSUME NEW c \in queue, c.dep # None, HasRow(mirror, c.dep)',
             NEW m \in mirror', m.id = c.row
      PROVE  m.list = c.dep
  <2>1. c.row \in TempIds /\ c.dep \in TempIds  BY <1>2, Waiting DEF Known
  <2>2. HasRow(mirror, c.dep)  BY <1>2, <2>1 DEF FewerRows, HasRow
  <2> QED  BY <1>2, <2>1, <2>2 DEF FewerRows, MirrorInv, Placed
<1> QED  BY <1>1, <1>2 DEF MirrorInv, Placed

\* Deleting rows leaves fewer, mirroring the server's and writing one of them as many.
LEMMA FewerAfterDelete ==
    ASSUME NEW id, mirror' = Delete(mirror, id)
    PROVE  FewerRows
BY DeleteRows DEF FewerRows

\* A row written back under its own id adds no temporary one.
LEMMA FewerAfterPut ==
    ASSUME TypeInv, NEW r \in Row, mirror' = Put(mirror, {r}),
           r.id \in Nat \/ \E m \in mirror : m.id = r.id /\ m.list = r.list
    PROVE  FewerRows
<1>1. Nat \cap TempIds = {}  BY SyncQueueAssumption
<1> QED  BY <1>1, PutRows DEF FewerRows, TypeInv, TypeOK, StoresOK

\* A step that adds no temporary row, no entry and no work of the page.
LEMMA MirrorKept ==
    ASSUME TypeInv, MirrorInv, NoPhantom', FewerRows, used' = used, queue' \subseteq queue,
           flush'.pc = "remap" => flush.pc = "remap" /\ flush'.cur = flush.cur,
           page'.pc = "idle" \/ (page' = page /\ mirror' = mirror)
    PROVE  MirrorInv'
<1>1. \A m \in mirror' : m.id \in TempIds => m.id \in used'  BY FewerRowsPlaced
<1>2. \A c \in queue' : Placed(c)'  BY FewerRowsPlaced
<1>3. (flush.pc = "remap" => ~HasRow(mirror, flush.cur.row))'
  <2>1. flush.pc = "remap" => flush.cur.row \in TempIds
    BY KnownKeys DEF TypeInv, FlushShape, Known, InPass, EntryShape, Shape, TempIds
  <2> QED  BY <2>1 DEF MirrorInv, FewerRows, HasRow
<1>4. CASE page'.pc = "idle"  BY <1>1, <1>2, <1>3, <1>4 DEF MirrorInv
<1>5. CASE page' = page /\ mirror' = mirror  BY <1>1, <1>2, <1>3, <1>5 DEF MirrorInv
<1> QED  BY <1>4, <1>5

\* A step that leaves the mirror.
LEMMA FewerUnchanged == mirror' = mirror => FewerRows
BY DEF FewerRows

\* A pass that takes an entry, or lets one go that it still holds.
LEMMA MirrorSameKnown ==
    ASSUME TypeInv, MirrorInv, Known' = Known, queue' \subseteq queue,
           UNCHANGED <<mirror, used, page, cut>>, flush'.pc # "remap"
    PROVE  MirrorInv'
<1>1. NoPhantom'  BY DEF MirrorInv, NoPhantom, Known
<1> QED  BY <1>1, FewerUnchanged, MirrorKept

\* A pass that stops.
LEMMA MirrorStop ==
    ASSUME TypeInv, QueueInv, MirrorInv, StopStep
    PROVE  MirrorInv'
<1>1. Known' = queue /\ queue' = queue  BY IdleKnown DEF StopStep
<1>2. ASSUME NEW e \in InPass, e \notin queue PROVE e.row \in cut'
  BY <1>2, KnownKeys DEF QueueInv, PassInv, StopStep, Abandoned
<1>3. NoPhantom'
  <2> SUFFICES ASSUME NEW m \in mirror, m.id \in TempIds
               PROVE  \/ \E e \in Known' : e.kind = "create" /\ e.row = m.id
                      \/ page'.pc = "enqueue" /\ page'.req.row = m.id
                      \/ m.id \in cut'
    BY DEF NoPhantom, StopStep, Known
  <2> QED  BY <1>1, <1>2 DEF MirrorInv, NoPhantom, StopStep
<1> QED  BY <1>1, <1>3, FewerUnchanged, MirrorKept DEF StopStep

\* A row that takes the server's id.
LEMMA MirrorRemapRow ==
    ASSUME TypeInv, QueueInv, MirrorInv, RemapRow
    PROVE  MirrorInv'
<1>1. /\ HoldStep("remap") /\ queue' = queue
      /\ flush.pc = "answer" /\ flush.status = "ok" /\ flush.cur.kind = "create"
  BY RemapRowEffect
<1>2. Known' = Known /\ used' = used /\ cut' = cut /\ page' = page /\ page.pc = "idle"
      /\ flush'.cur = flush.cur
  BY <1>1, IdleKnown DEF RemapRow, outcome, HoldStep, Known, Holding, QueueInv, PassInv
<1>3. \A m \in mirror' : m.id \in TempIds =>
         /\ m.id # flush.cur.row
         /\ \E r \in mirror : /\ r.id = m.id
                              /\ r.list # flush.cur.row => m.list = r.list
  <2>1. flush.newId \in Nat  BY <1>1 DEF TypeInv, FlushShape
  <2>2. CASE HasRow(mirror, flush.cur.row)
    <3>1. mirror' = Renamed(mirror, flush.cur.row, flush.newId)  BY <2>2 DEF RemapRow
    <3> QED  BY <2>1, <3>1, RenamedRows DEF TypeInv, TypeOK, StoresOK
  <2>3. CASE ~HasRow(mirror, flush.cur.row)
    BY <2>3 DEF RemapRow, HasRow
  <2> QED  BY <2>2, <2>3
<1>4. NoPhantom'  BY <1>2, <1>3 DEF MirrorInv, NoPhantom, Known
<1>5. \A m \in mirror' : m.id \in TempIds => m.id \in used'  BY <1>2, <1>3 DEF MirrorInv
<1>6. \A c \in queue' : Placed(c)'
  <2> SUFFICES ASSUME NEW c \in queue, c.dep # None, HasRow(mirror, c.dep)',
                      NEW m \in mirror', m.id = c.row
               PROVE  m.list = c.dep
    BY <1>1, <1>2 DEF MirrorInv, Placed
  <2>1. c.row \in TempIds /\ c.dep \in TempIds  BY Waiting DEF Known
  <2>2. HasRow(mirror, c.dep) /\ c.dep # flush.cur.row  BY <1>3, <2>1 DEF HasRow
  <2> QED  BY <1>3, <2>1, <2>2 DEF MirrorInv, Placed
<1>7. ~HasRow(mirror, flush.cur.row)'
  <2>1. flush.cur \in Known  BY <1>1 DEF Known, InPass
  <2>2. flush.cur.row \in TempIds
    BY <1>1, <2>1, KnownKeys DEF EntryShape, Shape, TempIds
  <2> QED  BY <1>2, <1>3, <2>2 DEF HasRow
<1> QED  BY <1>2, <1>4, <1>5, <1>6, <1>7 DEF MirrorInv

\* An entry that takes the server's id.
LEMMA MirrorDependent ==
    ASSUME TypeInv, QueueInv, MirrorInv, NEW d, NEW f, DependentStep(d, f)
    PROVE  MirrorInv'
<1>1. queue' = (queue \ {d}) \cup {f} /\ Known' = (Known \ {d}) \cup {f}
  BY DependentQueue
<1>2. NoPhantom'
  BY <1>1 DEF MirrorInv, NoPhantom, Known, DependentStep
<1>3. \A c \in queue' : Placed(c)'
  BY <1>1 DEF MirrorInv, Placed, DependentStep
<1> QED  BY <1>2, <1>3 DEF MirrorInv, DependentStep

\* An entry done with.
LEMMA MirrorDequeue ==
    ASSUME TypeInv, QueueInv, MirrorInv, FlushDequeue
    PROVE  MirrorInv'
<1>1. NextStep /\ queue' = queue \ {flush.cur} /\ mirror' = mirror /\ cut' = cut
  BY NextEffect, QueueInvDequeue DEF FlushDequeue
<1>2. flush'.pc = "next" /\ UNCHANGED <<used, page>>  BY <1>1 DEF NextStep
<1>3. Known \subseteq Known' \cup {flush.cur}
  BY <1>1, IdleKnown DEF NextStep, Known, Holding
<1>4. \A m \in mirror : m.id \in TempIds => ~IsCreate(flush.cur, m.id)
  BY DEF FlushDequeue, MirrorInv, HasRow, IsCreate
<1>5. NoPhantom'  BY <1>1, <1>2, <1>3, <1>4 DEF MirrorInv, NoPhantom, Known, IsCreate
<1> QED  BY <1>1, <1>2, <1>5, FewerUnchanged, MirrorKept

\* What goes with an entry refused.
LEMMA MirrorDiscardLocal ==
    ASSUME TypeInv, QueueInv, MirrorInv, DiscardLocal
    PROVE  MirrorInv'
<1>1. NextStep /\ flush.pc = "discard" /\ cut' = cut /\ queue' \subseteq queue
  BY DiscardLocalEffect DEF DiscardLocal, Dequeue
<1>2. flush'.pc = "next" /\ UNCHANGED <<used, page>> /\ page.pc = "idle"
  BY <1>1 DEF NextStep, QueueInv, PassInv
<1>3. Known \subseteq Known' \cup {flush.cur}
  BY <1>1, IdleKnown DEF NextStep, Known, Holding, QueueInv, PassInv
<1>4. FewerRows
  <2>1. CASE mirror' = Delete(mirror, flush.cur.row)  BY <2>1, FewerAfterDelete
  <2>2. CASE mirror' = mirror  BY <2>2, FewerUnchanged
  <2>3. CASE \E l : mirror' = MirrorRead(l, {r \in server : l \in {r.id, r.list}})
    BY <2>3, MirrorReadRows DEF FewerRows, TypeInv, TypeOK, StoresOK
  <2> QED  BY <2>1, <2>2, <2>3 DEF DiscardLocal
<1>5. \A m \in mirror' : m.id \in TempIds => ~IsCreate(flush.cur, m.id)
  <2>1. flush.cur.kind = "create" => mirror' = Delete(mirror, flush.cur.row)
    BY DiscardLocalEffect
  <2> QED  BY <2>1, DeleteRows DEF IsCreate
<1>6. NoPhantom'
  BY <1>1, <1>2, <1>3, <1>4, <1>5 DEF MirrorInv, NoPhantom, Known, IsCreate, FewerRows
<1> QED  BY <1>1, <1>2, <1>4, <1>6, MirrorKept

\* A write applied to the mirror, and queued.
LEMMA MirrorWrite ==
    ASSUME TypeInv, QueueInv, MirrorInv, ~Overlap, HandleApiWrite
    PROVE  MirrorInv'
<1>1. PICK q \in Requests : WriteOnline(q) \/ WriteFails(q) \/ WriteAnswerLost(q)
  BY DEF HandleApiWrite
<1>2. /\ UNCHANGED <<queue, used, flush, cut>> /\ page.pc = "idle"
      /\ \/ page' = page
         \/ mirror' = mirror /\ page' = [pc |-> "queue", req |-> q, read |-> {}]
  BY <1>1 DEF WriteOnline, WriteFails, WriteAnswerLost, CanWrite, IdlePage, local, outcome
<1>3. FewerRows
  <2>1. CASE mirror' = mirror  BY <2>1, FewerUnchanged
  <2>2. ASSUME WriteOnline(q), mirror' = Put(mirror, {Written(q)}), q.kind # "delete"
        PROVE  FewerRows
    <3>1. Written(q) \in ServerRow
      <4>1. q \in Request /\ (q.kind = "create" => q.list \in Lists \cup {None})
        BY RequestType DEF Request
      <4> QED  BY <2>2, <4>1, ApplyType DEF WriteOnline
    <3>2. Written(q) \in Row /\ Written(q).id \in Nat  BY <3>1, ServerRowIsRow DEF ServerRow
    <3> QED  BY <2>2, <3>2, FewerAfterPut
  <2>3. CASE mirror' = Delete(mirror, q.row)  BY <2>3, FewerAfterDelete
  <2> QED
    BY <1>1, <2>1, <2>2, <2>3 DEF WriteOnline, WriteFails, WriteAnswerLost, local
<1>4. NoPhantom'
  BY <1>2, <1>3 DEF MirrorInv, NoPhantom, FewerRows, InPass
<1>5. CASE page' = page
  BY <1>2, <1>3, <1>4, <1>5, MirrorKept
<1>6. CASE mirror' = mirror /\ page' = [pc |-> "queue", req |-> q, read |-> {}]
  <2>1. page'.pc = "queue" /\ page'.req = q  BY <1>6
  <2>2. q.kind # "create" => HasRow(mirror, q.row)  BY RequestType
  <2>3. q.kind = "create" /\ q.list \in TempIds => q.list \in used
    <3>1. q.list = None => q.list \notin TempIds  BY SyncQueueAssumption
    <3> QED  BY <3>1, RequestType DEF MirrorInv, HasRow
  <2> QED  BY <1>2, <1>4, <1>6, <2>1, <2>2, <2>3 DEF MirrorInv, Placed
<1> QED  BY <1>2, <1>5, <1>6

\* The optimistic row of a create that is queued goes to the mirror.
LEMMA MirrorQueueCreate ==
    ASSUME TypeInv, QueueInv, MirrorInv, QueueCreate
    PROVE  MirrorInv'
<1> DEFINE r == page.req
           new == [id |-> r.row, list |-> r.list, val |-> r.op, at |-> r.op]
<1>1. /\ page.pc = "queue" /\ r.kind = "create" /\ r.row \notin used
      /\ r \in Request /\ Shape(r)
  BY DEF QueueCreate, QueueInv, CreatesInv, TypeInv, PageShape
<1>2. /\ UNCHANGED <<queue, flush, cut>> /\ used' = used \cup {r.row}
      /\ mirror' = Put(mirror, {new})
  BY DEF QueueCreate, outcome
<1>3. page'.pc = "enqueue" /\ page'.req = r
  BY DEF QueueCreate, TypeInv, TypeOK, HandlersOK, Page
<1>4. r.row \in TempIds /\ new \in Row
  BY <1>1 DEF Shape, Request, Row, TempIds
<1>5. \A m \in mirror' : m = new \/ (m \in mirror /\ m.id # r.row)
  BY <1>2, <1>4, PutRows DEF TypeInv, TypeOK, StoresOK
<1>6. new.id = r.row /\ new.list = r.list  OBVIOUS
<1> HIDE DEF new
<1>7. NoPhantom'
  BY <1>1, <1>2, <1>3, <1>5, <1>6 DEF MirrorInv, NoPhantom, InPass
<1>8. \A c \in queue' : Placed(c)'
  <2> SUFFICES ASSUME NEW c \in queue, c.dep # None
               PROVE  /\ c.dep \in used'
                      /\ HasRow(mirror, c.dep)' => \A m \in mirror' : m.id = c.row => m.list = c.dep
    BY <1>2 DEF Placed
  <2>1. c.row \in used /\ c.dep \in used
    BY Waiting DEF Known, QueueInv, CreatesInv, MirrorInv, Placed
  <2> QED  BY <1>1, <1>2, <1>5, <1>6, <2>1 DEF MirrorInv, Placed, HasRow
<1>9. ~(flush.pc = "remap")  BY <1>1 DEF QueueInv, PassInv
<1> QED
  BY <1>1, <1>2, <1>3, <1>5, <1>6, <1>7, <1>8, <1>9 DEF MirrorInv

\* ... and its entry to the queue.
LEMMA MirrorEnqueueCreate ==
    ASSUME TypeInv, QueueInv, MirrorInv, EnqueueCreate
    PROVE  MirrorInv'
<1> DEFINE r == page.req
<1>1. page.pc = "enqueue" /\ r.kind = "create" /\ Shape(r)
  BY DEF EnqueueCreate, TypeInv, PageShape
<1>2. UNCHANGED <<mirror, used, flush, cut>> /\ page'.pc = "idle"
  BY DEF EnqueueCreate, IdlePage
<1>3. PICK e : /\ queue' = queue \cup {e} /\ e.kind = "create" /\ e.row = r.row
               /\ e.dep # None => e.dep = r.list /\ e.dep \in TempIds
  <2>1. /\ NewEntry(r, r.list).kind = "create" /\ NewEntry(r, r.list).row = r.row
        /\ LET d == NewEntry(r, r.list).dep IN d # None => d = r.list /\ d \in TempIds
    BY <1>1 DEF NewEntry, TempIds
  <2>2. queue' = queue \cup {NewEntry(r, r.list)}  BY DEF EnqueueCreate
  <2> QED  BY <2>1, <2>2
<1>4. NoPhantom'  BY <1>1, <1>2, <1>3 DEF MirrorInv, NoPhantom, InPass
<1>5. Placed(e)'  BY <1>1, <1>2, <1>3 DEF MirrorInv, Placed
<1>6. \A c \in queue : Placed(c)'  BY <1>2 DEF MirrorInv, Placed
<1>7. \A c \in queue' : Placed(c)'  BY <1>3, <1>5, <1>6
<1> QED  BY <1>2, <1>4, <1>7 DEF MirrorInv

\* An edit or a delete of a row the server knows.
LEMMA MirrorQueueEdit ==
    ASSUME TypeInv, QueueInv, MirrorInv, QueueEdit
    PROVE  MirrorInv'
<1> DEFINE r == page.req
<1>1. /\ r.kind # "create" /\ r.row \in Nat /\ r.op \in Nat /\ page.pc = "queue"
  BY DEF QueueEdit, TypeInv, PageShape, Request
<1>2. UNCHANGED <<used, flush, cut>> /\ page'.pc = "idle"
  BY DEF QueueEdit, IdlePage
<1>3. PICK e : queue' = queue \cup {e} /\ e.dep = None
  <2>1. \A l : NewEntry(r, l).dep = None  BY <1>1 DEF NewEntry
  <2>2. \E l : queue' = queue \cup {NewEntry(r, l)}  BY DEF QueueEdit
  <2> QED  BY <2>1, <2>2
<1>4. FewerRows
  <2>1. CASE r.kind = "delete"  BY <2>1, FewerAfterDelete DEF QueueEdit
  <2>2. CASE r.kind # "delete"
    <3> DEFINE old == Existing(r.row)
               new == [old EXCEPT !.val = r.op, !.at = r.op]
    <3>1. old \in Row /\ old.id = r.row  BY <1>1, ExistingType DEF Ids
    <3>2. mirror' = Put(mirror, {new})  BY <2>2 DEF QueueEdit
    <3> HIDE DEF old
    <3>3. new \in Row /\ new.id = r.row  BY <1>1, <3>1 DEF Row
    <3> QED  BY <1>1, <3>2, <3>3, FewerAfterPut
  <2> QED  BY <2>1, <2>2
<1>5. NoPhantom'  BY <1>1, <1>2, <1>3, <1>4 DEF MirrorInv, NoPhantom, InPass, FewerRows
<1>6. \A c \in queue' : Placed(c)'
  <2>1. \A c \in queue : Placed(c)'  BY <1>2, <1>4, FewerRowsPlaced
  <2>2. Placed(e)'  BY <1>3 DEF Placed
  <2> QED  BY <1>3, <2>1, <2>2
<1>7. ~(flush.pc = "remap")  BY <1>1 DEF QueueInv, PassInv
<1>8. \A m \in mirror' : m.id \in TempIds => m.id \in used'
  BY <1>2, <1>4, FewerRowsPlaced
<1> QED  BY <1>2, <1>5, <1>6, <1>7, <1>8 DEF MirrorInv

\* The queue is read, for a create of the row the request is about.
LEMMA MirrorResolveRead ==
    ASSUME TypeInv, QueueInv, MirrorInv, ResolveRead
    PROVE  MirrorInv'
<1>1. /\ UNCHANGED <<mirror, queue, used, flush, cut>>
      /\ page.pc = "queue" /\ page.req.kind # "create" /\ page.req.row \in TempIds
  BY DEF ResolveRead, local, outcome
<1>2. page'.pc = "resolve" /\ page'.req = page.req
  BY DEF ResolveRead, TypeInv, TypeOK, HandlersOK, Page
<1>3. NoPhantom'  BY <1>1, <1>2 DEF MirrorInv, NoPhantom, InPass
<1>4. \A c \in queue' : Placed(c)'  BY <1>1 DEF MirrorInv, Placed
<1> QED  BY <1>1, <1>2, <1>3, <1>4 DEF MirrorInv

\* A withdrawn list goes with its items, whose entries are withdrawn with its own.
LEMMA MirrorResolveDelete ==
    ASSUME TypeInv, QueueInv, MirrorInv, ResolveDelete
    PROVE  MirrorInv'
<1> DEFINE t == page.req.row
<1>1. /\ page.pc = "resolve" /\ queue' = Dequeue(Keys(page.read))
      /\ mirror' = Delete(mirror, t) /\ UNCHANGED <<used, flush, cut>> /\ page'.pc = "idle"
  BY DEF ResolveDelete, IdlePage
<1>2. flush.pc = "idle" /\ Known = queue /\ InPass = {}
  BY <1>1, IdleKnown DEF QueueInv, PassInv
<1>3. t \in TempIds /\ HasRow(mirror, t)
  BY <1>1 DEF TypeInv, PageShape, MirrorInv
<1>4. ASSUME NEW e \in queue, e \notin queue' PROVE IsCreate(e, t) \/ e.dep = t
  <2>1. e.key \in Keys(page.read)  BY <1>1, <1>4 DEF Dequeue
  <2>2. page.read = {q \in queue : IsCreate(q, t) \/ q.dep = t}
    BY <1>1 DEF QueueInv, PassInv
  <2> QED  BY <1>2, <2>1, <2>2 DEF Keys, QueueInv, KeysInv
<1>5. FewerRows  BY <1>1, FewerAfterDelete
<1>6. NoPhantom'
  <2> SUFFICES ASSUME NEW m \in mirror', m.id \in TempIds, m.id \notin cut
               PROVE  \E e \in queue' : e.kind = "create" /\ e.row = m.id
    BY <1>1 DEF NoPhantom
  <2>1. m \in mirror /\ m.id # t /\ m.list # t  BY <1>1, DeleteRows
  <2>2. PICK e \in queue : e.kind = "create" /\ e.row = m.id
    BY <1>1, <1>2, <2>1 DEF MirrorInv, NoPhantom
  <2>3. e.dep # t
    <3>1. t # None  BY <1>3, SyncQueueAssumption
    <3> QED  BY <1>3, <2>1, <2>2, <3>1 DEF MirrorInv, Placed
  <2> QED  BY <1>4, <2>1, <2>2, <2>3 DEF IsCreate
<1> QED  BY <1>1, <1>2, <1>5, <1>6, MirrorKept DEF Dequeue

\* A folded edit changes neither the row's list nor what its create names.
LEMMA MirrorResolveEdit ==
    ASSUME TypeInv, QueueInv, MirrorInv, ResolveEdit
    PROVE  MirrorInv'
<1> DEFINE t == page.req.row
           op == page.req.op
           old == Existing(t)
           new == [old EXCEPT !.val = op, !.at = op]
<1>1. /\ page.pc = "resolve" /\ mirror' = Put(mirror, {new})
      /\ UNCHANGED <<used, flush, cut>> /\ page'.pc = "idle"
  BY DEF ResolveEdit, IdlePage
<1>2. t \in TempIds /\ HasRow(mirror, t) /\ op \in Nat /\ t \in Ids
  BY <1>1 DEF TypeInv, PageShape, MirrorInv, Request, Ids
<1>3. old \in mirror /\ old.id = t /\ old \in Row
  BY <1>2, RowOfIsRow, ExistingType DEF Existing
<1> HIDE DEF old
<1>4. new \in Row /\ new.id = t /\ new.list = old.list  BY <1>2, <1>3 DEF Row
<1> HIDE DEF new
<1>5. FewerRows  BY <1>1, <1>3, <1>4, FewerAfterPut
<1>6. /\ \A e \in queue : e.kind = "create" => \E f \in queue' : f.kind = "create" /\ f.row = e.row
      /\ \A f \in queue' : \E e \in queue : f.row = e.row /\ f.dep = e.dep
  <2>1. CASE queue' = queue  BY <2>1
  <2>2. ASSUME NEW e \in Pending, NEW f, FoldStep(e, f)
        PROVE  /\ \A c \in queue : c.kind = "create" =>
                     \E g \in queue' : g.kind = "create" /\ g.row = c.row
               /\ \A g \in queue' : \E c \in queue : g.row = c.row /\ g.dep = c.dep
    <3>1. e \in queue  BY <1>1, <2>2 DEF Pending, QueueInv, PassInv
    <3>2. \A c \in queue : c.key = e.key => c = e
      BY <3>1 DEF QueueInv, KeysInv, Known
    <3> QED  BY <2>2, <3>1, <3>2 DEF FoldStep, UpdateQueueEntry
  <2> QED  BY <2>1, <2>2, FoldEffect
<1>7. NoPhantom'
  <2> SUFFICES ASSUME NEW m \in mirror', m.id \in TempIds, m.id \notin cut
               PROVE  \E e \in queue' \cup InPass' : e.kind = "create" /\ e.row = m.id
    BY <1>1 DEF NoPhantom
  <2>1. PICK r \in mirror : r.id = m.id  BY <1>5 DEF FewerRows
  <2>2. PICK e \in queue \cup InPass : e.kind = "create" /\ e.row = m.id
    BY <1>1, <2>1 DEF MirrorInv, NoPhantom
  <2>3. InPass' = InPass  BY <1>1 DEF InPass
  <2> QED  BY <1>6, <2>2, <2>3
<1>8. \A c \in queue' : Placed(c)'
  <2>1. \A c \in queue : Placed(c)'  BY <1>1, <1>5, FewerRowsPlaced
  <2> QED  BY <1>6, <2>1 DEF Placed
<1>9. ~(flush.pc = "remap")  BY <1>1 DEF QueueInv, PassInv
<1>10. \A m \in mirror' : m.id \in TempIds => m.id \in used'
  BY <1>1, <1>5, FewerRowsPlaced
<1> QED  BY <1>1, <1>7, <1>8, <1>9, <1>10 DEF MirrorInv

\* Every step keeps the third part.
LEMMA MirrorStep ==
    ASSUME TypeInv, QueueInv, MirrorInv, ~Overlap, [Next]_vars
    PROVE  MirrorInv'
<1>1. ASSUME FlushSend \/ FlushRefused PROVE MirrorInv'
  <2>1. PICK f \in flush.snap : SendStep(f)  BY <1>1, SendEffect
  <2>2. Known' = Known  BY <2>1, IdleKnown DEF SendStep, Holding, Known
  <2> QED  BY <2>1, <2>2, MirrorSameKnown DEF SendStep
<1>2. ASSUME FlushStart PROVE MirrorInv'
  <2>1. /\ flush'.pc = "next" /\ flush'.snap = queue /\ flush.pc = "idle"
        /\ UNCHANGED <<queue, mirror, used, page, cut>>
    BY <1>2 DEF FlushStart, IdleFlush, local, outcome
  <2>2. Known' = Known  BY <2>1, IdleKnown DEF Holding, Known
  <2> QED  BY <2>1, <2>2, MirrorSameKnown
<1>3. ASSUME DiscardEntry PROVE MirrorInv'
  <2>1. HoldStep("discard") /\ queue' = queue \ {flush.cur} /\ mirror' = mirror /\ cut' = cut
    BY <1>3, DiscardEntryEffect, QueueInvDiscardEntry DEF DiscardEntry
  <2>2. Known' = Known
    BY <2>1, IdleKnown DEF HoldStep, Holding, Known
  <2> QED  BY <2>1, <2>2, MirrorSameKnown DEF HoldStep
<1>4. CASE RemapDependent  BY <1>4, DependentEffect, MirrorDependent
<1>5. CASE RemapRow \/ FlushDequeue \/ DiscardLocal
  BY <1>5, MirrorRemapRow, MirrorDequeue, MirrorDiscardLocal
<1>6. CASE FlushEnd \/ FlushUnauthorized \/ FlushAnswerLost \/ Kill
  BY <1>6, StopEffect, MirrorStop
<1>7. CASE QueueOfflineWrite \/ HandleApiWrite
  BY <1>7, MirrorWrite, MirrorQueueCreate, MirrorEnqueueCreate, MirrorQueueEdit,
     MirrorResolveRead, MirrorResolveDelete, MirrorResolveEdit DEF QueueOfflineWrite
<1>8. ASSUME Connect \/ Disconnect \/ Expire \/ Login \/ OtherDevice \/ MirrorReadResponse
             \/ (\E l \in RealIds : ReadList(l)) \/ UNCHANGED vars
      PROVE  MirrorInv'
  <2>1. UNCHANGED <<queue, used, page, flush, cut>> /\ (mirror' = mirror \/ MirrorReadResponse)
    BY <1>8, OtherSteps
  <2>2. \A m : m.id \in TempIds => (m \in mirror' <=> m \in mirror)
    <3>1. CASE MirrorReadResponse
      <4>1. get.rows \in SUBSET ServerRow /\ mirror' = MirrorRead(get.list, get.rows)
        BY <3>1 DEF MirrorReadResponse, TypeInv, TypeOK, HandlersOK, Get
      <4> QED  BY <4>1, MirrorReadRows DEF TypeInv, TypeOK, StoresOK
    <3> QED  BY <2>1, <3>1
  <2>3. FewerRows  BY <2>2 DEF FewerRows
  <2>4. NoPhantom'  BY <2>1, <2>2 DEF MirrorInv, NoPhantom, InPass
  <2>5. (flush.pc = "remap" => ~HasRow(mirror, flush.cur.row))'
    <3>1. flush.pc = "remap" => flush.cur.row \in TempIds
      BY KnownKeys DEF TypeInv, FlushShape, Known, InPass, EntryShape, Shape, TempIds
    <3> QED  BY <2>1, <2>2, <3>1 DEF MirrorInv, HasRow
  <2>6. (page.pc = "enqueue" => \A m \in mirror : m.id = page.req.row => m.list = page.req.list)'
    <3>1. page.pc = "enqueue" => page.req.row \in TempIds
      BY DEF TypeInv, PageShape, Shape, TempIds
    <3> QED  BY <2>1, <2>2, <3>1 DEF MirrorInv
  <2>7. (page.pc \in {"queue", "resolve"} /\ page.req.kind # "create" /\ page.req.row \in TempIds
          => HasRow(mirror, page.req.row))'
    BY <2>1, <2>2 DEF MirrorInv, HasRow
  <2> QED
    BY <2>1, <2>3, <2>4, <2>5, <2>6, <2>7, FewerRowsPlaced DEF MirrorInv
<1> QED
  BY <1>1, <1>2, <1>3, <1>4, <1>5, <1>6, <1>7, <1>8 DEF Next, FlushQueue, World

\* At first the mirror holds the server's rows.
LEMMA MirrorInit == Init => MirrorInv
<1> SUFFICES ASSUME Init PROVE MirrorInv  OBVIOUS
<1>1. \A m \in mirror : m.id \in Nat
  BY TypeInit DEF Init, TypeInv, TypeOK, StoresOK, ServerRow
<1>2. \A m \in mirror : m.id \notin TempIds  BY <1>1, SyncQueueAssumption
<1>3. queue = {} /\ page.pc = "idle" /\ flush.pc = "idle"  BY DEF Init, IdlePage, IdleFlush
<1> QED  BY <1>2, <1>3 DEF MirrorInv, NoPhantom

-----------------------------------------------------------------------------
(* The order of the queue: part four *)

\* Temporary list l needs nothing more of the queue from entry key on: its create is
\* queued before that, or was refused or withdrawn, or a kill cut it short.
Settled(l, key) ==
    \/ \E c \in queue : IsCreate(c, l) /\ c.key < key
    \/ l \in cut
    \/ \E r \in accepted : r.row = l /\ r.kind = "create" /\ r.op \in dropped

OrderInv ==
    /\ \A c \in Known : c.kind = "create" /\ c.list \in TempLists => Settled(c.list, c.key)
    /\ page.pc \in {"queue", "enqueue"} /\ page.req.kind = "create" /\ page.req.list \in TempLists
          => Settled(page.req.list, nextKey)
    /\ \A c \in queue : c.kind = "create" =>
          \E r \in accepted : r.row = c.row /\ r.kind = "create" /\ r.op \in c.ops

\* The create of l is queued at key, or settled for good.
CreateAt(l, key) ==
    \/ \E c \in queue : IsCreate(c, l) /\ c.key = key
    \/ l \in cut
    \/ \E r \in accepted : r.row = l /\ r.kind = "create" /\ r.op \in dropped

\* What a step that queues no create leaves as it was: where the creates of l are, the
\* item creates that name a temporary list, and which write each create stands for.
SettledKept(l) ==
    /\ cut \subseteq cut' /\ accepted \subseteq accepted' /\ dropped \subseteq dropped'
    /\ \A c \in queue : IsCreate(c, l) => CreateAt(l, c.key)'

ItemsKept ==
    \A c \in Known' : c.kind = "create" /\ c.list \in TempLists =>
        /\ SettledKept(c.list)
        /\ \E b \in Known : b.kind = "create" /\ b.list = c.list /\ b.key = c.key

WritesKept ==
    /\ accepted \subseteq accepted'
    /\ \A c \in queue' : c.kind = "create" =>
          \E b \in queue : b.kind = "create" /\ b.row = c.row /\ b.ops \subseteq c.ops

PageKept ==
    \/ page'.pc \notin {"queue", "enqueue"}
    \/ /\ page.pc \in {"queue", "enqueue"} /\ page'.req = page.req /\ nextKey' = nextKey
       /\ page.req.list \in TempLists => SettledKept(page.req.list)

\* What has no older entry in the queue gets none.
LEMMA StaysSettled ==
    ASSUME NEW l, NEW key, SettledKept(l), Settled(l, key)
    PROVE  Settled(l, key)'
BY DEF SettledKept, Settled, CreateAt

\* A step that adds no entry, and forgets no order.
LEMMA OrderKept ==
    ASSUME OrderInv, ItemsKept, WritesKept, PageKept
    PROVE  OrderInv'
<1>1. ASSUME NEW c \in Known', c.kind = "create", c.list \in TempLists
      PROVE  Settled(c.list, c.key)'
  BY <1>1, StaysSettled DEF ItemsKept, OrderInv
<1>2. (page.pc \in {"queue", "enqueue"} /\ page.req.kind = "create"
         /\ page.req.list \in TempLists => Settled(page.req.list, nextKey))'
  <2> SUFFICES ASSUME page'.pc \in {"queue", "enqueue"}, page'.req.kind = "create",
                      page'.req.list \in TempLists
               PROVE  Settled(page.req.list, nextKey)'
    OBVIOUS
  <2>1. /\ page'.req = page.req /\ nextKey' = nextKey
        /\ SettledKept(page.req.list) /\ Settled(page.req.list, nextKey)
    BY DEF PageKept, OrderInv
  <2> QED  BY <2>1 DEF SettledKept, Settled, CreateAt
<1>3. \A c \in queue' : c.kind = "create" =>
         \E r \in accepted' : r.row = c.row /\ r.kind = "create" /\ r.op \in c.ops
  BY DEF WritesKept, OrderInv
<1> QED  BY <1>1, <1>2, <1>3 DEF OrderInv

\* A step that leaves the queue, what is known and the page's request as they are.
LEMMA OrderSame ==
    ASSUME OrderInv, queue' = queue, Known' \subseteq Known, nextKey' = nextKey,
           cut \subseteq cut', accepted \subseteq accepted', dropped \subseteq dropped',
           page'.pc \notin {"queue", "enqueue"}
           \/ (page.pc \in {"queue", "enqueue"} /\ page'.req = page.req)
    PROVE  OrderInv'
<1>1. \A l : SettledKept(l)  BY DEF SettledKept, CreateAt
<1> QED  BY <1>1, OrderKept DEF ItemsKept, WritesKept, PageKept

\* A step of the pass that lets some entries go: what they were for is settled, or
\* nothing left to send names it.
LEMMA OrderLess ==
    ASSUME OrderInv, queue' \subseteq queue, Known' \subseteq Known, page'.pc = "idle",
           cut' = cut, accepted \subseteq accepted', dropped \subseteq dropped',
           \A c \in queue \ queue' : c.kind = "create" /\ c.row \in TempLists =>
              \/ \E r \in accepted' : r.row = c.row /\ r.kind = "create" /\ r.op \in dropped'
              \/ \A d \in Known' : d.kind = "create" => d.list # c.row
    PROVE  OrderInv'
<1>1. ASSUME NEW c \in Known', c.kind = "create", c.list \in TempLists
      PROVE  SettledKept(c.list)
  BY <1>1 DEF SettledKept, CreateAt, IsCreate
<1> QED  BY <1>1, OrderKept DEF ItemsKept, WritesKept, PageKept

\* An entry that takes the server's id keeps its place.
LEMMA OrderDependent ==
    ASSUME TypeInv, QueueInv, OrderInv, NEW d, NEW f, DependentStep(d, f)
    PROVE  OrderInv'
<1>1. /\ d \in queue /\ queue' = (queue \ {d}) \cup {f}
      /\ Known' = (Known \ {d}) \cup {f} /\ page'.pc = "idle"
  BY DependentQueue DEF DependentStep, QueueInv, PassInv
<1>2. \A l : SettledKept(l)  BY <1>1 DEF DependentStep, SettledKept, CreateAt, IsCreate
<1>3. ItemsKept  BY <1>1, <1>2 DEF ItemsKept, DependentStep
<1>4. WritesKept  BY <1>1 DEF WritesKept, DependentStep
<1> QED  BY <1>1, <1>3, <1>4, OrderKept DEF PageKept

\* An entry done with was the oldest about its row.
LEMMA OrderDequeue ==
    ASSUME TypeInv, QueueInv, OrderInv, FlushDequeue
    PROVE  OrderInv'
<1> DEFINE e == flush.cur
<1>1. /\ NextStep /\ queue' = queue \ {e} /\ QueueInv'
      /\ UNCHANGED <<cut, accepted, dropped>>
  BY NextEffect, QueueInvDequeue DEF FlushDequeue
<1>2. page'.pc = "idle" /\ Known' = flush.snap /\ Known' \subseteq Known
  BY <1>1, IdleKnown DEF NextStep, QueueInv, PassInv, Known, Holding
<1>3. ASSUME e.kind = "create", e.row \in TempLists, NEW d \in Known', d.kind = "create"
      PROVE  d.list # e.row
  <2>1. Dependents = {}  BY <1>3 DEF FlushDequeue
  <2>2. EntryShape(d) /\ d \in flush.snap  BY <1>2, <1>3, KnownKeys
  <2>3. d.dep # e.row  BY <2>1, <2>2 DEF Dependents
  <2> QED  BY <1>3, <2>2, <2>3 DEF EntryShape
<1> QED  BY <1>1, <1>2, <1>3, OrderLess

\* So was one refused.
LEMMA OrderDiscardEntry ==
    ASSUME TypeInv, QueueInv, OrderInv, DiscardEntry
    PROVE  OrderInv'
<1>1. /\ HoldStep("discard") /\ queue' = queue \ {flush.cur} /\ page'.pc = "idle"
      /\ UNCHANGED <<cut, accepted>> /\ dropped' = dropped \cup flush.cur.ops
  BY DiscardEntryEffect, QueueInvDiscardEntry
  DEF DiscardEntry, HoldStep, Holding, QueueInv, PassInv
<1>2. Known' \subseteq Known  BY <1>1, IdleKnown DEF HoldStep, Holding, Known
<1>3. ASSUME flush.cur \in queue, flush.cur.kind = "create"
      PROVE  \E r \in accepted' : r.row = flush.cur.row /\ r.kind = "create" /\ r.op \in dropped'
  BY <1>1, <1>3 DEF OrderInv
<1> QED  BY <1>1, <1>2, <1>3, OrderLess

\* What goes with an entry refused.
LEMMA OrderDiscardLocal ==
    ASSUME TypeInv, QueueInv, OrderInv, DiscardLocal
    PROVE  OrderInv'
<1>1. /\ NextStep /\ page'.pc = "idle" /\ flush.pc = "discard"
      /\ UNCHANGED <<cut, accepted>> /\ dropped \subseteq dropped'
  BY DiscardLocalEffect DEF DiscardLocal, NextStep, Holding, QueueInv, PassInv
<1>2. /\ queue' \subseteq queue
      /\ \A c \in queue \ queue' : c \in Dependents /\ flush.cur.kind = "create"
  BY DiscardLocalEffect, QueueInvDiscardLocal
<1>3. Known' \subseteq Known /\ flush.cur \in Known /\ Dependents \subseteq Known
  BY <1>1, <1>2, IdleKnown, AtHand DEF NextStep, Holding, Known, Dependents
<1>4. ASSUME NEW c \in queue \ queue' PROVE c.row \notin TempLists
  <2>1. c \in Known /\ c.dep = flush.cur.row /\ flush.cur.kind = "create"
    BY <1>2, <1>3 DEF Dependents
  <2>2. c.dep # None
    BY <1>3, <2>1, KnownKeys, SyncQueueAssumption DEF EntryShape, Shape, TempIds
  <2> QED  BY <2>1, <2>2, Waiting, SyncQueueAssumption
<1> QED  BY <1>1, <1>2, <1>3, <1>4, OrderLess

\* A write of the page names a list that it knows.
LEMMA OrderWrite ==
    ASSUME TypeInv, QueueInv, MirrorInv, OrderInv, ~Overlap, HandleApiWrite
    PROVE  OrderInv'
<1>1. PICK q \in Requests : WriteOnline(q) \/ WriteFails(q) \/ WriteAnswerLost(q)
  BY DEF HandleApiWrite
<1>2. /\ UNCHANGED <<queue, nextKey, flush, cut, accepted, dropped>>
      /\ page.pc = "idle" /\ flush.pc = "idle"
      /\ page' = page \/ page' = [pc |-> "queue", req |-> q, read |-> {}]
  BY <1>1 DEF WriteOnline, WriteFails, WriteAnswerLost, CanWrite, IdlePage, local, outcome
<1>3. Known' = Known /\ Known = queue  BY <1>2, IdleKnown DEF Known, InPass
<1>4. CASE page' = page  BY <1>2, <1>3, <1>4, OrderSame
<1>5. CASE page' = [pc |-> "queue", req |-> q, read |-> {}]
  <2>1. ASSUME q.kind = "create", q.list \in TempLists PROVE Settled(q.list, nextKey)
    <3>1. q.list # None /\ q.list \in TempIds  BY <2>1, SyncQueueAssumption DEF TempIds
    <3>2. PICK m \in mirror : m.id = q.list  BY <2>1, <3>1, RequestType DEF HasRow
    <3>3. q.list \in cut \/ \E e \in Known : IsCreate(e, q.list)
      BY <1>2, <3>1, <3>2 DEF MirrorInv, NoPhantom, Known, IsCreate
    <3> QED  BY <1>3, <3>3 DEF Settled, QueueInv, KeysInv
  <2>2. /\ page'.req = q /\ \A l : Settled(l, nextKey)' <=> Settled(l, nextKey)
    BY <1>2, <1>5 DEF Settled
  <2>3. \A c \in Known' : c.kind = "create" /\ c.list \in TempLists => Settled(c.list, c.key)'
    BY <1>2, <1>3 DEF OrderInv, Settled
  <2> QED  BY <1>2, <2>1, <2>2, <2>3 DEF OrderInv
<1> QED  BY <1>2, <1>4, <1>5

\* An entry queued goes last.
LEMMA OrderEnqueue ==
    ASSUME TypeInv, QueueInv, OrderInv, EnqueueCreate \/ QueueEdit
    PROVE  OrderInv'
<1> DEFINE r == page.req
<1>1. /\ page.pc \in {"queue", "enqueue"} /\ page'.pc = "idle" /\ r \in Request
      /\ UNCHANGED <<flush, cut, dropped>> /\ accepted' = accepted \cup {r}
  BY DEF EnqueueCreate, QueueEdit, IdlePage, TypeInv, PageShape
<1>2. PICK e : /\ queue' = queue \cup {e} /\ e.key = nextKey /\ e.row = r.row
               /\ e.kind = r.kind /\ e.ops = {r.op}
               /\ r.kind = "create" => e.list = r.list
  <2>1. \A l : /\ NewEntry(r, l).key = nextKey /\ NewEntry(r, l).row = r.row
               /\ NewEntry(r, l).kind = r.kind /\ NewEntry(r, l).ops = {r.op}
               /\ NewEntry(r, l).list = l
    BY DEF NewEntry
  <2>2. \E l : queue' = queue \cup {NewEntry(r, l)} /\ (r.kind = "create" => l = r.list)
    BY DEF EnqueueCreate, QueueEdit
  <2> QED  BY <2>1, <2>2
<1>3. Known' = queue \cup {e} /\ Known = queue
  BY <1>1, <1>2, IdleKnown DEF QueueInv, PassInv, Known, InPass
<1>4. \A l, key : Settled(l, key) => Settled(l, key)'
  BY <1>1, <1>2 DEF Settled
<1>5. e.kind = "create" /\ e.list \in TempLists => Settled(e.list, e.key)
  BY <1>1, <1>2 DEF OrderInv
<1>6. \A c \in Known' : c.kind = "create" /\ c.list \in TempLists => Settled(c.list, c.key)'
  BY <1>3, <1>4, <1>5 DEF OrderInv
<1>7. \A c \in queue' : c.kind = "create" =>
         \E q \in accepted' : q.row = c.row /\ q.kind = "create" /\ q.op \in c.ops
  BY <1>1, <1>2 DEF OrderInv
<1> QED  BY <1>1, <1>6, <1>7 DEF OrderInv

\* A delete of a row not created yet takes back its create and what depends on it.
LEMMA OrderResolveDelete ==
    ASSUME TypeInv, QueueInv, OrderInv, ResolveDelete
    PROVE  OrderInv'
<1> DEFINE t == page.req.row
<1>1. /\ page.pc = "resolve" /\ queue' = Dequeue(Keys(page.read)) /\ page'.pc = "idle"
      /\ UNCHANGED <<flush, cut>> /\ accepted \subseteq accepted'
      /\ dropped \subseteq dropped' /\ OpsOf(page.read) \subseteq dropped'
  BY DEF ResolveDelete, IdlePage
<1>2. Known = queue /\ Known' \subseteq Known
  BY <1>1, IdleKnown DEF QueueInv, PassInv, Known, InPass, Dequeue
<1>3. ASSUME NEW c \in queue \ queue', c.kind = "create", c.row \in TempLists
      PROVE  \E r \in accepted' : r.row = c.row /\ r.kind = "create" /\ r.op \in dropped'
  <2>1. c.key \in Keys(page.read) /\ page.read \subseteq queue
    BY <1>1, <1>3 DEF Dequeue, QueueInv, PassInv
  <2>2. c \in page.read  BY <1>2, <1>3, <2>1 DEF Keys, QueueInv, KeysInv
  <2>3. c.ops \subseteq dropped'  BY <1>1, <2>2 DEF OpsOf
  <2> QED  BY <1>1, <1>3, <2>3 DEF OrderInv
<1> QED  BY <1>1, <1>2, <1>3, OrderLess DEF Dequeue

\* An edit of a row not created yet goes into its create, if one is pending.
LEMMA OrderResolveEdit ==
    ASSUME TypeInv, QueueInv, OrderInv, ResolveEdit
    PROVE  OrderInv'
<1>1. /\ page.pc = "resolve" /\ page'.pc = "idle"
      /\ UNCHANGED <<nextKey, flush, cut, dropped>> /\ accepted \subseteq accepted'
  BY DEF ResolveEdit, IdlePage
<1>2. Known = queue /\ Known' = queue'
  BY <1>1, IdleKnown DEF QueueInv, PassInv, Known, InPass
<1>3. CASE queue' = queue  BY <1>1, <1>2, <1>3, OrderSame
<1>4. ASSUME NEW e \in Pending, NEW f, FoldStep(e, f) PROVE OrderInv'
  <2>1. e \in queue  BY <1>1, <1>4 DEF Pending, QueueInv, PassInv
  <2>2. \A c \in queue : c.key = e.key => c = e
    BY <2>1 DEF QueueInv, KeysInv, Known
  <2>3. queue' = (queue \ {e}) \cup {f}
    BY <1>4, <2>1, <2>2 DEF FoldStep, UpdateQueueEntry
  <2>4. \A l : SettledKept(l)
    BY <1>1, <1>4, <2>3 DEF FoldStep, SettledKept, CreateAt, IsCreate
  <2>5. ItemsKept  BY <1>2, <1>4, <2>1, <2>3, <2>4 DEF ItemsKept, FoldStep
  <2>6. \A c \in queue' : c.kind = "create" =>
           \E r \in accepted' : r.row = c.row /\ r.kind = "create" /\ r.op \in c.ops
    BY <1>1, <1>4, <2>1, <2>3 DEF FoldStep, OrderInv
  <2>7. \A c \in Known' : c.kind = "create" /\ c.list \in TempLists => Settled(c.list, c.key)'
    BY <2>5, StaysSettled DEF ItemsKept, OrderInv
  <2> QED  BY <1>1, <2>6, <2>7 DEF OrderInv
<1> QED  BY <1>3, <1>4, FoldEffect

\* Every step keeps the fourth part.
LEMMA OrderStep ==
    ASSUME TypeInv, QueueInv, MirrorInv, OrderInv, ~Overlap, [Next]_vars
    PROVE  OrderInv'
<1>1. ASSUME FlushSend \/ FlushRefused PROVE OrderInv'
  <2>1. PICK f \in flush.snap : SendStep(f)  BY <1>1, SendEffect
  <2>2. Known' = Known  BY <2>1, IdleKnown DEF SendStep, Holding, Known
  <2> QED  BY <2>1, <2>2, OrderSame DEF SendStep
<1>2. ASSUME FlushStart PROVE OrderInv'
  <2>1. /\ flush'.pc = "next" /\ flush'.snap = queue /\ flush.pc = "idle"
        /\ UNCHANGED <<queue, nextKey, page, cut, accepted, dropped>>
    BY <1>2 DEF FlushStart, IdleFlush, local, outcome
  <2>2. Known' = Known  BY <2>1, IdleKnown DEF Holding, Known
  <2> QED  BY <2>1, <2>2, OrderSame
<1>3. ASSUME RemapRow PROVE OrderInv'
  <2>1. HoldStep("remap") /\ UNCHANGED <<queue, cut, accepted, dropped>>
    BY <1>3, RemapRowEffect DEF RemapRow, outcome
  <2>2. Known' = Known  BY <2>1, IdleKnown DEF HoldStep, Holding, Known
  <2> QED  BY <2>1, <2>2, OrderSame DEF HoldStep
<1>4. CASE RemapDependent  BY <1>4, DependentEffect, OrderDependent
<1>5. CASE FlushDequeue \/ DiscardEntry \/ DiscardLocal
  BY <1>5, OrderDequeue, OrderDiscardEntry, OrderDiscardLocal
<1>6. ASSUME FlushEnd \/ FlushUnauthorized \/ FlushAnswerLost \/ Kill PROVE OrderInv'
  <2>1. StopStep  BY <1>6, StopEffect
  <2>2. Known' \subseteq Known  BY <2>1, IdleKnown DEF StopStep, Known
  <2> QED  BY <2>1, <2>2, OrderSame DEF StopStep
<1>7. CASE HandleApiWrite  BY <1>7, OrderWrite
<1>8. ASSUME QueueCreate \/ ResolveRead PROVE OrderInv'
  <2>1. /\ UNCHANGED <<queue, nextKey, flush, cut, accepted, dropped>> /\ page.pc = "queue"
    BY <1>8 DEF QueueCreate, ResolveRead, local, outcome
  <2>2. page'.pc \in {"enqueue", "resolve"} /\ page'.req = page.req
    BY <1>8 DEF QueueCreate, ResolveRead, TypeInv, TypeOK, HandlersOK, Page
  <2>3. Known' = Known  BY <2>1 DEF Known, InPass
  <2> QED  BY <2>1, <2>2, <2>3, OrderSame
<1>9. CASE EnqueueCreate \/ QueueEdit \/ ResolveDelete \/ ResolveEdit
  BY <1>9, OrderEnqueue, OrderResolveDelete, OrderResolveEdit
<1>10. ASSUME Connect \/ Disconnect \/ Expire \/ Login \/ OtherDevice \/ MirrorReadResponse
              \/ (\E l \in RealIds : ReadList(l)) \/ UNCHANGED vars
       PROVE  OrderInv'
  <2>1. UNCHANGED <<queue, nextKey, page, flush, cut, accepted, dropped>>
    BY <1>10, OtherSteps
  <2> QED  BY <2>1, OrderSame DEF Known, InPass
<1> QED
  BY <1>1, <1>2, <1>3, <1>4, <1>5, <1>6, <1>7, <1>8, <1>9, <1>10
  DEF Next, FlushQueue, QueueOfflineWrite, World

\* At first there is no order to keep.
LEMMA OrderInit == Init => OrderInv
BY DEF Init, IdlePage, IdleFlush, OrderInv, Known, InPass

-----------------------------------------------------------------------------
(* The writes: part five *)

\* No write is lost, and what the server took of the entry at hand it has.
LandedInv ==
    /\ NoWriteLost
    /\ Delivered => flush.cur.ops \subseteq landed

\* Where the write r was accounted for it stays accounted for.
WriteKept ==
    /\ cut \subseteq cut' /\ landed \subseteq landed' /\ dropped \subseteq dropped'
    /\ OpsOf(queue) \subseteq OpsOf(queue') \cup landed' \cup dropped'

\* A step that accepts no write but one it queues, lands, drops or cuts.
LEMMA WritesAccounted ==
    ASSUME NoWriteLost, WriteKept,
           \A r \in accepted' : \/ r \in accepted
                                \/ r.row \in cut'
                                \/ r.op \in OpsOf(queue') \cup landed' \cup dropped'
    PROVE  NoWriteLost'
BY DEF NoWriteLost, WriteKept

\* The steps of a pass.
LEMMA LandedFlush ==
    ASSUME TypeInv, QueueInv, LandedInv,
           FlushStart \/ RemapRow \/ RemapDependent \/ FlushDequeue \/ DiscardEntry
           \/ DiscardLocal
    PROVE  LandedInv'
<1>0. UNCHANGED <<accepted, landed, cut>> /\ dropped \subseteq dropped'
  BY DEF FlushStart, RemapRow, RemapDependent, FlushDequeue, DiscardEntry, DiscardLocal, outcome
<1>1. CASE FlushStart
  <2>1. queue' = queue /\ ~Delivered'
    BY <1>1 DEF FlushStart, IdleFlush, local, Delivered
  <2> QED  BY <1>0, <2>1, WritesAccounted DEF LandedInv, WriteKept
<1>2. CASE RemapRow
  <2>1. queue' = queue /\ flush'.cur = flush.cur /\ (Delivered' => Delivered)
    BY <1>2, RemapRowEffect DEF HoldStep, Delivered
  <2> QED  BY <1>0, <2>1, WritesAccounted DEF LandedInv, WriteKept
<1>3. CASE RemapDependent
  <2>1. PICK d, f : DependentStep(d, f)  BY <1>3, DependentEffect
  <2>2. /\ queue' = (queue \ {d}) \cup {f} /\ f.ops = d.ops
        /\ flush'.cur = flush.cur /\ (Delivered' => Delivered)
    BY <2>1, DependentQueue DEF DependentStep, Delivered
  <2> QED  BY <1>0, <2>2, WritesAccounted DEF LandedInv, WriteKept, OpsOf
<1>4. CASE FlushDequeue
  <2>1. queue' = queue \ {flush.cur} /\ Delivered /\ ~Delivered'
    BY <1>4, QueueInvDequeue, NextEffect
    DEF FlushDequeue, NextStep, Delivered, TypeInv, FlushShape
  <2> QED  BY <1>0, <2>1, WritesAccounted DEF LandedInv, WriteKept, OpsOf
<1>5. CASE DiscardEntry
  <2>1. /\ queue' = queue \ {flush.cur} /\ ~Delivered'
        /\ dropped' = dropped \cup flush.cur.ops
    BY <1>5, QueueInvDiscardEntry, DiscardEntryEffect DEF DiscardEntry, HoldStep, Delivered
  <2> QED  BY <1>0, <2>1, WritesAccounted DEF LandedInv, WriteKept, OpsOf
<1>6. CASE DiscardLocal
  <2>1. /\ ~Delivered'
        /\ \/ queue' = queue
           \/ queue' = queue \ Dependents /\ dropped' = dropped \cup OpsOf(Dependents)
    BY <1>6, QueueInvDiscardLocal, DiscardLocalEffect DEF NextStep, Delivered
  <2> QED  BY <1>0, <2>1, WritesAccounted DEF LandedInv, WriteKept, OpsOf
<1> QED  BY <1>1, <1>2, <1>3, <1>4, <1>5, <1>6

\* What the page was told is in the queue, in the create it was folded into, or
\* refused; an edit of a row whose create is gone finds the row cut short.
LEMMA LandedPage ==
    ASSUME TypeInv, QueueInv, MirrorInv, LandedInv, ~Overlap,
           QueueOfflineWrite \/ HandleApiWrite
    PROVE  LandedInv'
<1> DEFINE r == page.req
<1>1. CASE HandleApiWrite
  <2>1. PICK q \in Requests : WriteOnline(q) \/ WriteFails(q) \/ WriteAnswerLost(q)
    BY <1>1 DEF HandleApiWrite
  <2>2. /\ UNCHANGED <<queue, flush, cut, accepted, dropped>> /\ landed \subseteq landed'
    BY <2>1 DEF WriteOnline, WriteFails, WriteAnswerLost, local, outcome
  <2>3. NoWriteLost'  BY <2>2, WritesAccounted DEF LandedInv, WriteKept
  <2> QED  BY <2>2, <2>3 DEF LandedInv, Delivered
<1>2. CASE QueueCreate \/ ResolveRead
  <2>1. UNCHANGED <<queue, flush, cut, accepted, landed, dropped>>
    BY <1>2 DEF QueueCreate, ResolveRead, local, outcome
  <2>2. NoWriteLost'  BY <2>1, WritesAccounted DEF LandedInv, WriteKept
  <2> QED  BY <2>1, <2>2 DEF LandedInv, Delivered
<1>3. CASE EnqueueCreate \/ QueueEdit
  <2>1. /\ UNCHANGED <<flush, cut, landed, dropped>> /\ accepted' = accepted \cup {r}
    BY <1>3 DEF EnqueueCreate, QueueEdit
  <2>2. PICK e : queue' = queue \cup {e} /\ e.ops = {r.op}
    <3>1. \A l : NewEntry(r, l).ops = {r.op}  BY DEF NewEntry
    <3>2. \E l : queue' = queue \cup {NewEntry(r, l)}  BY <1>3 DEF EnqueueCreate, QueueEdit
    <3> QED  BY <3>1, <3>2
  <2>3. OpsOf(queue') = OpsOf(queue) \cup {r.op}  BY <2>2 DEF OpsOf
  <2>4. NoWriteLost'  BY <2>1, <2>3, WritesAccounted DEF LandedInv, WriteKept
  <2> QED  BY <2>1, <2>4 DEF LandedInv, Delivered
<1>4. CASE ResolveDelete
  <2>1. /\ UNCHANGED <<flush, cut, landed>> /\ accepted' = accepted \cup {r}
        /\ dropped' = dropped \cup OpsOf(page.read) \cup {r.op}
        /\ queue' = Dequeue(Keys(page.read)) /\ page.pc = "resolve"
    BY <1>4 DEF ResolveDelete
  <2>2. queue \subseteq queue' \cup page.read
    BY <2>1 DEF Dequeue, Keys, QueueInv, KeysInv, PassInv, Known
  <2>3. NoWriteLost'
    BY <2>1, <2>2, WritesAccounted DEF LandedInv, WriteKept, OpsOf
  <2> QED  BY <2>1, <2>3 DEF LandedInv, Delivered
<1>5. CASE ResolveEdit
  <2>1. /\ UNCHANGED <<flush, cut, landed, dropped>> /\ accepted' = accepted \cup {r}
        /\ page.pc = "resolve"
    BY <1>5 DEF ResolveEdit
  <2>2. CASE Pending = {} /\ queue' = queue
    <3>1. InPass = {}  BY <2>1, IdleKnown DEF QueueInv, PassInv
    <3>2. PICK m \in mirror : m.id = r.row /\ m.id \in TempIds
      BY <2>1 DEF MirrorInv, HasRow, TypeInv, PageShape
    <3>3. \A e \in queue : ~IsCreate(e, r.row)
      BY <2>1, <2>2 DEF Pending, QueueInv, PassInv, IsCreate
    <3>4. r.row \in cut
      BY <2>1, <3>1, <3>2, <3>3 DEF MirrorInv, NoPhantom, IsCreate
    <3>5. NoWriteLost'
      BY <2>1, <2>2, <3>4, WritesAccounted DEF LandedInv, WriteKept
    <3> QED  BY <2>1, <3>5 DEF LandedInv, Delivered
  <2>3. ASSUME NEW e \in Pending, NEW f, FoldStep(e, f) PROVE LandedInv'
    <3>1. e \in queue /\ \A c \in queue : c.key = e.key => c = e
      BY <2>1, <2>3 DEF Pending, QueueInv, PassInv, KeysInv, Known
    <3>2. queue' = (queue \ {e}) \cup {f} /\ f.ops = e.ops \cup {r.op}
      BY <2>3, <3>1 DEF FoldStep, UpdateQueueEntry
    <3>3. OpsOf(queue') = OpsOf(queue) \cup {r.op}  BY <3>1, <3>2 DEF OpsOf
    <3>4. NoWriteLost'  BY <2>1, <3>3, WritesAccounted DEF LandedInv, WriteKept
    <3> QED  BY <2>1, <3>4 DEF LandedInv, Delivered
  <2> QED  BY <1>5, <2>2, <2>3, FoldEffect
<1> QED  BY <1>1, <1>2, <1>3, <1>4, <1>5 DEF QueueOfflineWrite

\* Every step keeps the fifth part.
LEMMA LandedStep ==
    ASSUME TypeInv, QueueInv, MirrorInv, LandedInv, ~Overlap, [Next]_vars
    PROVE  LandedInv'
<1>1. ASSUME FlushSend \/ FlushRefused PROVE LandedInv'
  <2>1. PICK f \in flush.snap : SendStep(f)  BY <1>1, SendEffect
  <2>2. /\ landed \subseteq landed' /\ UNCHANGED <<queue, cut, accepted, dropped>>
        /\ Delivered' => flush'.cur.ops \subseteq landed'
    BY <2>1 DEF SendStep, Delivered
  <2> QED  BY <2>2, WritesAccounted DEF LandedInv, WriteKept
<1>2. CASE FlushStart \/ RemapRow \/ RemapDependent \/ FlushDequeue \/ DiscardEntry
           \/ DiscardLocal
  BY <1>2, LandedFlush
<1>3. ASSUME FlushEnd \/ FlushUnauthorized \/ FlushAnswerLost \/ Kill PROVE LandedInv'
  <2>1. /\ cut \subseteq cut' /\ UNCHANGED <<queue, accepted, landed, dropped>>
        /\ ~Delivered'
    BY <1>3, StopEffect DEF StopStep, Delivered
  <2> QED  BY <2>1, WritesAccounted DEF LandedInv, WriteKept
<1>4. CASE QueueOfflineWrite \/ HandleApiWrite  BY <1>4, LandedPage
<1>5. ASSUME Connect \/ Disconnect \/ Expire \/ Login \/ OtherDevice \/ MirrorReadResponse
             \/ (\E l \in RealIds : ReadList(l)) \/ UNCHANGED vars
      PROVE  LandedInv'
  <2>1. UNCHANGED <<queue, flush, cut, accepted, landed, dropped>>  BY <1>5, OtherSteps
  <2>2. NoWriteLost'  BY <2>1, WritesAccounted DEF LandedInv, WriteKept
  <2> QED  BY <2>1, <2>2 DEF LandedInv, Delivered
<1> QED  BY <1>1, <1>2, <1>3, <1>4, <1>5 DEF Next, FlushQueue, World

\* At first nothing was accepted.
LEMMA LandedInit == Init => LandedInv
BY DEF Init, IdleFlush, LandedInv, NoWriteLost, Delivered

-----------------------------------------------------------------------------
(* What follows, when the page waits for the pass *)

IInv == TypeInv /\ QueueInv /\ CreditInv /\ MirrorInv /\ OrderInv /\ LandedInv

\* The five parts, and the types, for a page that waits for the pass.
LEMMA Invariance ==
    ASSUME ~Overlap
    PROVE  Spec => []IInv
<1>1. Init => IInv
  BY TypeInit, QueueInvInit, CreditInit, MirrorInit, OrderInit, LandedInit DEF IInv
<1>2. IInv /\ [Next]_vars => IInv'
  BY TypeStep, QueueInvStep, CreditStep, MirrorStep, OrderStep, LandedStep DEF IInv
<1> QED  BY <1>1, <1>2, PTL DEF Spec

\* A create reaches the server twice only when the outcome of an earlier delivery was
\* lost: flushQueue sends an entry again only because it could not dequeue it.
THEOREM CreatesAreNotRepeated ==
    ASSUME ~Overlap
    PROVE  Spec => []DuplicateOnlyAfterLoss
<1>1. IInv => DuplicateOnlyAfterLoss
  <2> SUFFICES ASSUME IInv, NEW t \in TempIds PROVE posts[t] <= 1 + lost[t]
    BY DEF DuplicateOnlyAfterLoss
  <2>1. posts[t] <= lost[t] + 1 /\ posts[t] \in Nat /\ lost[t] \in Nat
    BY DEF IInv, CreditInv, TypeInv, TypeOK, OutcomeOK
  <2> QED  BY <2>1
<1> QED  BY <1>1, Invariance, PTL

\* Every write that queueOfflineWrite answered 202 (or folded) is still queued, reached
\* the server, or was refused or cancelled, unless its row was cut short.
THEOREM WritesAreKept ==
    ASSUME ~Overlap
    PROVE  Spec => []NoWriteLost
<1>1. IInv => NoWriteLost  BY DEF IInv, LandedInv
<1> QED  BY <1>1, Invariance, PTL

\* Temporary ids do not outlive their creates: a temporary row is on its way or being
\* cleaned up, and no item is sent with a temporary list_id that remapTempId could
\* still have replaced.
THEOREM TempIdsAreResolved ==
    ASSUME ~Overlap
    PROVE  Spec => []TempIdsResolved
<1>1. IInv => NoPhantom  BY DEF IInv, MirrorInv
<1>2. IInv => NoOrphanedItem
  <2> SUFFICES ASSUME IInv, flush.pc = "answer", flush.cur.kind = "create",
                      flush.cur.list \in TempLists
               PROVE  \/ flush.cur.list \in cut
                      \/ \E r \in accepted : /\ r.row = flush.cur.list
                                             /\ r.kind = "create" /\ r.op \in dropped
    BY DEF NoOrphanedItem
  <2>1. TypeInv /\ QueueInv /\ Holding  BY DEF IInv, Holding
  <2>2. Settled(flush.cur.list, flush.cur.key)
    BY <2>1, AtHand DEF IInv, OrderInv
  <2>3. \A c \in queue : ~(c.key < flush.cur.key)
    <3> SUFFICES ASSUME NEW c \in queue, c.key < flush.cur.key PROVE FALSE  OBVIOUS
    <3>1. c \in Known /\ flush.cur \in Known /\ c.key \in Nat /\ flush.cur.key \in Nat
      BY <2>1, AtHand, KnownKeys DEF Known
    <3>2. c \in flush.snap
      BY <2>1, <3>1, IdleKnown DEF QueueInv, PassInv, Holding
    <3>3. flush.cur.key < c.key  BY <2>1, <3>2 DEF QueueInv, KeysInv
    <3> QED  BY <3>1, <3>3
  <2> QED  BY <2>2, <2>3 DEF Settled
<1>3. IInv => TempIdsResolved  BY <1>1, <1>2 DEF TempIdsResolved
<1> QED  BY <1>3, Invariance, PTL

\* A pass delivers in the order of the queue: nothing older is queued when an entry
\* reaches the server.
THEOREM PassIsInQueueOrder ==
    ASSUME ~Overlap
    PROVE  Spec => InQueueOrder
<1>1. IInv /\ [Next]_vars =>
         [flush.pc = "next" /\ flush'.pc = "answer"
            => \A e \in queue : e.key >= flush'.cur.key]_vars
  <2> SUFFICES ASSUME IInv, Next, flush.pc = "next", flush'.pc = "answer",
                      NEW e \in queue
               PROVE  e.key >= flush'.cur.key
    OBVIOUS
  <2>0. TypeInv /\ QueueInv  BY DEF IInv
  <2>1. FlushSend \/ FlushRefused
    <3>1. ~(FlushEnd \/ FlushUnauthorized \/ FlushAnswerLost \/ Kill)
      BY <2>0, StopEffect DEF StopStep
    <3>2. ~(Connect \/ Disconnect \/ Expire \/ Login \/ OtherDevice \/ MirrorReadResponse
            \/ (\E l \in RealIds : ReadList(l)))
      BY OtherSteps
    <3>3. ~(QueueOfflineWrite \/ HandleApiWrite)
      <4>1. HandleApiWrite => flush' = flush
        BY DEF HandleApiWrite, WriteOnline, WriteFails, WriteAnswerLost
      <4>2. QueueOfflineWrite => flush' = flush
        BY DEF QueueOfflineWrite, QueueCreate, EnqueueCreate, QueueEdit, ResolveRead,
               ResolveDelete, ResolveEdit
      <4> QED  BY <4>1, <4>2
    <3> QED
      BY <3>1, <3>2, <3>3
      DEF Next, FlushQueue, World, FlushStart, RemapRow, RemapDependent, FlushDequeue,
          DiscardEntry, DiscardLocal
  <2>2. PICK f \in flush.snap : SendStep(f)  BY <2>0, <2>1, SendEffect
  <2>3. e \in flush.snap /\ e \in Known /\ f \in Known
    BY <2>0, IdleKnown DEF Holding, Known, QueueInv, PassInv
  <2>4. e.key \in Nat /\ f.key \in Nat  BY <2>0, <2>3, KnownKeys
  <2> QED  BY <2>2, <2>3, <2>4 DEF SendStep
<1> QED  BY <1>1, Invariance, PTL DEF Spec, InQueueOrder

=============================================================================
