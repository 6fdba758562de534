--------------------------- MODULE ListPage_proofs ---------------------------
(***************************************************************************)
(* Proofs about the page of a list (ListPage), for any lists, items and    *)
(* selections and any number of acts, loads and faults: types, that what   *)
(* was undone is never sent, that toggles hand an item over from toast to  *)
(* toast without two of them sending it, and that the page ends up showing *)
(* what the server has.  The last rests on an invariant of every state,    *)
(* PagesInv: what is drawn of an item is the server's row, but for what    *)
(* still waits and what a request in progress will settle (ItemAgrees).    *)
(***************************************************************************)
EXTENDS ListPage, SequenceTheorems, TLAPS

-----------------------------------------------------------------------------
(* Types *)

Values == BOOLEAN \cup (1 .. MaxQuantity) \cup {None}

\* A list object holds the items of its list.
ListObjects ==
    {o \in [list : Lists, items : UNION {[ItemsOf(l) -> Object] : l \in Lists}] :
        o.items \in [ItemsOf(o.list) -> Object]}

Toast ==
    [id : Nat, kind : {"done", "delete"}, bulk : BOOLEAN, at : Nat, list : Lists \cup {None},
     ids : SUBSET Items, value : Values, before : UNION {[S -> Values] : S \in SUBSET Items}]

Requests ==
    [id : Nat, kind : {"done", "quantity", "delete", "open", "refresh"}, at : Nat,
     list : Lists \cup {None}, item : Items \cup {None}, value : Values, before : Values,
     pc : {"cache", "sent", "answered", "failed"},
     answer : Row \cup {None} \cup UNION {[ItemsOf(l) -> Row] : l \in Lists}, alone : BOOLEAN]

\* A toast is about items of the list object it was made for.
ToastShape(t) ==
    /\ t \in Toast
    /\ t.at \in DOMAIN heap /\ t.ids \subseteq ItemsOf(heap[t.at].list)
    /\ t.ids \subseteq DOMAIN t.before
    /\ t.kind = "done" => t.value \in BOOLEAN /\ \A i \in t.ids : t.before[i] \in BOOLEAN

\* A load has a list, any other request an item of the list object it was made for.
RequestShape(r) ==
    /\ r \in Requests
    /\ r.item = None =>
         /\ r.kind \in {"open", "refresh"} /\ r.list \in Lists /\ r.at \in 0 .. Len(heap)
         /\ r.pc = "answered" => r.answer \in [ItemsOf(r.list) -> Row]
    /\ r.item # None =>
         /\ r.kind \in {"done", "quantity", "delete"} /\ r.pc # "cache"
         /\ r.at \in DOMAIN heap /\ r.item \in ItemsOf(heap[r.at].list)
         /\ r.kind = "done" => r.value \in BOOLEAN /\ r.before \in BOOLEAN
         /\ r.kind = "quantity" => r.value \in 1 .. MaxQuantity /\ r.before \in 1 .. MaxQuantity
         /\ r.pc = "answered" => r.answer \in Row

ToggleShape(p) ==
    /\ p \in [at : Nat, item : Items, toast : Nat, before : BOOLEAN]
    /\ p.at \in DOMAIN heap /\ p.item \in ItemsOf(heap[p.at].list)

QuantityShape(p) ==
    /\ p \in [at : Nat, item : Items, request : Nat, before : 1 .. MaxQuantity]
    /\ p.at \in DOMAIN heap /\ p.item \in ItemsOf(heap[p.at].list)

ServerInv ==
    /\ server \in [Items -> Row]
    /\ mirror \in [Lists -> {None} \cup UNION {[ItemsOf(l) -> Row] : l \in Lists}]
    /\ \A l \in Lists : mirror[l] = None \/ mirror[l] \in [ItemsOf(l) -> Row]

PageInv ==
    /\ heap \in Seq(ListObjects)
    /\ currentListId \in Lists \cup {None} /\ currentList \in 0 .. Len(heap)
    /\ listShown \in BOOLEAN
    /\ seq \in Nat /\ astray \subseteq Items /\ dropped \subseteq Items

WaitingInv ==
    /\ \A t \in toasts : ToastShape(t)
    /\ \A p \in pendingToggles : ToggleShape(p)
    /\ \A p \in pendingQuantityUpdates : QuantityShape(p)

RequestsInv == \A r \in requests : RequestShape(r)

TypeInv == ServerInv /\ PageInv /\ WaitingInv /\ RequestsInv

\* An item object is made of a row.
LEMMA ObjectType ==
    /\ \A row \in Row : ObjectOf(row) \in Object
    /\ \A l \in Lists : \A rows \in [ItemsOf(l) -> Row] : ListObject(l, rows) \in ListObjects
<1>1. ASSUME NEW row \in Row PROVE ObjectOf(row) \in Object
  BY DEF ObjectOf, Row, Object
<1>2. ASSUME NEW l \in Lists, NEW rows \in [ItemsOf(l) -> Row]
      PROVE  ListObject(l, rows) \in ListObjects
  <2>1. [i \in DOMAIN rows |-> ObjectOf(rows[i])] \in [ItemsOf(l) -> Object]  BY <1>1
  <2> QED  BY <2>1 DEF ListObject, ListObjects
<1> QED  BY <1>1, <1>2

\* The list objects are kept, and keep their lists.
HeapKept ==
    /\ heap' \in Seq(ListObjects) /\ Len(heap) <= Len(heap')
    /\ \A n \in 1 .. Len(heap) : heap'[n].list = heap[n].list

\* What is known of the objects.
LEMMA HeapObjects ==
    ASSUME PageInv, NEW n \in DOMAIN heap
    PROVE  /\ n \in 1 .. Len(heap) /\ heap[n] \in ListObjects /\ heap[n].list \in Lists
           /\ heap[n].items \in [ItemsOf(heap[n].list) -> Object]
           /\ DOMAIN heap[n].items = ItemsOf(heap[n].list)
           /\ ItemsOf(heap[n].list) \subseteq Items
<1>1. n \in 1 .. Len(heap) /\ heap[n] \in ListObjects
  BY LenProperties, ElementOfSeq DEF PageInv
<1>2. heap[n].list \in Lists /\ heap[n].items \in [ItemsOf(heap[n].list) -> Object]
  BY <1>1 DEF ListObjects
<1> QED  BY <1>1, <1>2 DEF ItemsOf

\* Changing the items of one object.
LEMMA HeapChanged ==
    ASSUME PageInv, NEW at \in DOMAIN heap, NEW items \in [ItemsOf(heap[at].list) -> Object],
           heap' = [heap EXCEPT ![at].items = items]
    PROVE  HeapKept /\ Len(heap') = Len(heap)
<1>1. heap[at] \in ListObjects /\ heap \in [1 .. Len(heap) -> ListObjects]
  BY HeapObjects DEF PageInv
<1> DEFINE o == [heap[at] EXCEPT !.items = items]
<1>2. o \in ListObjects /\ o.list = heap[at].list
  BY <1>1, HeapObjects DEF ListObjects
<1>3. heap' = [heap EXCEPT ![at] = o]  OBVIOUS
<1> HIDE DEF o
<1>4. heap' \in Seq(ListObjects) /\ Len(heap') = Len(heap)
  BY <1>1, <1>2, <1>3, ExceptSeq DEF PageInv
<1>5. \A n \in 1 .. Len(heap) : heap'[n].list = heap[n].list
  BY <1>1, <1>2, <1>3
<1> QED  BY <1>4, <1>5, LenProperties DEF HeapKept, PageInv

\* Making a new one.
LEMMA HeapGrows ==
    ASSUME PageInv, NEW o \in ListObjects, heap' = Append(heap, o)
    PROVE  HeapKept /\ Len(heap') = Len(heap) + 1
BY AppendProperties, LenProperties DEF HeapKept, PageInv

\* A step that leaves the objects of the page.
LEMMA HeapSame ==
    ASSUME PageInv, heap' = heap
    PROVE  HeapKept /\ Len(heap') = Len(heap)
BY LenProperties DEF HeapKept, PageInv

\* What refers to the objects goes on doing so.
LEMMA ShapesKept ==
    ASSUME PageInv, HeapKept
    PROVE  /\ \A t : ToastShape(t) => ToastShape(t)'
           /\ \A r : RequestShape(r) => RequestShape(r)'
           /\ \A p : ToggleShape(p) => ToggleShape(p)'
           /\ \A p : QuantityShape(p) => QuantityShape(p)'
<1>1. /\ DOMAIN heap = 1 .. Len(heap) /\ DOMAIN heap' = 1 .. Len(heap')
      /\ Len(heap) \in Nat /\ Len(heap') \in Nat /\ Len(heap) <= Len(heap')
      /\ \A n \in 1 .. Len(heap) : heap'[n].list = heap[n].list
  BY LenProperties DEF PageInv, HeapKept
<1>2. \A n \in DOMAIN heap : n \in DOMAIN heap' /\ heap'[n].list = heap[n].list
  BY <1>1
<1> QED
  BY <1>1, <1>2 DEF ToastShape, RequestShape, ToggleShape, QuantityShape

\* The visible items are items of the open list object.
LEMMA VisibleItems ==
    ASSUME TypeInv, NEW i \in Visible
    PROVE  /\ currentList \in DOMAIN heap /\ i \in ItemsOf(heap[currentList].list)
           /\ i \in Items /\ Shown(i) \in Object
<1>1. listShown /\ currentList # 0 /\ i \in DOMAIN heap[currentList].items
  BY DEF Visible
<1>2. currentList \in DOMAIN heap  BY <1>1, LenProperties DEF TypeInv, PageInv
<1> QED  BY <1>1, <1>2, HeapObjects DEF TypeInv, Shown

\* The steps that only add to the waiting and to the requests.
LEMMA WaitingKept ==
    ASSUME TypeInv, HeapKept,
           \A t \in toasts' : t \in toasts \/ ToastShape(t)',
           \A p \in pendingToggles' : p \in pendingToggles \/ ToggleShape(p)',
           \A p \in pendingQuantityUpdates' : p \in pendingQuantityUpdates \/ QuantityShape(p)'
    PROVE  WaitingInv'
BY ShapesKept DEF TypeInv, WaitingInv

\* The requests in progress stay typed when the page's objects do.
LEMMA RequestsKept ==
    ASSUME TypeInv, HeapKept,
           \A r \in requests' : r \in requests \/ r \in NotAlone(requests) \/ RequestShape(r)'
    PROVE  RequestsInv'
<1>1. ASSUME NEW r \in NotAlone(requests) PROVE RequestShape(r)
  <2>1. PICK q \in requests : r = [q EXCEPT !.alone = FALSE]  BY DEF NotAlone
  <2>2. RequestShape(q)  BY DEF TypeInv, RequestsInv
  <2>3. q \in Requests  BY <2>2 DEF RequestShape
  <2>4. r \in Requests /\ r.item = q.item /\ r.kind = q.kind /\ r.list = q.list /\ r.at = q.at
        /\ r.pc = q.pc /\ r.answer = q.answer /\ r.value = q.value /\ r.before = q.before
    BY <2>1, <2>3 DEF Requests
  <2> QED  BY <2>2, <2>4 DEF RequestShape
<1> QED  BY <1>1, ShapesKept DEF TypeInv, RequestsInv

\* So does what the page shows.
LEMMA PageKept ==
    ASSUME TypeInv, HeapKept, seq' = seq \/ seq' = seq + 1,
           \/ UNCHANGED <<currentListId, currentList, listShown>>
           \/ /\ currentListId' \in Lists \cup {None} /\ currentList' \in 0 .. Len(heap')
              /\ listShown' \in BOOLEAN,
           astray' \subseteq Items, dropped' \subseteq Items
    PROVE  PageInv'
<1>1. /\ currentListId \in Lists \cup {None} /\ currentList \in 0 .. Len(heap)
      /\ listShown \in BOOLEAN /\ seq \in Nat /\ Len(heap) \in Nat
  BY LenProperties DEF TypeInv, PageInv
<1>2. heap' \in Seq(ListObjects) /\ Len(heap') \in Nat /\ Len(heap) <= Len(heap')
  BY LenProperties DEF HeapKept
<1>3. currentList' \in 0 .. Len(heap')  BY <1>1, <1>2
<1>4. seq' \in Nat  BY <1>1
<1> QED  BY <1>1, <1>2, <1>3, <1>4 DEF PageInv

\* Checking items, or unchecking them, at once.
LEMMA TypeToggle ==
    ASSUME TypeInv, NEW S \in SUBSET Items, NEW bulk \in BOOLEAN, Toggle(S, bulk)
    PROVE  TypeInv'
<1> DEFINE value == ~\A i \in S : Shown(i).done
           before == [i \in S |-> IF Pending(currentList, i) = {} THEN Shown(i).done
                                  ELSE (CHOOSE p \in Pending(currentList, i) : TRUE).before]
           entries == {i \in S : before[i] # value}
           toast == [id |-> seq + 1, kind |-> "done", bulk |-> bulk, at |-> currentList,
                     list |-> currentListId, ids |-> entries, value |-> value,
                     before |-> before]
           items == [i \in DOMAIN heap[currentList].items |->
                        IF i \in S THEN [heap[currentList].items[i] EXCEPT !.done = value]
                        ELSE heap[currentList].items[i]]
<1>0. TypeInv /\ PageInv /\ seq \in Nat  BY DEF TypeInv, PageInv
<1>1. /\ currentList \in DOMAIN heap /\ S \subseteq ItemsOf(heap[currentList].list)
      /\ \A i \in S : Shown(i) \in Object
  BY VisibleItems DEF Toggle
<1>2. /\ currentList \in Nat /\ currentListId \in Lists \cup {None}
  BY DEF TypeInv, PageInv
<1>3. value \in BOOLEAN  OBVIOUS
<1>4. before \in [S -> BOOLEAN]
  <2> SUFFICES ASSUME NEW i \in S
               PROVE  IF Pending(currentList, i) = {} THEN Shown(i).done \in BOOLEAN
                      ELSE (CHOOSE p \in Pending(currentList, i) : TRUE).before \in BOOLEAN
    OBVIOUS
  <2>1. \A p \in Pending(currentList, i) : p.before \in BOOLEAN
    BY DEF Pending, TypeInv, WaitingInv, ToggleShape
  <2> QED  BY <1>1, <2>1 DEF Object
<1>5. heap' = [heap EXCEPT ![currentList].items = items]
  BY DEF Toggle, Changed
<1>6. \A t \in toasts' : t \in toasts \/ t = toast
  BY DEF Toggle
<1>7. \A p \in pendingToggles' : p \in pendingToggles \/ \E i \in entries :
          p = [at |-> currentList, item |-> i, toast |-> seq + 1, before |-> before[i]]
  BY DEF Toggle, Without
<1>8. /\ UNCHANGED <<server, mirror, currentListId, currentList, listShown,
                     pendingQuantityUpdates, astray, dropped>>
      /\ seq' = seq + 1 /\ requests' = NotAlone(requests)
  BY DEF Toggle
<1>9. items \in [ItemsOf(heap[currentList].list) -> Object]
  BY <1>0, <1>1, <1>3, HeapObjects DEF Object
<1> HIDE DEF value, before, items
<1>10. HeapKept /\ Len(heap') = Len(heap)  BY <1>0, <1>1, <1>5, <1>9, HeapChanged
<1>11. ToastShape(toast)
  <2>1. before \in [S -> Values] /\ value \in Values  BY <1>3, <1>4 DEF Values
  <2>2. toast \in Toast  BY <1>0, <1>2, <2>1 DEF Toast
  <2>3. entries \subseteq S /\ DOMAIN before = S  BY <1>4
  <2> HIDE DEF entries
  <2> QED  BY <1>1, <1>3, <1>4, <2>2, <2>3 DEF ToastShape
<1>12. \A i \in entries :
          ToggleShape([at |-> currentList, item |-> i, toast |-> seq + 1, before |-> before[i]])
  BY <1>0, <1>1, <1>2, <1>4 DEF ToggleShape
<1> HIDE DEF entries, toast
<1>13. WaitingInv'
  BY <1>0, <1>6, <1>7, <1>8, <1>10, <1>11, <1>12, ShapesKept, WaitingKept
<1>14. RequestsInv'  BY <1>0, <1>8, <1>10, RequestsKept
<1>15. ServerInv'  BY <1>8 DEF TypeInv, ServerInv
<1>16. PageInv'
  <2>1. astray \subseteq Items /\ dropped \subseteq Items  BY DEF TypeInv, PageInv
  <2> QED  BY <1>8, <1>10, <2>1, PageKept
<1> QED  BY <1>13, <1>14, <1>15, <1>16 DEF TypeInv

\* An item object stays one, whatever is changed in it.
LEMMA ObjectChanges ==
    ASSUME NEW o \in Object
    PROVE  /\ \A b \in BOOLEAN : /\ [o EXCEPT !.done = b] \in Object
                                  /\ [o EXCEPT !.hidden = b] \in Object
                                  /\ [o EXCEPT !.there = b] \in Object
           /\ \A q \in 1 .. MaxQuantity : [o EXCEPT !.quantity = q] \in Object
           /\ \A row \in Row : Merge(o, row) \in Object
           /\ PutBack(o) \in Object
<1>1. \A b \in BOOLEAN : /\ [o EXCEPT !.done = b] \in Object
                         /\ [o EXCEPT !.hidden = b] \in Object
                         /\ [o EXCEPT !.there = b] \in Object
  BY DEF Object
<1>2. \A q \in 1 .. MaxQuantity : [o EXCEPT !.quantity = q] \in Object
  BY DEF Object
<1>3. \A row \in Row : Merge(o, row) \in Object
  BY DEF Object, Row, Merge
<1>4. PutBack(o) \in Object
  BY DEF Object, PutBack
<1> QED  BY <1>1, <1>2, <1>3, <1>4

\* Taking items off the page.
LEMMA TypeRemove ==
    ASSUME TypeInv, NEW S \in SUBSET Items, NEW bulk \in BOOLEAN, Remove(S, bulk)
    PROVE  TypeInv'
<1> DEFINE l == heap[currentList].list
           before == [i \in S |-> None]
           toast == [id |-> seq + 1, kind |-> "delete", bulk |-> bulk, at |-> currentList,
                     list |-> l, ids |-> S, value |-> None, before |-> before]
           items == [i \in DOMAIN heap[currentList].items |->
                        IF i \in S THEN [heap[currentList].items[i] EXCEPT !.hidden = TRUE]
                        ELSE heap[currentList].items[i]]
<1>0. PageInv /\ seq \in Nat /\ astray \subseteq Items /\ dropped \subseteq Items
  BY DEF TypeInv, PageInv
<1>1. S # {} /\ S \subseteq Visible  BY DEF Remove
<1>2. currentList \in DOMAIN heap /\ S \subseteq ItemsOf(l)
  BY <1>1, VisibleItems
<1>3. l \in Lists /\ currentList \in Nat  BY <1>0, <1>2, HeapObjects
<1>4. heap' = [heap EXCEPT ![currentList].items = items]
  BY DEF Remove, Changed
<1>5. items \in [ItemsOf(l) -> Object]
  <2>1. /\ DOMAIN heap[currentList].items = ItemsOf(l)
        /\ \A i \in ItemsOf(l) : heap[currentList].items[i] \in Object
    BY <1>0, <1>2, HeapObjects
  <2> HIDE DEF l
  <2> QED  BY <2>1, ObjectChanges
<1> HIDE DEF items
<1>6. HeapKept  BY <1>0, <1>2, <1>4, <1>5, HeapChanged
<1>7. ToastShape(toast)
  <2>1. before \in [S -> Values]  BY DEF Values
  <2>2. toast \in Toast  BY <1>0, <1>3, <2>1 DEF Toast, Values
  <2> QED  BY <1>2, <2>2 DEF ToastShape
<1>8. /\ \A t \in toasts' : t \in toasts \/ t = toast
      /\ pendingToggles' \subseteq pendingToggles
      /\ UNCHANGED <<server, mirror, currentListId, currentList, listShown,
                     pendingQuantityUpdates, astray>>
      /\ seq' = seq + 1 /\ requests' = NotAlone(requests) /\ dropped' \subseteq dropped \cup S
  BY DEF Remove, Without
<1> HIDE DEF toast, l
<1>9. WaitingInv'  BY <1>0, <1>6, <1>7, <1>8, ShapesKept, WaitingKept
<1>10. RequestsInv'  BY <1>6, <1>8, RequestsKept
<1>11. ServerInv'  BY <1>8 DEF TypeInv, ServerInv
<1>12. PageInv'  BY <1>0, <1>6, <1>8, PageKept
<1> QED  BY <1>9, <1>10, <1>11, <1>12 DEF TypeInv

\* A request made from its parts.
LEMMA RequestMade ==
    ASSUME TypeInv,
           NEW kind \in {"done", "quantity", "delete"}, NEW at \in DOMAIN heap,
           NEW list \in Lists \cup {None}, NEW item \in ItemsOf(heap[at].list),
           NEW value \in Values, NEW id \in Nat, NEW before \in Values,
           kind = "done" => value \in BOOLEAN /\ before \in BOOLEAN,
           kind = "quantity" => value \in 1 .. MaxQuantity /\ before \in 1 .. MaxQuantity,
           NEW r, r = Request(id, kind, at, list, item, value, before)
    PROVE  RequestShape(r)
<1>1. r = [id |-> id, kind |-> kind, at |-> at, list |-> list, item |-> item, value |-> value,
           before |-> before, pc |-> "sent", answer |-> None, alone |-> FALSE]
  BY DEF Request
<1>2. at \in Nat /\ item \in Items /\ item # None
  BY HeapObjects, ListPageAssumption DEF TypeInv
<1>3. r \in Requests  BY <1>1, <1>2 DEF Requests
<1> QED  BY <1>1, <1>2, <1>3 DEF RequestShape

\* Changing a quantity.
LEMMA TypeChangeQuantity ==
    ASSUME TypeInv, NEW i \in Items, NEW quantity \in 1 .. MaxQuantity,
           ChangeQuantity(i, quantity)
    PROVE  TypeInv'
<1> DEFINE mine == {p \in pendingQuantityUpdates : p.at = currentList /\ p.item = i}
           before == IF mine = {} THEN Shown(i).quantity ELSE (CHOOSE p \in mine : TRUE).before
           pending == [at |-> currentList, item |-> i, request |-> seq + 1, before |-> before]
           r == Request(seq + 1, "quantity", currentList, ListOf[i], i, quantity, before)
           items == [j \in DOMAIN heap[currentList].items |->
                        IF j \in {i}
                        THEN [heap[currentList].items[j] EXCEPT !.quantity = quantity]
                        ELSE heap[currentList].items[j]]
<1>0. PageInv /\ seq \in Nat /\ astray \subseteq Items /\ dropped \subseteq Items
  BY DEF TypeInv, PageInv
<1>1. currentList \in DOMAIN heap /\ i \in ItemsOf(heap[currentList].list) /\ Shown(i) \in Object
  BY VisibleItems DEF ChangeQuantity
<1>2. before \in 1 .. MaxQuantity
  <2>1. \A p \in mine : p.before \in 1 .. MaxQuantity
    BY DEF TypeInv, WaitingInv, QuantityShape
  <2> QED  BY <1>1, <2>1 DEF Object
<1>3. heap' = [heap EXCEPT ![currentList].items = items]
  BY DEF ChangeQuantity, Changed
<1>4. items \in [ItemsOf(heap[currentList].list) -> Object]
  <2>1. /\ DOMAIN heap[currentList].items = ItemsOf(heap[currentList].list)
        /\ \A j \in ItemsOf(heap[currentList].list) : heap[currentList].items[j] \in Object
    BY <1>0, <1>1, HeapObjects
  <2> QED  BY <2>1, ObjectChanges
<1> HIDE DEF items
<1>5. HeapKept  BY <1>0, <1>1, <1>3, <1>4, HeapChanged
<1>6. /\ \A p \in pendingQuantityUpdates' : p \in pendingQuantityUpdates \/ p = pending
      /\ requests' = NotAlone(requests) \cup {r}
      /\ astray' = astray \cup Crossed({i}) /\ seq' = seq + 1
      /\ UNCHANGED <<server, mirror, currentListId, currentList, listShown, toasts,
                     pendingToggles, dropped>>
  BY DEF ChangeQuantity
<1> HIDE DEF mine, before
<1>7. currentList \in Nat  BY <1>0, <1>1, HeapObjects
<1>8. QuantityShape(pending)  BY <1>0, <1>1, <1>2, <1>7 DEF QuantityShape
<1>9. RequestShape(r)
  <2>2. /\ ListOf[i] \in Lists \cup {None} /\ seq + 1 \in Nat
        /\ quantity \in Values /\ before \in Values
    BY <1>0, <1>2, ListPageAssumption DEF Values
  <2> QED  BY <1>1, <1>2, <2>2, RequestMade
<1> HIDE DEF r, pending
<1>10. WaitingInv'  BY <1>0, <1>5, <1>6, <1>8, ShapesKept, WaitingKept
<1>11. RequestsInv'  BY <1>0, <1>5, <1>6, <1>9, ShapesKept, RequestsKept
<1>12. ServerInv'  BY <1>6 DEF TypeInv, ServerInv
<1>13. PageInv'  BY <1>0, <1>5, <1>6, PageKept DEF Crossed
<1> QED  BY <1>10, <1>11, <1>12, <1>13 DEF TypeInv

\* A toast undoes items of the list it was shown on.
LEMMA OwnedItems ==
    ASSUME TypeInv, NEW t \in toasts
    PROVE  ToastShape(t) /\ Owned(t) \subseteq t.ids /\ t.at \in DOMAIN heap
           /\ Owned(t) \subseteq Items
BY DEF TypeInv, WaitingInv, ToastShape, Toast, Owned

\* Undoing.
LEMMA TypeUndo ==
    ASSUME TypeInv, NEW t \in toasts, Undo(t)
    PROVE  TypeInv'
<1> DEFINE Restored(i, o) == IF t.kind = "delete" THEN [o EXCEPT !.hidden = FALSE]
                             ELSE [o EXCEPT !.done = t.before[i]]
           items == [i \in DOMAIN heap[t.at].items |->
                        IF i \in Owned(t) THEN Restored(i, heap[t.at].items[i])
                        ELSE heap[t.at].items[i]]
<1>0. PageInv /\ astray \subseteq Items /\ dropped \subseteq Items
  BY DEF TypeInv, PageInv
<1>1. ToastShape(t) /\ Owned(t) \subseteq t.ids /\ t.at \in DOMAIN heap  BY OwnedItems
<1>2. heap' = [heap EXCEPT ![t.at].items = items]  BY DEF Undo
<1>3. t.kind # "delete" => \A i \in Owned(t) : t.before[i] \in BOOLEAN
  BY <1>1 DEF ToastShape, Toast
<1>4. items \in [ItemsOf(heap[t.at].list) -> Object]
  <2>1. /\ DOMAIN heap[t.at].items = ItemsOf(heap[t.at].list)
        /\ \A j \in ItemsOf(heap[t.at].list) : heap[t.at].items[j] \in Object
    BY <1>0, <1>1, HeapObjects
  <2> QED  BY <1>3, <2>1, ObjectChanges
<1> HIDE DEF items
<1>5. HeapKept  BY <1>0, <1>1, <1>2, <1>4, HeapChanged
<1>6. /\ toasts' \subseteq toasts /\ pendingToggles' \subseteq pendingToggles
      /\ UNCHANGED <<server, mirror, currentListId, currentList, listShown,
                     pendingQuantityUpdates, requests, seq, astray, dropped>>
  BY DEF Undo, Closed, Without
<1>7. WaitingInv'  BY <1>5, <1>6, WaitingKept
<1>8. RequestsInv'  BY <1>5, <1>6, RequestsKept
<1>9. ServerInv'  BY <1>6 DEF TypeInv, ServerInv
<1>10. PageInv'  BY <1>0, <1>5, <1>6, PageKept
<1> QED  BY <1>7, <1>8, <1>9, <1>10 DEF TypeInv

\* Sending what a toast held back.
LEMMA TypeCommit ==
    ASSUME TypeInv, NEW t \in toasts, Commit(t)
    PROVE  TypeInv'
<1> DEFINE R(i) == Request(t.id, t.kind, t.at, t.list, i, t.value, t.before[i])
           items == [i \in DOMAIN heap[t.at].items |->
                        IF i \in t.ids THEN [heap[t.at].items[i] EXCEPT !.there = FALSE]
                        ELSE heap[t.at].items[i]]
<1>0. PageInv /\ astray \subseteq Items /\ dropped \subseteq Items
  BY DEF TypeInv, PageInv
<1>1. /\ ToastShape(t) /\ Owned(t) \subseteq t.ids /\ t.at \in DOMAIN heap
      /\ Owned(t) \subseteq Items
  BY OwnedItems
<1>2. heap' = heap \/ heap' = [heap EXCEPT ![t.at].items = items]
  BY DEF Commit, Changed
<1>3. items \in [ItemsOf(heap[t.at].list) -> Object]
  <2>1. /\ DOMAIN heap[t.at].items = ItemsOf(heap[t.at].list)
        /\ \A j \in ItemsOf(heap[t.at].list) : heap[t.at].items[j] \in Object
    BY <1>0, <1>1, HeapObjects
  <2> QED  BY <2>1, ObjectChanges
<1> HIDE DEF items
<1>4. HeapKept  BY <1>0, <1>1, <1>2, <1>3, HeapChanged, HeapSame
<1>5. /\ toasts' \subseteq toasts /\ pendingToggles' \subseteq pendingToggles
      /\ requests' = NotAlone(requests) \cup {R(i) : i \in Owned(t)}
      /\ astray' \subseteq astray \cup Owned(t)
      /\ UNCHANGED <<server, mirror, currentListId, currentList, listShown,
                     pendingQuantityUpdates, seq, dropped>>
  BY DEF Commit, Closed, Without, Crossed
<1>6. ASSUME NEW i \in Owned(t) PROVE RequestShape(R(i))
  <2>1. /\ t \in Toast /\ i \in ItemsOf(heap[t.at].list) /\ i \in DOMAIN t.before
        /\ t.kind = "done" => t.value \in BOOLEAN /\ t.before[i] \in BOOLEAN
    BY <1>1 DEF ToastShape
  <2>2. /\ t.kind \in {"done", "delete"} /\ t.list \in Lists \cup {None} /\ t.value \in Values
        /\ t.id \in Nat /\ t.before[i] \in Values
    BY <2>1 DEF Toast
  <2> QED  BY <1>1, <2>1, <2>2, RequestMade
<1> HIDE DEF R
<1>7. WaitingInv'  BY <1>4, <1>5, WaitingKept
<1>8. RequestsInv'  BY <1>0, <1>4, <1>5, <1>6, ShapesKept, RequestsKept
<1>9. ServerInv'  BY <1>5 DEF TypeInv, ServerInv
<1>10. PageInv'  BY <1>0, <1>1, <1>4, <1>5, PageKept
<1> QED  BY <1>7, <1>8, <1>9, <1>10 DEF TypeInv

\* Making a load: its request, and what it marks.
LEMMA LoadMade ==
    ASSUME TypeInv, NEW kind \in {"open", "refresh"}, NEW l \in Lists,
           NEW at \in 0 .. Len(heap), NEW pc \in {"cache", "sent"}, NEW alone \in BOOLEAN
    PROVE  /\ RequestShape(Load(kind, l, at, pc, alone))
           /\ Load(kind, l, at, pc, alone).list = l
           /\ CrossedBy(l) \subseteq Items
<1> DEFINE r == [id |-> seq + 1, kind |-> kind, at |-> at, list |-> l, item |-> None,
                 value |-> None, before |-> None, pc |-> pc, answer |-> None, alone |-> alone]
<1>1. r = Load(kind, l, at, pc, alone)  BY DEF Load
<1>2. seq \in Nat /\ Len(heap) \in Nat  BY LenProperties DEF TypeInv, PageInv
<1>3. at \in Nat  BY <1>2
<1>4. r \in Requests  BY <1>2, <1>3 DEF Requests, Values
<1>5. RequestShape(r)  BY <1>4 DEF RequestShape
<1>6. r.list = l  OBVIOUS
<1> HIDE DEF r
<1> QED  BY <1>1, <1>5, <1>6 DEF CrossedBy, ItemsOf

\* A step that only starts a load.
LEMMA TypeStart ==
    ASSUME TypeInv, NEW kind \in {"open", "refresh"}, NEW l \in Lists,
           NEW at \in 0 .. Len(heap), NEW pc \in {"cache", "sent"}, NEW alone \in BOOLEAN,
           Start(Load(kind, l, at, pc, alone)),
           UNCHANGED <<server, mirror, page, pendings, dropped>>
    PROVE  TypeInv'
<1>1. PICK r : r = Load(kind, l, at, pc, alone)  OBVIOUS
<1>2. /\ RequestShape(r) /\ CrossedBy(l) \subseteq Items
      /\ requests' = NotAlone(requests) \cup {r} /\ seq' = seq + 1
      /\ astray' = astray \cup CrossedBy(l)
  BY <1>1, LoadMade DEF Start
<1>3. UNCHANGED <<server, mirror, heap, currentListId, currentList, listShown, toasts,
                  pendingToggles, pendingQuantityUpdates, dropped>>
  BY DEF page, pendings
<1>4. PageInv /\ astray \subseteq Items /\ dropped \subseteq Items  BY DEF TypeInv, PageInv
<1>5. HeapKept  BY <1>3, <1>4, HeapSame
<1>6. WaitingInv'  BY <1>3, <1>5, WaitingKept
<1>7. RequestShape(r)'  BY <1>2, <1>4, <1>5, ShapesKept
<1>8. RequestsInv'  BY <1>2, <1>5, <1>7, RequestsKept
<1>9. ServerInv'  BY <1>3 DEF TypeInv, ServerInv
<1>10. PageInv'  BY <1>2, <1>3, <1>4, <1>5, PageKept
<1> QED  BY <1>6, <1>8, <1>9, <1>10 DEF TypeInv

\* Opening a list.
LEMMA TypeSelectList ==
    ASSUME TypeInv, NEW l \in Lists, SelectList(l)
    PROVE  TypeInv'
<1>1. Alone \in BOOLEAN /\ 0 \in 0 .. Len(heap)
  BY LenProperties DEF Alone, TypeInv, PageInv
<1>2. /\ Start(Load("open", l, 0, "cache", Alone))
      /\ UNCHANGED <<server, mirror, page, pendings, dropped>>
  BY DEF SelectList
<1> QED  BY <1>1, <1>2, TypeStart

\* Asking for the list anew.
LEMMA TypeRefresh ==
    ASSUME TypeInv, Refresh
    PROVE  TypeInv'
<1>1. Alone \in BOOLEAN /\ currentList \in 0 .. Len(heap) /\ currentListId \in Lists
  BY DEF Alone, TypeInv, PageInv, Refresh
<1>2. /\ Start(Load("refresh", currentListId, currentList, "sent", Alone))
      /\ UNCHANGED <<server, mirror, page, pendings, dropped>>
  BY DEF Refresh
<1> QED  BY <1>1, <1>2, TypeStart

\* The items of toasts.
LEMMA ToastItems ==
    ASSUME TypeInv
    PROVE  InToasts \subseteq Items
<1>1. ASSUME NEW t \in toasts PROVE t.ids \subseteq Items
  BY DEF TypeInv, WaitingInv, ToastShape, Toast
<1>2. ASSUME NEW i \in InToasts PROVE i \in Items
  <2>1. PICK t \in toasts : i \in t.ids  BY <1>2 DEF InToasts
  <2> QED  BY <1>1, <2>1
<1> QED  BY <1>2

\* Showing the copy kept on the device.
LEMMA TypePaint ==
    ASSUME TypeInv, NEW r \in requests, Paint(r)
    PROVE  TypeInv'
<1>0. PageInv /\ astray \subseteq Items /\ dropped \subseteq Items  BY DEF TypeInv, PageInv
<1>1. RequestShape(r) /\ r.pc = "cache"  BY DEF Paint, TypeInv, RequestsInv
<1>2. r \in Requests /\ r.item = None /\ r.list \in Lists /\ r.kind \in {"open", "refresh"}
  BY <1>1 DEF RequestShape
<1>3. UNCHANGED <<server, mirror, toasts, pendingToggles, pendingQuantityUpdates, seq, dropped>>
  BY DEF Paint, pendings
<1>4. /\ HeapKept /\ PageInv'
      /\ (mirror[r.list] = None \/ Len(heap') \in 0 .. Len(heap'))
  <2>1. CASE mirror[r.list] = None
    <3>1. /\ UNCHANGED <<heap, currentListId, currentList>> /\ astray' = astray
          /\ listShown' = TRUE
      BY <2>1 DEF Paint
    <3>2. HeapKept  BY <1>0, <3>1, HeapSame
    <3>3. /\ currentListId' \in Lists \cup {None} /\ currentList' \in 0 .. Len(heap')
          /\ listShown' \in BOOLEAN
      BY <3>1 DEF TypeInv, PageInv
    <3> QED  BY <1>0, <1>3, <2>1, <3>1, <3>2, <3>3, PageKept
  <2>2. CASE mirror[r.list] # None
    <3>1. mirror[r.list] \in [ItemsOf(r.list) -> Row]
      BY <1>2, <2>2 DEF TypeInv, ServerInv
    <3>2. PICK o : o = ListObject(r.list, mirror[r.list])  OBVIOUS
    <3>3. /\ heap' = Append(heap, o) /\ currentListId' = r.list /\ currentList' = Len(heap')
          /\ listShown' = TRUE
          /\ astray' = astray \cup InToasts \cup CrossedBy(r.list)
      BY <2>2, <3>2 DEF Paint
    <3>4. o \in ListObjects  BY <1>2, <3>1, <3>2, ObjectType
    <3>5. HeapKept /\ Len(heap') = Len(heap) + 1  BY <1>0, <3>3, <3>4, HeapGrows
    <3>6. astray' \subseteq Items
      BY <1>0, <3>3, ToastItems DEF CrossedBy, ItemsOf
    <3>7. Len(heap') \in 0 .. Len(heap')  BY <3>5, LenProperties DEF HeapKept
    <3> QED  BY <1>0, <1>2, <1>3, <3>3, <3>5, <3>6, <3>7, PageKept
  <2> QED  BY <2>1, <2>2
<1>5. WaitingInv'  BY <1>3, <1>4, WaitingKept
<1>6. PICK s : /\ s = [r EXCEPT !.pc = "sent",
                           !.at = IF mirror[r.list] = None THEN 0 ELSE Len(heap')]
               /\ requests' = (requests \ {r}) \cup {s}
  BY DEF Paint
<1>7. RequestShape(s)'
  <2>1. /\ s \in Requests /\ s.item = None /\ s.list = r.list /\ s.kind = r.kind
        /\ s.pc = "sent" /\ s.at \in 0 .. Len(heap')
    <3>1. Len(heap') \in Nat /\ 0 \in 0 .. Len(heap') /\ Len(heap') \in 0 .. Len(heap')
      BY <1>4, LenProperties DEF HeapKept
    <3> QED  BY <1>2, <1>6, <3>1 DEF Requests
  <2> QED  BY <1>2, <2>1 DEF RequestShape
<1>8. RequestsInv'  BY <1>4, <1>6, <1>7, RequestsKept
<1>9. ServerInv'  BY <1>3 DEF TypeInv, ServerInv
<1> QED  BY <1>4, <1>5, <1>8, <1>9 DEF TypeInv

\* Leaving the list.
LEMMA TypeShowDashboard ==
    ASSUME TypeInv, ShowDashboard
    PROVE  TypeInv'
<1>1. /\ UNCHANGED <<server, mirror, heap, toasts, pendingToggles, pendingQuantityUpdates,
                     requests, seq, astray, dropped>>
      /\ currentListId' = None /\ currentList' = 0 /\ listShown' = FALSE
  BY DEF ShowDashboard, pendings
<1>2. PageInv /\ astray \subseteq Items /\ dropped \subseteq Items  BY DEF TypeInv, PageInv
<1>3. HeapKept  BY <1>1, <1>2, HeapSame
<1>4. 0 \in 0 .. Len(heap')  BY <1>3, LenProperties DEF HeapKept
<1>5. WaitingInv' /\ RequestsInv'  BY <1>1, <1>3, WaitingKept, RequestsKept
<1>6. ServerInv'  BY <1>1 DEF TypeInv, ServerInv
<1>7. PageInv'  BY <1>1, <1>2, <1>3, <1>4, PageKept
<1> QED  BY <1>5, <1>6, <1>7 DEF TypeInv

\* The server's own items, and its lists.
LEMMA ServerLists ==
    ASSUME TypeInv, NEW l \in Lists
    PROVE  ServerList(l) \in [ItemsOf(l) -> Row]
BY DEF TypeInv, ServerInv, ServerList, ItemsOf

\* The server serves a request.
LEMMA TypeServe ==
    ASSUME TypeInv, NEW r \in requests, Serve(r)
    PROVE  TypeInv'
<1>0. PageInv /\ astray \subseteq Items /\ dropped \subseteq Items  BY DEF TypeInv, PageInv
<1>1. RequestShape(r) /\ r \in Requests
  BY DEF TypeInv, RequestsInv, RequestShape
<1>2. UNCHANGED <<heap, currentListId, currentList, listShown, toasts, pendingToggles,
                  pendingQuantityUpdates, seq, astray, dropped>>
  BY DEF Serve, page, pendings
<1>3. HeapKept  BY <1>0, <1>2, HeapSame
<1>4. ServerInv' /\ \E s : RequestShape(s) /\ requests' = (requests \ {r}) \cup {s}
  <2>1. CASE r.item = None
    <3>1. r.list \in Lists /\ r.kind \in {"open", "refresh"} /\ r.at \in 0 .. Len(heap)
      BY <1>1, <2>1 DEF RequestShape
    <3>2. ServerList(r.list) \in [ItemsOf(r.list) -> Row]  BY <3>1, ServerLists
    <3>3. PICK rows : rows = ServerList(r.list)  OBVIOUS
    <3>4. rows \in [ItemsOf(r.list) -> Row]  BY <3>2, <3>3
    <3>5. /\ mirror' = [mirror EXCEPT ![r.list] = rows] /\ server' = server
          /\ requests' = (requests \ {r})
                           \cup {[r EXCEPT !.pc = "answered", !.answer = rows]}
      BY <2>1, <3>3 DEF Serve, Progress
    <3>6. ServerInv'  BY <3>1, <3>4, <3>5 DEF TypeInv, ServerInv
    <3>7. PICK s : s = [r EXCEPT !.pc = "answered", !.answer = rows]  OBVIOUS
    <3>8. /\ s \in Requests /\ s.item = None /\ s.list = r.list /\ s.kind = r.kind
          /\ s.at = r.at /\ s.answer = rows
      BY <1>1, <2>1, <3>1, <3>4, <3>7 DEF Requests
    <3>9. RequestShape(s)  BY <3>1, <3>4, <3>8 DEF RequestShape
    <3> QED  BY <3>5, <3>6, <3>7, <3>9
  <2>2. CASE r.item # None /\ ~server[r.item].there
    <3>1. /\ requests' = (requests \ {r}) \cup {[r EXCEPT !.pc = "failed"]}
          /\ UNCHANGED <<server, mirror>>
      BY <2>2 DEF Serve, Progress
    <3>2. PICK s : s = [r EXCEPT !.pc = "failed"]  OBVIOUS
    <3>3. /\ s \in Requests /\ s.item = r.item /\ s.list = r.list /\ s.kind = r.kind
          /\ s.at = r.at /\ s.pc = "failed" /\ s.value = r.value /\ s.before = r.before
      BY <1>1, <3>2 DEF Requests
    <3>4. RequestShape(s)  BY <1>1, <2>2, <3>3 DEF RequestShape
    <3>5. ServerInv'  BY <3>1 DEF TypeInv, ServerInv
    <3> QED  BY <3>1, <3>2, <3>4, <3>5
  <2>3. CASE r.item # None /\ server[r.item].there
    <3>1. /\ r.item \in Items /\ r.kind \in {"done", "quantity", "delete"}
          /\ r.kind = "done" => r.value \in BOOLEAN
          /\ r.kind = "quantity" => r.value \in 1 .. MaxQuantity
      BY <1>1, <2>3 DEF RequestShape, Requests
    <3>2. server[r.item] \in Row  BY <3>1 DEF TypeInv, ServerInv
    <3>3. Written(r) \in Row
      <4>1. CASE r.kind = "done"
        <5>1. Written(r) = [server[r.item] EXCEPT !.done = r.value]  BY <4>1 DEF Written
        <5> QED  BY <3>1, <3>2, <4>1, <5>1 DEF Row
      <4>2. CASE r.kind = "quantity"
        <5>1. Written(r) = [server[r.item] EXCEPT !.quantity = r.value]
          BY <4>2 DEF Written
        <5> QED  BY <3>1, <3>2, <4>2, <5>1 DEF Row
      <4>3. CASE r.kind = "delete"
        <5>1. Written(r) = [server[r.item] EXCEPT !.there = FALSE]
          BY <4>3 DEF Written
        <5> QED  BY <3>2, <5>1 DEF Row
      <4> QED  BY <3>1, <4>1, <4>2, <4>3
    <3>4. PICK row : row = Written(r)  OBVIOUS
    <3>5. row \in Row  BY <3>3, <3>4
    <3>6. /\ server' = [server EXCEPT ![r.item] = row]
          /\ mirror' = [mirror EXCEPT ![ListOf[r.item]] =
                          IF @ = None THEN None ELSE [@ EXCEPT ![r.item] = row]]
          /\ requests' = (requests \ {r})
                           \cup {[r EXCEPT !.pc = "answered", !.answer = row]}
      BY <2>3, <3>4 DEF Serve, Progress
    <3>7. PICK s : s = [r EXCEPT !.pc = "answered", !.answer = row]  OBVIOUS
    <3>8. /\ s \in Requests /\ s.item = r.item /\ s.list = r.list /\ s.kind = r.kind
          /\ s.at = r.at /\ s.pc = "answered" /\ s.answer = row /\ s.value = r.value
          /\ s.before = r.before
      BY <1>1, <3>5, <3>7 DEF Requests
    <3>9. RequestShape(s)  BY <1>1, <2>3, <3>5, <3>8 DEF RequestShape
    <3>10. ServerInv'
      <4>1. server' \in [Items -> Row]  BY <3>1, <3>5, <3>6 DEF TypeInv, ServerInv
      <4>2. ListOf[r.item] \in Lists /\ r.item \in ItemsOf(ListOf[r.item])
        BY <3>1, ListPageAssumption DEF ItemsOf
      <4>3. PICK l \in Lists : l = ListOf[r.item]  BY <4>2
      <4>4. PICK m : m = IF mirror[l] = None THEN None ELSE [mirror[l] EXCEPT ![r.item] = row]
        OBVIOUS
      <4>5. mirror' = [mirror EXCEPT ![l] = m]  BY <3>6, <4>3, <4>4
      <4>6. m = None \/ m \in [ItemsOf(l) -> Row]
        BY <3>5, <4>2, <4>3, <4>4 DEF TypeInv, ServerInv
      <4>7. /\ mirror \in [Lists -> {None} \cup UNION {[ItemsOf(k) -> Row] : k \in Lists}]
            /\ \A k \in Lists : mirror[k] = None \/ mirror[k] \in [ItemsOf(k) -> Row]
        BY DEF TypeInv, ServerInv
      <4>8. mirror' \in [Lists -> {None} \cup UNION {[ItemsOf(k) -> Row] : k \in Lists}]
        BY <4>5, <4>6, <4>7
      <4>9. \A k \in Lists : mirror'[k] = None \/ mirror'[k] \in [ItemsOf(k) -> Row]
        BY <4>5, <4>6, <4>7
      <4> QED  BY <4>1, <4>8, <4>9 DEF ServerInv
    <3> QED  BY <3>6, <3>7, <3>9, <3>10
  <2> QED  BY <2>1, <2>2, <2>3
<1>5. WaitingInv'  BY <1>2, <1>3, WaitingKept
<1>6. PICK s : RequestShape(s) /\ requests' = (requests \ {r}) \cup {s}  BY <1>4
<1>7. RequestsInv'
  <2>1. RequestShape(s)'  BY <1>0, <1>3, <1>6, ShapesKept
  <2> QED  BY <1>3, <1>6, <2>1, RequestsKept
<1>8. PageInv'  BY <1>0, <1>2, <1>3, PageKept
<1> QED  BY <1>4, <1>5, <1>7, <1>8 DEF TypeInv

\* A request fails.
LEMMA TypeFail ==
    ASSUME TypeInv, NEW r \in requests, Fail(r)
    PROVE  TypeInv'
<1>0. PageInv /\ astray \subseteq Items /\ dropped \subseteq Items  BY DEF TypeInv, PageInv
<1>1. RequestShape(r) /\ r \in Requests
  BY DEF TypeInv, RequestsInv, RequestShape
<1>2. /\ UNCHANGED <<server, mirror, heap, currentListId, currentList, listShown, toasts,
                     pendingToggles, pendingQuantityUpdates, seq, astray, dropped>>
      /\ requests' = (requests \ {r}) \cup {[r EXCEPT !.pc = "failed"]}
  BY DEF Fail, page, pendings, Progress
<1>3. HeapKept  BY <1>0, <1>2, HeapSame
<1>4. PICK s : s = [r EXCEPT !.pc = "failed"]  OBVIOUS
<1>5. /\ s \in Requests /\ s.item = r.item /\ s.list = r.list /\ s.kind = r.kind
      /\ s.at = r.at /\ s.pc = "failed" /\ s.value = r.value /\ s.before = r.before
  BY <1>1, <1>4 DEF Requests
<1>6. RequestShape(s)  BY <1>1, <1>5 DEF RequestShape
<1>7. RequestsInv'
  <2>1. RequestShape(s)'  BY <1>0, <1>3, <1>6, ShapesKept
  <2> QED  BY <1>2, <1>3, <1>4, <2>1, RequestsKept
<1>8. WaitingInv'  BY <1>2, <1>3, WaitingKept
<1>9. ServerInv'  BY <1>2 DEF TypeInv, ServerInv
<1>10. PageInv'  BY <1>0, <1>2, <1>3, PageKept
<1> QED  BY <1>7, <1>8, <1>9, <1>10 DEF TypeInv

\* Another device writes.
LEMMA TypeOtherDevice ==
    ASSUME TypeInv, OtherDevice
    PROVE  TypeInv'
<1>0. PageInv /\ astray \subseteq Items /\ dropped \subseteq Items  BY DEF TypeInv, PageInv
<1>1. PICK i \in Items : /\ server' = [server EXCEPT ![i].done = ~@]
                         /\ astray' = astray \cup {i}
  BY DEF OtherDevice
<1>2. /\ UNCHANGED <<mirror, heap, currentListId, currentList, listShown, toasts,
                     pendingToggles, pendingQuantityUpdates, seq, dropped>>
      /\ requests' = NotAlone(requests)
  BY DEF OtherDevice, page, pendings
<1>3. HeapKept  BY <1>0, <1>2, HeapSame
<1>4. RequestsInv' /\ WaitingInv'  BY <1>2, <1>3, WaitingKept, RequestsKept
<1>5. ServerInv'
  <2>1. server[i] \in Row  BY DEF TypeInv, ServerInv
  <2>2. PICK row : row = [server[i] EXCEPT !.done = ~@]  OBVIOUS
  <2>3. row \in Row  BY <2>1, <2>2 DEF Row
  <2>4. server' = [server EXCEPT ![i] = row]  BY <1>1, <2>2
  <2> QED  BY <1>2, <2>3, <2>4 DEF TypeInv, ServerInv
<1>6. PageInv'  BY <1>0, <1>1, <1>2, <1>3, PageKept
<1> QED  BY <1>4, <1>5, <1>6 DEF TypeInv

\* A request that has been answered, or has failed.
LEMMA AnsweredRequest ==
    ASSUME TypeInv, NEW r \in requests, Answered(r), r.kind \in {"done", "quantity", "delete"}
    PROVE  /\ r.at \in DOMAIN heap /\ r.item \in ItemsOf(heap[r.at].list) /\ r.item \in Items
           /\ r.pc # "failed" => r.answer \in Row
           /\ r.kind = "done" => r.before \in BOOLEAN
           /\ r.kind = "quantity" => r.before \in 1 .. MaxQuantity
<1>1. RequestShape(r)  BY DEF TypeInv, RequestsInv
<1>2. r.item # None /\ r.item \in Items  BY <1>1 DEF RequestShape, Requests
<1> QED  BY <1>1, <1>2 DEF RequestShape, Answered

\* What a list request holds once it is answered.
LEMMA AnsweredLoad ==
    ASSUME TypeInv, NEW r \in requests, Answered(r), r.kind \in {"open", "refresh"}
    PROVE  /\ r.list \in Lists /\ r.at \in 0 .. Len(heap)
           /\ r.pc = "answered" => ListObject(r.list, r.answer) \in ListObjects
<1>1. RequestShape(r)  BY DEF TypeInv, RequestsInv
<1>2. r.list \in Lists /\ r.at \in 0 .. Len(heap)  BY <1>1 DEF RequestShape
<1>3. r.pc = "answered" => r.answer \in [ItemsOf(r.list) -> Row]  BY <1>1 DEF RequestShape
<1> QED  BY <1>2, <1>3, ObjectType

\* The objects of one list object, with one item's changed.
LEMMA ItemChanged ==
    ASSUME PageInv, NEW at \in DOMAIN heap, NEW i, NEW o \in Object
    PROVE  [j \in DOMAIN heap[at].items |-> IF j \in {i} THEN o ELSE heap[at].items[j]]
              \in [ItemsOf(heap[at].list) -> Object]
<1>1. /\ DOMAIN heap[at].items = ItemsOf(heap[at].list)
      /\ \A j \in ItemsOf(heap[at].list) : heap[at].items[j] \in Object
  BY HeapObjects
<1> QED  BY <1>1

\* The answer to a check.
LEMMA TypeToggleSettles ==
    ASSUME TypeInv, NEW r \in requests, ToggleSettles(r)
    PROVE  TypeInv'
<1> DEFINE old == heap[r.at].items[r.item]
           new == IF r.pc = "failed" THEN [old EXCEPT !.done = r.before]
                  ELSE Merge(old, r.answer)
           items == [j \in DOMAIN heap[r.at].items |->
                        IF j \in {r.item} THEN new ELSE heap[r.at].items[j]]
<1>0. PageInv /\ astray \subseteq Items /\ dropped \subseteq Items  BY DEF TypeInv, PageInv
<1>1. /\ r.at \in DOMAIN heap /\ r.item \in ItemsOf(heap[r.at].list) /\ r.item \in Items
      /\ r.pc # "failed" => r.answer \in Row
      /\ r.before \in BOOLEAN
  BY AnsweredRequest DEF ToggleSettles
<1>2. heap' = [heap EXCEPT ![r.at].items = items]
  <2>1. heap' = [heap EXCEPT ![r.at].items =
                    [j \in DOMAIN @ |-> IF j \in {r.item}
                       THEN IF r.pc = "failed" THEN [@[j] EXCEPT !.done = r.before]
                            ELSE Merge(@[j], r.answer)
                       ELSE @[j]]]
    BY DEF ToggleSettles, Changed
  <2>2. items = [j \in DOMAIN heap[r.at].items |-> IF j \in {r.item}
                   THEN IF r.pc = "failed" THEN [heap[r.at].items[j] EXCEPT !.done = r.before]
                        ELSE Merge(heap[r.at].items[j], r.answer)
                   ELSE heap[r.at].items[j]]
    OBVIOUS
  <2> HIDE DEF items
  <2> QED  BY <2>1, <2>2
<1>3. old \in Object  BY <1>0, <1>1, HeapObjects
<1>4. new \in Object  BY <1>1, <1>3, ObjectChanges
<1> HIDE DEF old, new
<1>5. items \in [ItemsOf(heap[r.at].list) -> Object]
  BY <1>0, <1>1, <1>4, ItemChanged, Zenon
<1> HIDE DEF items
<1>6. HeapKept  BY <1>0, <1>1, <1>2, <1>5, HeapChanged
<1>7. /\ UNCHANGED <<server, mirror, currentListId, currentList, listShown, toasts,
                     pendingToggles, pendingQuantityUpdates, seq, dropped>>
      /\ requests' \subseteq requests /\ astray' \subseteq astray \cup {r.item}
  BY DEF ToggleSettles, pendings, Overwritten
<1>8. WaitingInv' /\ RequestsInv'  BY <1>6, <1>7, WaitingKept, RequestsKept
<1>9. ServerInv'  BY <1>7 DEF TypeInv, ServerInv
<1>10. PageInv'  BY <1>0, <1>1, <1>6, <1>7, PageKept
<1> QED  BY <1>8, <1>9, <1>10 DEF TypeInv

\* The answer to a quantity.
LEMMA TypeQuantitySettles ==
    ASSUME TypeInv, NEW r \in requests, QuantitySettles(r)
    PROVE  TypeInv'
<1> DEFINE old == heap[r.at].items[r.item]
           new == IF r.pc = "failed" THEN [old EXCEPT !.quantity = r.before]
                  ELSE Merge(old, r.answer)
           items == [j \in DOMAIN heap[r.at].items |->
                        IF j \in {r.item} THEN new ELSE heap[r.at].items[j]]
<1>0. PageInv /\ astray \subseteq Items /\ dropped \subseteq Items  BY DEF TypeInv, PageInv
<1>1. /\ r.at \in DOMAIN heap /\ r.item \in ItemsOf(heap[r.at].list) /\ r.item \in Items
      /\ r.pc # "failed" => r.answer \in Row
      /\ r.before \in 1 .. MaxQuantity
  BY AnsweredRequest DEF QuantitySettles
<1>2. heap' = heap \/ heap' = [heap EXCEPT ![r.at].items = items]
  <2>1. \/ heap' = heap
        \/ heap' = [heap EXCEPT ![r.at].items =
                    [j \in DOMAIN @ |-> IF j \in {r.item}
                       THEN IF r.pc = "failed" THEN [@[j] EXCEPT !.quantity = r.before]
                            ELSE Merge(@[j], r.answer)
                       ELSE @[j]]]
    BY DEF QuantitySettles, Changed
  <2>2. items = [j \in DOMAIN heap[r.at].items |-> IF j \in {r.item}
                   THEN IF r.pc = "failed" THEN [heap[r.at].items[j] EXCEPT !.quantity = r.before]
                        ELSE Merge(heap[r.at].items[j], r.answer)
                   ELSE heap[r.at].items[j]]
    OBVIOUS
  <2> HIDE DEF items
  <2> QED  BY <2>1, <2>2
<1>3. old \in Object  BY <1>0, <1>1, HeapObjects
<1>4. new \in Object  BY <1>1, <1>3, ObjectChanges
<1> HIDE DEF old, new
<1>5. items \in [ItemsOf(heap[r.at].list) -> Object]
  BY <1>0, <1>1, <1>4, ItemChanged, Zenon
<1> HIDE DEF items
<1>6. HeapKept  BY <1>0, <1>1, <1>2, <1>5, HeapChanged, HeapSame
<1>7. /\ UNCHANGED <<server, mirror, currentListId, currentList, listShown, toasts,
                     pendingToggles, seq, dropped>>
      /\ pendingQuantityUpdates' \subseteq pendingQuantityUpdates
      /\ requests' \subseteq requests /\ astray' \subseteq astray \cup {r.item}
  BY DEF QuantitySettles, Overwritten
<1>8. WaitingInv' /\ RequestsInv'  BY <1>6, <1>7, WaitingKept, RequestsKept
<1>9. ServerInv'  BY <1>7 DEF TypeInv, ServerInv
<1>10. PageInv'  BY <1>0, <1>1, <1>6, <1>7, PageKept
<1> QED  BY <1>8, <1>9, <1>10 DEF TypeInv

\* The answer to a removal.
LEMMA TypeDeleteSettles ==
    ASSUME TypeInv, NEW r \in requests, DeleteSettles(r)
    PROVE  TypeInv'
<1> DEFINE old == heap[r.at].items[r.item]
           new == IF r.pc = "failed" THEN PutBack(old) ELSE [old EXCEPT !.there = FALSE]
           items == [j \in DOMAIN heap[r.at].items |->
                        IF j \in {r.item} THEN new ELSE heap[r.at].items[j]]
<1>0. PageInv /\ astray \subseteq Items /\ dropped \subseteq Items  BY DEF TypeInv, PageInv
<1>1. r.at \in DOMAIN heap /\ r.item \in ItemsOf(heap[r.at].list) /\ r.item \in Items
  BY AnsweredRequest DEF DeleteSettles
<1>2. heap' = [heap EXCEPT ![r.at].items = items]
  <2>1. CASE r.pc = "failed"
    <3>1. heap' = [heap EXCEPT ![r.at].items =
                    [j \in DOMAIN @ |-> IF j \in {r.item} THEN PutBack(@[j]) ELSE @[j]]]
      BY <2>1 DEF DeleteSettles, Changed
    <3>2. items = [j \in DOMAIN heap[r.at].items |->
                     IF j \in {r.item} THEN PutBack(heap[r.at].items[j])
                     ELSE heap[r.at].items[j]]
      BY <2>1
    <3> HIDE DEF items
    <3> QED  BY <3>1, <3>2
  <2>2. CASE r.pc # "failed"
    <3>1. heap' = [heap EXCEPT ![r.at].items =
                    [j \in DOMAIN @ |->
                       IF j \in {r.item} THEN [@[j] EXCEPT !.there = FALSE] ELSE @[j]]]
      BY <2>2 DEF DeleteSettles, Changed
    <3>2. items = [j \in DOMAIN heap[r.at].items |->
                     IF j \in {r.item} THEN [heap[r.at].items[j] EXCEPT !.there = FALSE]
                     ELSE heap[r.at].items[j]]
      BY <2>2
    <3> HIDE DEF items
    <3> QED  BY <3>1, <3>2
  <2> QED  BY <2>1, <2>2
<1>3. old \in Object  BY <1>0, <1>1, HeapObjects
<1>4. new \in Object  BY <1>3, ObjectChanges
<1> HIDE DEF old, new
<1>5. items \in [ItemsOf(heap[r.at].list) -> Object]
  BY <1>0, <1>1, <1>4, ItemChanged, Zenon
<1> HIDE DEF items
<1>6. HeapKept  BY <1>0, <1>1, <1>2, <1>5, HeapChanged
<1>7. UNCHANGED <<server, mirror, currentListId, currentList, listShown, toasts,
                  pendingToggles, pendingQuantityUpdates, dropped>>
  BY DEF DeleteSettles, pendings
<1>8. /\ seq' = seq \/ seq' = seq + 1
      /\ astray' \subseteq Items
      /\ RequestsInv'
  <2>1. CASE requests' = requests \ {r} /\ UNCHANGED <<seq, astray>>
    <3> QED  BY <1>0, <1>6, <2>1, RequestsKept
  <2>2. CASE ~(requests' = requests \ {r} /\ UNCHANGED <<seq, astray>>)
    <3>1. PICK alone \in BOOLEAN : alone = (requests = {r} /\ toasts = {})  OBVIOUS
    <3>2. PICK q : q = Load("refresh", currentListId, currentList, "sent", alone)  OBVIOUS
    <3>3. /\ currentListId # None
          /\ requests' = NotAlone(requests \ {r}) \cup {q} /\ seq' = seq + 1
          /\ astray' = astray \cup
                    {i \in ItemsOf(currentListId) : \E s \in requests \ {r} : s.item = i}
      BY <2>2, <3>1, <3>2 DEF DeleteSettles
    <3>4. currentListId \in Lists /\ currentList \in 0 .. Len(heap)
      BY <3>3 DEF TypeInv, PageInv
    <3>5. RequestShape(q)  BY <3>2, <3>4, LoadMade
    <3>6. RequestShape(q)'  BY <1>0, <1>6, <3>5, ShapesKept
    <3>7. NotAlone(requests \ {r}) \subseteq NotAlone(requests)  BY DEF NotAlone
    <3>8. RequestsInv'  BY <1>6, <3>3, <3>6, <3>7, RequestsKept
    <3>9. astray' \subseteq Items  BY <1>0, <3>3 DEF ItemsOf
    <3> QED  BY <3>3, <3>8, <3>9
  <2> QED  BY <2>1, <2>2
<1>9. WaitingInv'  BY <1>6, <1>7, WaitingKept
<1>10. ServerInv'  BY <1>7 DEF TypeInv, ServerInv
<1>11. PageInv'  BY <1>0, <1>6, <1>7, <1>8, PageKept
<1> QED  BY <1>8, <1>9, <1>10, <1>11 DEF TypeInv

\* The answer to an opened list.
LEMMA TypeOpenSettles ==
    ASSUME TypeInv, NEW r \in requests, OpenSettles(r)
    PROVE  TypeInv'
<1>0. PageInv /\ astray \subseteq Items /\ dropped \subseteq Items  BY DEF TypeInv, PageInv
<1>1. /\ r.list \in Lists /\ r.at \in 0 .. Len(heap)
      /\ r.pc = "answered" => ListObject(r.list, r.answer) \in ListObjects
  BY AnsweredLoad DEF OpenSettles
<1>2. /\ UNCHANGED <<server, mirror, toasts, pendingToggles, pendingQuantityUpdates, seq>>
      /\ requests' \subseteq requests
  BY DEF OpenSettles, pendings
<1>3. HeapKept /\ PageInv'
  <2>1. CASE r.pc = "answered"
    <3>1. PICK o : o = ListObject(r.list, r.answer)  OBVIOUS
    <3>2. /\ heap' = Append(heap, o) /\ currentListId' = r.list /\ currentList' = Len(heap')
          /\ astray' = Reloaded(r) /\ dropped' = StillDropped(r) /\ listShown' = listShown
      BY <2>1, <3>1 DEF OpenSettles
    <3>3. HeapKept  BY <1>0, <1>1, <2>1, <3>1, <3>2, HeapGrows
    <3>4. astray' \subseteq Items /\ dropped' \subseteq Items
      BY <1>0, <3>2, ToastItems DEF Reloaded, StillDropped
    <3>5. Len(heap') \in 0 .. Len(heap')  BY <3>3, LenProperties DEF HeapKept
    <3>6. listShown' \in BOOLEAN  BY <1>0, <3>2 DEF PageInv
    <3> QED  BY <1>1, <1>2, <3>2, <3>3, <3>4, <3>5, <3>6, PageKept
  <2>2. CASE r.pc # "answered"
    <3>1. /\ heap' = heap /\ dropped' = dropped
          /\ astray' = astray \/ astray' = astray \cup ItemsOf(r.list)
          /\ \/ currentListId' = None /\ currentList' = 0 /\ listShown' = FALSE
             \/ currentListId' = r.list /\ currentList' = r.at /\ listShown' = listShown
      BY <2>2 DEF OpenSettles
    <3>2. HeapKept  BY <1>0, <3>1, HeapSame
    <3>3. astray' \subseteq Items  BY <1>0, <3>1 DEF ItemsOf
    <3>4. /\ currentListId' \in Lists \cup {None} /\ currentList' \in 0 .. Len(heap')
          /\ listShown' \in BOOLEAN
      <4>1. Len(heap) \in Nat /\ Len(heap') = Len(heap)  BY <1>0, <3>1, LenProperties DEF PageInv
      <4>2. 0 \in 0 .. Len(heap')  BY <4>1
      <4>3. r.at \in 0 .. Len(heap')  BY <1>1, <4>1
      <4>4. listShown \in BOOLEAN  BY <1>0 DEF PageInv
      <4>5. CASE currentListId' = None /\ currentList' = 0 /\ listShown' = FALSE
        BY <4>2, <4>5
      <4>6. CASE currentListId' = r.list /\ currentList' = r.at /\ listShown' = listShown
        BY <1>1, <4>3, <4>4, <4>6
      <4> QED  BY <3>1, <4>5, <4>6
    <3> QED  BY <1>0, <1>2, <3>1, <3>2, <3>3, <3>4, PageKept
  <2> QED  BY <2>1, <2>2
<1>4. WaitingInv' /\ RequestsInv'  BY <1>2, <1>3, WaitingKept, RequestsKept
<1>5. ServerInv'  BY <1>2 DEF TypeInv, ServerInv
<1> QED  BY <1>3, <1>4, <1>5 DEF TypeInv

\* The answer to a refresh.
LEMMA TypeRefreshSettles ==
    ASSUME TypeInv, NEW r \in requests, RefreshSettles(r)
    PROVE  TypeInv'
<1>0. PageInv /\ astray \subseteq Items /\ dropped \subseteq Items  BY DEF TypeInv, PageInv
<1>1. /\ r.list \in Lists
      /\ r.pc = "answered" => ListObject(r.list, r.answer) \in ListObjects
  BY AnsweredLoad DEF RefreshSettles
<1>2. /\ UNCHANGED <<server, mirror, currentListId, listShown, toasts, pendingToggles,
                     pendingQuantityUpdates, seq>>
      /\ requests' \subseteq requests
  BY DEF RefreshSettles, pendings
<1>3. \/ /\ UNCHANGED <<heap, currentList, dropped, astray>>
      \/ /\ currentList' = Len(heap') /\ astray' \subseteq Items /\ dropped' \subseteq Items
         /\ \E o \in ListObjects : heap' = Append(heap, o)
  <2> DEFINE cached == IF currentListId = None THEN None ELSE mirror[currentListId]
  <2>1. CASE r.pc = "answered"
    <3>1. /\ heap' = Append(heap, ListObject(r.list, r.answer)) /\ currentList' = Len(heap')
          /\ astray' = Reloaded(r) /\ dropped' = StillDropped(r)
      BY <2>1 DEF RefreshSettles
    <3>2. astray' \subseteq Items /\ dropped' \subseteq Items
      BY <1>0, <3>1, ToastItems DEF Reloaded, StillDropped
    <3> QED  BY <1>1, <2>1, <3>1, <3>2
  <2>2. CASE r.pc # "answered" /\ cached # None
    <3>1. /\ heap' = Append(heap, ListObject(currentListId, cached))
          /\ currentList' = Len(heap') /\ dropped' = dropped
          /\ astray' = astray \cup InToasts \cup CrossedBy(currentListId)
      BY <2>2 DEF RefreshSettles
    <3>2. currentListId \in Lists /\ cached \in [ItemsOf(currentListId) -> Row]
      BY <2>2 DEF TypeInv, PageInv, ServerInv
    <3>3. ListObject(currentListId, cached) \in ListObjects  BY <3>2, ObjectType
    <3>4. astray' \subseteq Items  BY <1>0, <3>1, ToastItems DEF CrossedBy, ItemsOf
    <3> HIDE DEF cached
    <3> QED  BY <1>0, <3>1, <3>3, <3>4
  <2>3. CASE r.pc # "answered" /\ cached = None
    <3> QED  BY <2>3 DEF RefreshSettles
  <2> QED  BY <2>1, <2>2, <2>3
<1>4. HeapKept /\ PageInv'
  <2>1. CASE UNCHANGED <<heap, currentList, dropped, astray>>
    <3>1. HeapKept  BY <1>0, <2>1, HeapSame
    <3> QED  BY <1>0, <1>2, <2>1, <3>1, PageKept
  <2>2. CASE /\ currentList' = Len(heap') /\ astray' \subseteq Items /\ dropped' \subseteq Items
             /\ \E o \in ListObjects : heap' = Append(heap, o)
    <3>1. HeapKept  BY <1>0, <2>2, HeapGrows
    <3>2. /\ currentListId' \in Lists \cup {None} /\ currentList' \in 0 .. Len(heap')
          /\ listShown' \in BOOLEAN
      BY <1>0, <1>2, <2>2, <3>1, LenProperties DEF PageInv, HeapKept
    <3> QED  BY <1>2, <2>2, <3>1, <3>2, PageKept
  <2> QED  BY <1>3, <2>1, <2>2
<1>5. WaitingInv' /\ RequestsInv'  BY <1>2, <1>4, WaitingKept, RequestsKept
<1>6. ServerInv'  BY <1>2 DEF TypeInv, ServerInv
<1> QED  BY <1>4, <1>5, <1>6 DEF TypeInv

\* At first the page shows nothing.
LEMMA TypeInit ==
    ASSUME Init
    PROVE  TypeInv
<1>1. NewRow \in Row  BY ListPageAssumption DEF NewRow, Row
<1>2. server \in [Items -> Row]  BY <1>1 DEF Init
<1>3. \A l \in Lists : ServerList(l) \in [ItemsOf(l) -> Row]
  BY <1>2 DEF ServerList, ItemsOf
<1>4. \A l \in Lists : ServerList(l) \in UNION {[ItemsOf(k) -> Row] : k \in Lists}
  BY <1>3
<1>5. PICK known \in {{}, Lists} :
        mirror = [l \in Lists |-> IF l \in known THEN ServerList(l) ELSE None]
  BY DEF Init
<1>6. ServerInv
  <2>1. mirror \in [Lists -> {None} \cup UNION {[ItemsOf(k) -> Row] : k \in Lists}]
    BY <1>4, <1>5
  <2>2. \A l \in Lists : mirror[l] = None \/ mirror[l] \in [ItemsOf(l) -> Row]
    BY <1>3, <1>5
  <2> QED  BY <1>2, <2>1, <2>2 DEF ServerInv
<1>7. PageInv
  <2>1. \/ heap = <<>> /\ currentListId = None /\ currentList = 0 /\ listShown = FALSE
        \/ \E l \in Lists :
             /\ heap = <<ListObject(l, ServerList(l))>>
             /\ currentListId = l /\ currentList = 1 /\ listShown = TRUE
    BY DEF Init
  <2>2. heap \in Seq(ListObjects) /\ currentListId \in Lists \cup {None}
        /\ currentList \in 0 .. Len(heap) /\ listShown \in BOOLEAN
    <3>1. CASE heap = <<>> /\ currentListId = None /\ currentList = 0 /\ listShown = FALSE
      <4>1. heap \in Seq(ListObjects) /\ Len(heap) = 0  BY <3>1, EmptySeq
      <4>2. 0 \in 0 .. Len(heap)  BY <4>1
      <4>3. currentList = 0 /\ currentListId = None /\ listShown = FALSE  BY <3>1
      <4> QED  BY <4>1, <4>2, <4>3
    <3>2. ASSUME NEW l \in Lists,
                 heap = <<ListObject(l, ServerList(l))>>,
                 currentListId = l /\ currentList = 1 /\ listShown = TRUE
          PROVE  heap \in Seq(ListObjects) /\ currentListId \in Lists \cup {None}
                 /\ currentList \in 0 .. Len(heap) /\ listShown \in BOOLEAN
      <4>1. ListObject(l, ServerList(l)) \in ListObjects  BY <1>3, ObjectType
      <4>2. PICK o \in ListObjects : heap = <<o>>  BY <3>2, <4>1
      <4> QED  BY <3>2, <4>2
    <3> QED  BY <2>1, <3>1, <3>2
  <2> QED  BY <2>2 DEF Init, PageInv
<1>8. WaitingInv /\ RequestsInv  BY DEF Init, WaitingInv, RequestsInv
<1> QED  BY <1>6, <1>7, <1>8 DEF TypeInv

\* Nothing happens.
LEMMA TypeStutter ==
    ASSUME TypeInv, UNCHANGED vars
    PROVE  TypeInv'
BY DEF TypeInv, ServerInv, PageInv, WaitingInv, RequestsInv, ToastShape, RequestShape,
       ToggleShape, QuantityShape, vars, page, pendings

\* Every step keeps the types.
LEMMA TypeNext ==
    ASSUME TypeInv, [Next]_vars
    PROVE  TypeInv'
<1>1. ASSUME NEW i \in Items, Toggle({i}, FALSE) \/ Remove({i}, FALSE) PROVE TypeInv'
  BY <1>1, TypeToggle, TypeRemove
<1>2. ASSUME NEW S \in Selections, Toggle(S, TRUE) \/ Remove(S, TRUE) PROVE TypeInv'
  BY <1>2, TypeToggle, TypeRemove, ListPageAssumption
<1>3. ASSUME NEW i \in Items, NEW quantity \in 1 .. MaxQuantity, ChangeQuantity(i, quantity)
      PROVE  TypeInv'
  BY <1>3, TypeChangeQuantity
<1>4. ASSUME NEW t \in toasts, Undo(t) \/ Commit(t) PROVE TypeInv'
  BY <1>4, TypeUndo, TypeCommit
<1>5. ASSUME NEW l \in Lists, SelectList(l) PROVE TypeInv'
  BY <1>5, TypeSelectList
<1>6. CASE Refresh \/ ShowDashboard \/ OtherDevice
  BY <1>6, TypeRefresh, TypeShowDashboard, TypeOtherDevice
<1>7. ASSUME NEW r \in requests, Paint(r) \/ Serve(r) \/ Fail(r) \/ Settles(r) PROVE TypeInv'
  <2>1. CASE Paint(r) \/ Serve(r) \/ Fail(r)  BY <2>1, TypePaint, TypeServe, TypeFail
  <2>2. CASE Settles(r)
    BY <2>2, TypeToggleSettles, TypeQuantitySettles, TypeDeleteSettles, TypeOpenSettles,
       TypeRefreshSettles DEF Settles
  <2> QED  BY <1>7, <2>1, <2>2
<1>8. CASE UNCHANGED vars  BY <1>8, TypeStutter
<1> QED  BY <1>1, <1>2, <1>3, <1>4, <1>5, <1>6, <1>7, <1>8 DEF Next

\* The invariant implies the types the runs check.
LEMMA TypeImplies ==
    ASSUME TypeInv
    PROVE  TypeOK
<1>1. DOMAIN heap = 1 .. Len(heap)  BY LenProperties DEF TypeInv, PageInv
<1>2. ASSUME NEW n \in DOMAIN heap
      PROVE  heap[n].list \in Lists /\ heap[n].items \in [ItemsOf(heap[n].list) -> Object]
  BY HeapObjects DEF TypeInv
<1>3. ASSUME NEW t \in toasts PROVE t.at \in DOMAIN heap /\ t.ids \subseteq DOMAIN heap[t.at].items
  <2>1. ToastShape(t)  BY DEF TypeInv, WaitingInv
  <2> QED  BY <1>2, <2>1 DEF ToastShape
<1>4. \A p \in pendingToggles : p.at \in DOMAIN heap /\ p.before \in BOOLEAN
  BY DEF TypeInv, WaitingInv, ToggleShape
<1>5. \A p \in pendingQuantityUpdates : p.at \in DOMAIN heap /\ p.before \in 1 .. MaxQuantity
  BY DEF TypeInv, WaitingInv, QuantityShape
<1>6. \A r \in requests : r.pc \in {"cache", "sent", "answered", "failed"}
  BY DEF TypeInv, RequestsInv, RequestShape, Requests
<1> QED  BY <1>2, <1>3, <1>4, <1>5, <1>6 DEF TypeInv, TypeOK, ServerInv, PageInv

\* The types of the page: what waits, and what is in progress, goes on naming the objects it
\* was made for, however lists are loaded, left and opened again in the meantime.
THEOREM TypeCorrect == Spec => []TypeOK
<1>1. Init => TypeInv  BY TypeInit
<1>2. TypeInv /\ [Next]_vars => TypeInv'  BY TypeNext
<1>3. TypeInv => TypeOK  BY TypeImplies
<1> QED  BY <1>1, <1>2, <1>3, PTL DEF Spec

-----------------------------------------------------------------------------
(* Toasts *)

\* A toast's identity goes to its requests when it is sent, to undone when it is clicked,
\* and to nothing else.
IdInv ==
    /\ \A t \in toasts : t.id \in 1 .. seq /\ t.id \notin undone
    /\ \A t, u \in toasts : t.id = u.id => t = u
    /\ undone \subseteq 1 .. seq
    /\ \A r \in requests : r.id \in 1 .. seq /\ r.id \notin undone
    /\ \A r \in requests, t \in toasts : r.id # t.id

\* The toast of one item, rather than of a selection, has no other.
SingleInv == \A t \in toasts : ~t.bulk => \A i, j \in t.ids : i = j

\* Such a toast that marks its item is the one its item waits with.
OwnerInv ==
    \A t \in toasts : t.kind = "done" /\ ~t.bulk =>
        \A i \in t.ids : {p.toast : p \in Pending(t.at, i)} = {t.id}

\* An item waits once, with a toast on screen that is about it and puts back the same.
WaitsOnce == \A p, q \in pendingToggles : p.at = q.at /\ p.item = q.item => p = q

Waits(p, t) ==
    /\ p.toast = t.id /\ p.at = t.at /\ p.item \in t.ids
    /\ t.kind = "done" /\ t.before[p.item] = p.before

WaitsInv == \A p \in pendingToggles : \E t \in toasts : Waits(p, t)

ToastInv == SingleInv /\ OwnerInv /\ WaitsOnce /\ WaitsInv

\* Marking the requests keeps their identities.
LEMMA NotAloneIds ==
    ASSUME TypeInv, NEW R, R \subseteq requests, NEW r \in NotAlone(R)
    PROVE  \E q \in R : q.id = r.id
<1>1. PICK q \in R : r = [q EXCEPT !.alone = FALSE]  BY DEF NotAlone
<1>2. q \in Requests  BY DEF TypeInv, RequestsInv, RequestShape
<1>3. r.id = q.id  BY <1>1, <1>2 DEF Requests
<1> QED  BY <1>3

\* A step that makes at most one identity, of a toast or of a request.
LEMMA IdsKept ==
    ASSUME TypeInv, IdInv, undone' = undone,
           \/ (seq' = seq \/ seq' = seq + 1) /\ toasts' \subseteq toasts
           \/ seq' = seq + 1 /\ \E new : toasts' \subseteq toasts \cup {new} /\ new.id = seq + 1,
           \A r \in requests' : (\E q \in requests : q.id = r.id)
                                \/ (seq' = seq + 1 /\ r.id = seq + 1 /\ toasts' \subseteq toasts)
    PROVE  IdInv'
<1>0. seq \in Nat  BY DEF TypeInv, PageInv
<1>1. CASE toasts' \subseteq toasts
  <2>1. seq' \in Nat /\ seq <= seq' /\ (seq' = seq + 1 => seq + 1 \in 1 .. seq')
    BY <1>0
  <2>2. 1 .. seq \subseteq 1 .. seq'  BY <1>0, <2>1
  <2>3. seq + 1 \notin undone  BY <1>0 DEF IdInv
  <2>4. \A t \in toasts : t.id # seq + 1  BY <1>0 DEF IdInv
  <2>5. \A r \in requests' : r.id \in 1 .. seq' /\ r.id \notin undone
    BY <2>1, <2>2, <2>3 DEF IdInv
  <2>6. \A r \in requests', t \in toasts' : r.id # t.id
    BY <1>1, <2>4 DEF IdInv
  <2>7. /\ \A t \in toasts' : t.id \in 1 .. seq' /\ t.id \notin undone
        /\ \A t, u \in toasts' : t.id = u.id => t = u
        /\ undone \subseteq 1 .. seq'
    BY <1>1, <2>2 DEF IdInv
  <2> QED  BY <2>5, <2>6, <2>7 DEF IdInv
<1>2. CASE ~(toasts' \subseteq toasts)
  <2>1. PICK new : /\ toasts' \subseteq toasts \cup {new} /\ new.id = seq + 1
                   /\ seq' = seq + 1
    BY <1>2
  <2>2. \A r \in requests' : \E q \in requests : q.id = r.id  BY <1>2
  <2>3. 1 .. seq \subseteq 1 .. seq' /\ new.id \in 1 .. seq' /\ new.id \notin 1 .. seq
    BY <1>0, <2>1
  <2>4. new.id \notin undone  BY <2>3 DEF IdInv
  <2>5. \A t \in toasts : t.id # new.id  BY <2>3 DEF IdInv
  <2>6. \A r \in requests' : r.id \in 1 .. seq' /\ r.id \notin undone /\ r.id # new.id
    BY <2>2, <2>3 DEF IdInv
  <2>7. \A r \in requests', t \in toasts' : r.id # t.id
    BY <2>1, <2>2, <2>6 DEF IdInv
  <2>8. \A t \in toasts' : t.id \in 1 .. seq' /\ t.id \notin undone
    BY <2>1, <2>3, <2>4 DEF IdInv
  <2>9. \A t, u \in toasts' : t.id = u.id => t = u
    BY <2>1, <2>5 DEF IdInv
  <2>10. undone \subseteq 1 .. seq'  BY <2>3 DEF IdInv
  <2> QED  BY <2>6, <2>7, <2>8, <2>9, <2>10 DEF IdInv
<1> QED  BY <1>1, <1>2

\* A toast undone takes its identity with it, from the toasts to `undone`.
LEMMA IdUndo ==
    ASSUME TypeInv, IdInv, NEW t \in toasts, Undo(t)
    PROVE  IdInv'
<1>1. /\ toasts' = toasts \ {t} /\ undone' = undone \cup {t.id}
      /\ requests' = requests /\ seq' = seq
  BY DEF Undo, Closed
<1>2. \A u \in toasts' : u.id \in 1 .. seq /\ u.id \notin undone'
  BY <1>1 DEF IdInv
<1>3. \A r \in requests' : r.id \in 1 .. seq /\ r.id \notin undone'
  BY <1>1 DEF IdInv
<1>4. undone' \subseteq 1 .. seq  BY <1>1 DEF IdInv
<1> QED  BY <1>1, <1>2, <1>3, <1>4 DEF IdInv

\* The requests of a toast take its identity, as it leaves the screen.
LEMMA IdCommit ==
    ASSUME TypeInv, IdInv, NEW t \in toasts, Commit(t)
    PROVE  IdInv'
<1>1. /\ toasts' = toasts \ {t} /\ undone' = undone /\ seq' = seq
      /\ requests' = NotAlone(requests) \cup
            {Request(t.id, t.kind, t.at, t.list, i, t.value, t.before[i]) : i \in Owned(t)}
  BY DEF Commit, Closed
<1>2. \A r \in requests' : r.id = t.id \/ \E q \in requests : q.id = r.id
  <2> SUFFICES ASSUME NEW r \in requests' PROVE r.id = t.id \/ \E q \in requests : q.id = r.id
    OBVIOUS
  <2>1. CASE r \in NotAlone(requests)  BY <2>1, NotAloneIds
  <2>2. CASE r \notin NotAlone(requests)
    <3>1. PICK i \in Owned(t) :
            r = Request(t.id, t.kind, t.at, t.list, i, t.value, t.before[i])
      BY <1>1, <2>2
    <3> QED  BY <3>1 DEF Request
  <2> QED  BY <2>1, <2>2
<1>3. t.id \in 1 .. seq /\ t.id \notin undone /\ \A u \in toasts \ {t} : u.id # t.id
  BY DEF IdInv
<1>4. \A r \in requests' : r.id \in 1 .. seq /\ r.id \notin undone
  BY <1>2, <1>3 DEF IdInv
<1>5. \A r \in requests', u \in toasts' : r.id # u.id
  BY <1>1, <1>2, <1>3 DEF IdInv
<1> QED  BY <1>1, <1>4, <1>5 DEF IdInv

\* A request that goes on keeps its identity.
LEMMA GoesOn ==
    ASSUME TypeInv, NEW r \in requests, Paint(r) \/ Serve(r) \/ Fail(r)
    PROVE  \A q \in requests' : \E p \in requests : p.id = q.id
<1>1. r \in Requests  BY DEF TypeInv, RequestsInv, RequestShape
<1>2. \A pc, at, answer : /\ [r EXCEPT !.pc = pc].id = r.id
                          /\ [r EXCEPT !.pc = pc, !.at = at].id = r.id
                          /\ [r EXCEPT !.pc = pc, !.answer = answer].id = r.id
  BY <1>1 DEF Requests
<1>3. \E s : s.id = r.id /\ requests' = (requests \ {r}) \cup {s}
  <2>1. CASE Paint(r)
    <3>1. PICK at : at = IF mirror[r.list] = None THEN 0 ELSE Len(heap')  OBVIOUS
    <3>2. PICK s : s = [r EXCEPT !.pc = "sent", !.at = at]  OBVIOUS
    <3>3. requests' = (requests \ {r}) \cup {s}  BY <2>1, <3>1, <3>2 DEF Paint
    <3> QED  BY <1>2, <3>2, <3>3
  <2>2. CASE Serve(r) /\ r.item = None
    <3>1. PICK rows : rows = ServerList(r.list)  OBVIOUS
    <3>2. PICK s : s = [r EXCEPT !.pc = "answered", !.answer = rows]  OBVIOUS
    <3>3. requests' = (requests \ {r}) \cup {s}
      BY <2>2, <3>1, <3>2 DEF Serve, Progress
    <3> QED  BY <1>2, <3>2, <3>3
  <2>3. CASE Serve(r) /\ r.item # None /\ server[r.item].there
    <3>1. PICK row : row = Written(r)  OBVIOUS
    <3>2. PICK s : s = [r EXCEPT !.pc = "answered", !.answer = row]  OBVIOUS
    <3>3. requests' = (requests \ {r}) \cup {s}
      BY <2>3, <3>1, <3>2 DEF Serve, Progress
    <3> QED  BY <1>2, <3>2, <3>3
  <2>4. CASE Fail(r) \/ (Serve(r) /\ r.item # None /\ ~server[r.item].there)
    <3>1. PICK s : s = [r EXCEPT !.pc = "failed"]  OBVIOUS
    <3>2. requests' = (requests \ {r}) \cup {s}
      BY <2>4, <3>1 DEF Fail, Serve, Progress
    <3> QED  BY <1>2, <3>1, <3>2
  <2> QED  BY <2>1, <2>2, <2>3, <2>4
<1> QED  BY <1>3

\* Every step keeps the requests apart from what was undone.
LEMMA IdNext ==
    ASSUME TypeInv, IdInv, [Next]_vars
    PROVE  IdInv'
<1>1. ASSUME NEW S, NEW bulk, Toggle(S, bulk) \/ Remove(S, bulk) PROVE IdInv'
  <2>1. undone' = undone /\ seq' = seq + 1 /\ requests' = NotAlone(requests)
    BY <1>1 DEF Toggle, Remove
  <2>2. \E new : toasts' \subseteq toasts \cup {new} /\ new.id = seq + 1
    <3>1. CASE Toggle(S, bulk)
      <4>1. PICK before, entries, value :
              toasts' \subseteq toasts \cup
                {[id |-> seq + 1, kind |-> "done", bulk |-> bulk, at |-> currentList,
                  list |-> currentListId, ids |-> entries, value |-> value,
                  before |-> before]}
        BY <3>1 DEF Toggle
      <4>2. PICK new : new = [id |-> seq + 1, kind |-> "done", bulk |-> bulk, at |-> currentList,
                              list |-> currentListId, ids |-> entries, value |-> value,
                              before |-> before]
        OBVIOUS
      <4> QED  BY <4>1, <4>2
    <3>2. CASE Remove(S, bulk)
      <4>1. PICK l, before :
              toasts' \subseteq toasts \cup
                {[id |-> seq + 1, kind |-> "delete", bulk |-> bulk, at |-> currentList,
                  list |-> l, ids |-> S, value |-> None, before |-> before]}
        BY <3>2 DEF Remove
      <4>2. PICK new : new = [id |-> seq + 1, kind |-> "delete", bulk |-> bulk,
                              at |-> currentList, list |-> l, ids |-> S, value |-> None,
                              before |-> before]
        OBVIOUS
      <4> QED  BY <4>1, <4>2
    <3> QED  BY <1>1, <3>1, <3>2
  <2>3. \A r \in requests' : \E q \in requests : q.id = r.id  BY <2>1, NotAloneIds
  <2> QED  BY <2>1, <2>2, <2>3, IdsKept
<1>2. ASSUME NEW i \in Items, NEW quantity \in 1 .. MaxQuantity, ChangeQuantity(i, quantity)
      PROVE  IdInv'
  <2>1. undone' = undone /\ seq' = seq + 1 /\ toasts' = toasts  BY <1>2 DEF ChangeQuantity
  <2>2. \E before : requests' = NotAlone(requests) \cup
          {Request(seq + 1, "quantity", currentList, ListOf[i], i, quantity, before)}
    BY <1>2 DEF ChangeQuantity
  <2>3. \A r \in requests' : (\E q \in requests : q.id = r.id) \/ r.id = seq + 1
    BY <2>2, NotAloneIds DEF Request
  <2> QED  BY <2>1, <2>3, IdsKept
<1>3. ASSUME NEW t \in toasts, Undo(t) \/ Commit(t) PROVE IdInv'
  BY <1>3, IdUndo, IdCommit
<1>4. ASSUME NEW kind, NEW l, NEW at, NEW pc, NEW alone,
             Start(Load(kind, l, at, pc, alone)), UNCHANGED <<toasts, undone>>
      PROVE  IdInv'
  <2>1. /\ requests' = NotAlone(requests) \cup {Load(kind, l, at, pc, alone)}
        /\ seq' = seq + 1
    BY <1>4 DEF Start
  <2>2. \A r \in requests' : (\E q \in requests : q.id = r.id) \/ r.id = seq + 1
    BY <2>1, NotAloneIds DEF Load
  <2> QED  BY <1>4, <2>1, <2>2, IdsKept
<1>5. ASSUME NEW l \in Lists, SelectList(l) PROVE IdInv'
  BY <1>4, <1>5 DEF SelectList, pendings
<1>6. CASE Refresh  BY <1>4, <1>6 DEF Refresh, pendings
<1>7. CASE ShowDashboard \/ OtherDevice
  <2>1. UNCHANGED <<toasts, undone, seq>>  BY <1>7 DEF ShowDashboard, OtherDevice, pendings
  <2>2. requests' = requests \/ requests' = NotAlone(requests)
    BY <1>7 DEF ShowDashboard, OtherDevice
  <2>3. \A r \in requests' : \E q \in requests : q.id = r.id  BY <2>2, NotAloneIds
  <2> QED  BY <2>1, <2>3, IdsKept
<1>8. ASSUME NEW r \in requests, Paint(r) \/ Serve(r) \/ Fail(r) PROVE IdInv'
  <2>1. UNCHANGED <<toasts, undone, seq>>  BY <1>8 DEF Paint, Serve, Fail, pendings
  <2>2. \A q \in requests' : \E p \in requests : p.id = q.id  BY <1>8, GoesOn
  <2> QED  BY <2>1, <2>2, IdsKept
<1>9. ASSUME NEW r \in requests, Settles(r) PROVE IdInv'
  <2>1. UNCHANGED <<toasts, undone>>
    BY <1>9 DEF Settles, ToggleSettles, QuantitySettles, DeleteSettles, OpenSettles,
       RefreshSettles, pendings
  <2>2. CASE requests' = requests \ {r} /\ seq' = seq
    <3>1. \A q \in requests' : \E p \in requests : p.id = q.id  BY <2>2
    <3> QED  BY <2>1, <2>2, <3>1, IdsKept
  <2>3. CASE ~(requests' = requests \ {r} /\ seq' = seq)
    <3>1. /\ \E alone : requests' = NotAlone(requests \ {r}) \cup
                {Load("refresh", currentListId, currentList, "sent", alone)}
          /\ seq' = seq + 1
      BY <1>9, <2>3 DEF Settles, ToggleSettles, QuantitySettles, DeleteSettles, OpenSettles,
         RefreshSettles
    <3>2. requests \ {r} \subseteq requests  OBVIOUS
    <3>3. \A q \in requests' : (\E p \in requests : p.id = q.id) \/ q.id = seq + 1
      BY <3>1, <3>2, NotAloneIds DEF Load
    <3> QED  BY <2>1, <3>1, <3>3, IdsKept
  <2> QED  BY <2>2, <2>3
<1>10. CASE UNCHANGED vars  BY <1>10 DEF vars, pendings, IdInv
<1> QED  BY <1>1, <1>2, <1>3, <1>5, <1>6, <1>7, <1>8, <1>9, <1>10 DEF Next

\* undo.js: "Exactly one of the two ever runs".  What a toast's button has put back is never
\* sent, nor is it being sent when the button is clicked.
THEOREM UndoneStays == Spec => []UndoneIsNeverSent
<1>1. Init => TypeInv /\ IdInv
  <2>1. Init => IdInv  BY DEF Init, IdInv
  <2> QED  BY <2>1, TypeInit
<1>2. TypeInv /\ IdInv /\ [Next]_vars => TypeInv' /\ IdInv'  BY TypeNext, IdNext
<1>3. TypeInv /\ IdInv => UndoneIsNeverSent  BY DEF IdInv, UndoneIsNeverSent
<1> QED  BY <1>1, <1>2, <1>3, PTL DEF Spec

\* The toast an item waits with is the only one with its identity.
LEMMA ToastOf ==
    ASSUME TypeInv, IdInv, ToastInv, NEW p \in pendingToggles, NEW t \in toasts, p.toast = t.id
    PROVE  Waits(p, t)
<1>1. PICK u \in toasts : Waits(p, u)  BY DEF ToastInv, WaitsInv
<1>2. u = t  BY <1>1 DEF Waits, IdInv
<1> QED  BY <1>1, <1>2

\* The toasts that a change of S takes down are those of items of S, and no other's.
LEMMA SupersededToasts ==
    ASSUME TypeInv, IdInv, ToastInv, NEW S, NEW t \in Superseded(S)
    PROVE  /\ t \in toasts /\ ~t.bulk /\ t.at = currentList /\ t.kind = "done"
           /\ t.ids \subseteq S
<1>1. /\ t \in toasts /\ ~t.bulk
      /\ \E i \in S : \E p \in Pending(currentList, i) : p.toast = t.id
  BY DEF Superseded
<1>2. PICK i \in S : \E p \in Pending(currentList, i) : p.toast = t.id  BY <1>1
<1>3. PICK p \in Pending(currentList, i) : p.toast = t.id  BY <1>2
<1>4. p \in pendingToggles /\ p.at = currentList /\ p.item = i  BY <1>3 DEF Pending
<1>5. Waits(p, t)  BY <1>1, <1>3, <1>4, ToastOf
<1>6. \A j \in t.ids : j = i  BY <1>1, <1>4, <1>5 DEF Waits, ToastInv, SingleInv
<1> QED  BY <1>1, <1>4, <1>5, <1>6 DEF Waits

\* A step that takes items off the waiting, and every toast they wait with.
LEMMA ToastsLeft ==
    ASSUME TypeInv, IdInv, ToastInv, NEW at, NEW S,
           pendingToggles' = Without(pendingToggles, at, S),
           toasts' \subseteq toasts,
           \A t \in toasts \ toasts', p \in pendingToggles :
               Waits(p, t) => p.at = at /\ p.item \in S,
           \A t \in toasts' : t.kind = "done" /\ ~t.bulk /\ t.at = at => t.ids \cap S = {}
    PROVE  ToastInv'
<1>1. SingleInv'  BY DEF ToastInv, SingleInv
<1>2. WaitsOnce'  BY DEF ToastInv, WaitsOnce, Without
<1>3. WaitsInv'
  <2> SUFFICES ASSUME NEW p \in pendingToggles' PROVE \E t \in toasts' : Waits(p, t)
    BY DEF WaitsInv, Waits
  <2>1. p \in pendingToggles /\ (p.at # at \/ p.item \notin S)  BY DEF Without
  <2>2. PICK t \in toasts : Waits(p, t)  BY <2>1 DEF ToastInv, WaitsInv
  <2> QED  BY <2>1, <2>2
<1>4. OwnerInv'
  <2> SUFFICES ASSUME NEW t \in toasts', t.kind = "done", ~t.bulk, NEW i \in t.ids
               PROVE  {p.toast : p \in Pending(t.at, i)'} = {t.id}
    BY DEF OwnerInv, Pending
  <2>1. Pending(t.at, i)' = Pending(t.at, i)  BY DEF Pending, Without
  <2>2. {p.toast : p \in Pending(t.at, i)} = {t.id}  BY DEF ToastInv, OwnerInv
  <2> QED  BY <2>1, <2>2
<1> QED  BY <1>1, <1>2, <1>3, <1>4 DEF ToastInv

\* Items checked while a toast still covers them are handed over to the new one.
LEMMA ToastToggle ==
    ASSUME TypeInv, IdInv, ToastInv, NEW S \in SUBSET Items, NEW bulk \in BOOLEAN,
           ~bulk => (\A i \in S, j \in S : i = j), Toggle(S, bulk)
    PROVE  ToastInv'
<1>1. PICK before, entries, toast :
        /\ entries \subseteq S
        /\ toast.id = seq + 1 /\ toast.kind = "done" /\ toast.bulk = bulk
        /\ toast.at = currentList /\ toast.ids = entries /\ toast.before = before
        /\ toasts' = (toasts \ Superseded(S)) \cup (IF entries = {} THEN {} ELSE {toast})
        /\ pendingToggles' = Without(pendingToggles, currentList, S) \cup
             {[at |-> currentList, item |-> i, toast |-> seq + 1, before |-> before[i]] :
                 i \in entries}
  <2>1. PICK value : value = ~\A i \in S : Shown(i).done  OBVIOUS
  <2>2. PICK before : before = [i \in S |-> IF Pending(currentList, i) = {} THEN Shown(i).done
                                  ELSE (CHOOSE p \in Pending(currentList, i) : TRUE).before]
    OBVIOUS
  <2>3. PICK entries : entries = {i \in S : before[i] # value}  OBVIOUS
  <2>4. PICK toast : toast =
          [id |-> seq + 1, kind |-> "done", bulk |-> bulk, at |-> currentList,
           list |-> currentListId, ids |-> entries, value |-> value, before |-> before]
    OBVIOUS
  <2>5. /\ toasts' = (toasts \ Superseded(S)) \cup (IF entries = {} THEN {} ELSE {toast})
        /\ pendingToggles' = Without(pendingToggles, currentList, S) \cup
             {[at |-> currentList, item |-> i, toast |-> seq + 1, before |-> before[i]] :
                 i \in entries}
    BY <2>1, <2>2, <2>3, <2>4 DEF Toggle
  <2>6. entries \subseteq S  BY <2>3
  <2>7. /\ toast.id = seq + 1 /\ toast.kind = "done" /\ toast.bulk = bulk
        /\ toast.at = currentList /\ toast.ids = entries /\ toast.before = before
    BY <2>4
  <2> QED  BY <2>5, <2>6, <2>7
<1>2. \A t \in toasts' : t \in toasts \ Superseded(S) \/ (t = toast /\ entries # {})
  BY <1>1
<1>3. entries # {} => toast \in toasts'  BY <1>1
<1>4. ASSUME NEW p \in pendingToggles'
      PROVE  \/ p \in pendingToggles /\ (p.at # currentList \/ p.item \notin S)
             \/ /\ p.at = currentList /\ p.item \in entries /\ p.toast = seq + 1
                /\ p.before = before[p.item] /\ entries # {}
                /\ p = [at |-> currentList, item |-> p.item, toast |-> seq + 1,
                        before |-> before[p.item]]
  <2>1. CASE p \in Without(pendingToggles, currentList, S)  BY <2>1 DEF Without
  <2>2. CASE p \notin Without(pendingToggles, currentList, S)
    <3>1. PICK i \in entries : p = [at |-> currentList, item |-> i, toast |-> seq + 1,
                                    before |-> before[i]]
      BY <1>1, <2>2
    <3> QED  BY <3>1
  <2> QED  BY <2>1, <2>2
<1>5. SingleInv'  BY <1>1, <1>2 DEF ToastInv, SingleInv
<1>6. WaitsOnce'
  <2> SUFFICES ASSUME NEW p \in pendingToggles', NEW q \in pendingToggles',
                      p.at = q.at, p.item = q.item
               PROVE  p = q
    BY DEF WaitsOnce
  <2> QED  BY <1>1, <1>4 DEF ToastInv, WaitsOnce
<1>7. WaitsInv'
  <2> SUFFICES ASSUME NEW p \in pendingToggles' PROVE \E t \in toasts' : Waits(p, t)
    BY DEF WaitsInv, Waits
  <2>1. CASE p \in pendingToggles /\ (p.at # currentList \/ p.item \notin S)
    <3>1. PICK t \in toasts : Waits(p, t)  BY <2>1 DEF ToastInv, WaitsInv
    <3>2. t \notin Superseded(S)  BY <2>1, <3>1, SupersededToasts DEF Waits
    <3> QED  BY <1>1, <3>1, <3>2
  <2>2. CASE /\ p.at = currentList /\ p.item \in entries /\ p.toast = seq + 1
             /\ p.before = before[p.item] /\ entries # {}
    <3>1. Waits(p, toast)  BY <1>1, <2>2 DEF Waits
    <3> QED  BY <1>3, <2>2, <3>1
  <2> QED  BY <1>4, <2>1, <2>2
<1>8. OwnerInv'
  <2> SUFFICES ASSUME NEW t \in toasts', t.kind = "done", ~t.bulk, NEW i \in t.ids
               PROVE  {p.toast : p \in Pending(t.at, i)'} = {t.id}
    BY DEF OwnerInv, Pending
  <2>1. CASE t \in toasts \ Superseded(S)
    <3>1. {p.toast : p \in Pending(t.at, i)} = {t.id}  BY <2>1 DEF ToastInv, OwnerInv
    <3>2. t.at # currentList \/ i \notin S
      <4>1. SUFFICES ASSUME t.at = currentList, i \in S PROVE FALSE  OBVIOUS
      <4>2. \E p \in Pending(currentList, i) : p.toast = t.id  BY <3>1, <4>1
      <4> QED  BY <2>1, <4>1, <4>2 DEF Superseded
    <3>3. Pending(t.at, i) \subseteq Pending(t.at, i)'
      BY <1>1, <3>2 DEF Pending, Without
    <3>4. Pending(t.at, i)' \subseteq Pending(t.at, i)
      BY <1>1, <1>4, <3>2 DEF Pending
    <3> QED  BY <3>1, <3>3, <3>4
  <2>2. CASE t = toast /\ entries # {}
    <3>1. t.at = currentList /\ i \in entries /\ t.id = seq + 1 /\ i \in S  BY <1>1, <2>2
    <3>2. \A p \in Pending(t.at, i)' : p.toast = seq + 1
      BY <1>4, <3>1 DEF Pending
    <3>3. PICK p : p = [at |-> currentList, item |-> i, toast |-> seq + 1,
                        before |-> before[i]]
      OBVIOUS
    <3>4. p \in Pending(t.at, i)'  BY <1>1, <3>1, <3>3 DEF Pending
    <3>5. p.toast = t.id  BY <3>1, <3>3
    <3> QED  BY <3>1, <3>2, <3>4, <3>5
  <2> QED  BY <1>2, <2>1, <2>2
<1> QED  BY <1>5, <1>6, <1>7, <1>8 DEF ToastInv

\* Items taken off the page leave the toast that covered them.
LEMMA ToastRemove ==
    ASSUME TypeInv, IdInv, ToastInv, NEW S \in SUBSET Items, NEW bulk \in BOOLEAN,
           ~bulk => (\A i \in S, j \in S : i = j), Remove(S, bulk)
    PROVE  ToastInv'
<1>1. PICK toast :
        /\ toast.kind = "delete" /\ toast.bulk = bulk /\ toast.ids = S
        /\ toasts' = (toasts \ Superseded(S)) \cup {toast}
  <2>1. PICK toast : toast =
          [id |-> seq + 1, kind |-> "delete", bulk |-> bulk, at |-> currentList,
           list |-> heap[currentList].list, ids |-> S, value |-> None,
           before |-> [i \in S |-> None]]
    OBVIOUS
  <2> QED  BY <2>1 DEF Remove
<1>2. pendingToggles' = Without(pendingToggles, currentList, S)  BY DEF Remove
<1>3. SingleInv'  BY <1>1 DEF ToastInv, SingleInv
<1>4. WaitsOnce'  BY <1>2 DEF ToastInv, WaitsOnce, Without
<1>5. WaitsInv'
  <2> SUFFICES ASSUME NEW p \in pendingToggles' PROVE \E t \in toasts' : Waits(p, t)
    BY DEF WaitsInv, Waits
  <2>1. p \in pendingToggles /\ (p.at # currentList \/ p.item \notin S)
    BY <1>2 DEF Without
  <2>2. PICK t \in toasts : Waits(p, t)  BY <2>1 DEF ToastInv, WaitsInv
  <2>3. t \notin Superseded(S)  BY <2>1, <2>2, SupersededToasts DEF Waits
  <2> QED  BY <1>1, <2>2, <2>3
<1>6. OwnerInv'
  <2> SUFFICES ASSUME NEW t \in toasts', t.kind = "done", ~t.bulk, NEW i \in t.ids
               PROVE  {p.toast : p \in Pending(t.at, i)'} = {t.id}
    BY DEF OwnerInv, Pending
  <2>1. t \in toasts \ Superseded(S)  BY <1>1
  <2>2. {p.toast : p \in Pending(t.at, i)} = {t.id}  BY <2>1 DEF ToastInv, OwnerInv
  <2>3. t.at # currentList \/ i \notin S
    <3>1. SUFFICES ASSUME t.at = currentList, i \in S PROVE FALSE  OBVIOUS
    <3>2. \E p \in Pending(currentList, i) : p.toast = t.id  BY <2>2, <3>1
    <3> QED  BY <2>1, <3>1, <3>2 DEF Superseded
  <2>4. Pending(t.at, i)' = Pending(t.at, i)  BY <1>2, <2>3 DEF Pending, Without
  <2> QED  BY <2>2, <2>4
<1> QED  BY <1>3, <1>4, <1>5, <1>6 DEF ToastInv

\* A toast leaves the screen, clicked or sent.
LEMMA ToastLeaves ==
    ASSUME TypeInv, IdInv, ToastInv, NEW t \in toasts, toasts' = toasts \ {t},
           pendingToggles' = IF t.kind = "delete" THEN pendingToggles
                             ELSE Without(pendingToggles, t.at, Owned(t))
    PROVE  ToastInv'
<1>0. t.kind \in {"done", "delete"} /\ t.bulk \in BOOLEAN
  BY DEF TypeInv, WaitingInv, ToastShape, Toast
<1>1. CASE t.kind = "delete"
  <2>1. pendingToggles' = Without(pendingToggles, t.at, {})
    BY <1>1 DEF Without
  <2>2. \A p \in pendingToggles : ~Waits(p, t)  BY <1>1 DEF Waits
  <2>3. \A u \in toasts \ toasts', p \in pendingToggles :
          Waits(p, u) => p.at = t.at /\ p.item \in {}
    BY <2>2
  <2> QED  BY <2>1, <2>3, ToastsLeft
<1>2. CASE t.kind # "delete"
  <2>1. pendingToggles' = Without(pendingToggles, t.at, Owned(t))  BY <1>2
  <2>2. \A p \in pendingToggles : Waits(p, t) => p.at = t.at /\ p.item \in Owned(t)
    BY DEF Waits, Owned, Pending
  <2>3. ASSUME NEW u \in toasts', u.kind = "done", ~u.bulk, u.at = t.at,
               NEW i \in u.ids, i \in Owned(t)
        PROVE  FALSE
    <3>1. u \in toasts /\ u.id # t.id  BY DEF IdInv
    <3>2. {p.toast : p \in Pending(t.at, i)} = {u.id}
      BY <2>3, <3>1 DEF ToastInv, OwnerInv
    <3>3. \E p \in Pending(t.at, i) : p.toast = t.id
      <4>1. CASE t.bulk  BY <1>2, <2>3, <4>1 DEF Owned
      <4>2. CASE ~t.bulk
        <5>1. i \in t.ids /\ t.kind = "done"  BY <1>0, <1>2, <2>3, <4>2 DEF Owned
        <5>2. {p.toast : p \in Pending(t.at, i)} = {t.id}
          BY <4>2, <5>1 DEF ToastInv, OwnerInv
        <5> QED  BY <5>2
      <4> QED  BY <4>1, <4>2
    <3> QED  BY <3>1, <3>2, <3>3
  <2>4. \A u \in toasts' : u.kind = "done" /\ ~u.bulk /\ u.at = t.at => u.ids \cap Owned(t) = {}
    BY <2>3
  <2>5. \A u \in toasts \ toasts', p \in pendingToggles :
          Waits(p, u) => p.at = t.at /\ p.item \in Owned(t)
    BY <2>2
  <2> QED  BY <2>1, <2>4, <2>5, ToastsLeft
<1> QED  BY <1>1, <1>2

\* A step that leaves the toasts.
LEMMA ToastSame ==
    ASSUME ToastInv, UNCHANGED <<toasts, pendingToggles>>
    PROVE  ToastInv'
BY DEF ToastInv, SingleInv, OwnerInv, WaitsOnce, WaitsInv, Waits, Pending

\* Every step keeps one toast per item.
LEMMA ToastNext ==
    ASSUME TypeInv, IdInv, ToastInv, [Next]_vars
    PROVE  ToastInv'
<1>1. ASSUME NEW i \in Items, Toggle({i}, FALSE) \/ Remove({i}, FALSE) PROVE ToastInv'
  BY <1>1, ToastToggle, ToastRemove
<1>2. ASSUME NEW S \in Selections, Toggle(S, TRUE) \/ Remove(S, TRUE) PROVE ToastInv'
  BY <1>2, ToastToggle, ToastRemove, ListPageAssumption
<1>3. ASSUME NEW t \in toasts, Undo(t) PROVE ToastInv'
  <2>1. /\ toasts' = toasts \ {t}
        /\ pendingToggles' = IF t.kind = "delete" THEN pendingToggles
                             ELSE Without(pendingToggles, t.at, Owned(t))
    BY <1>3 DEF Undo, Closed
  <2> QED  BY <2>1, ToastLeaves
<1>4. ASSUME NEW t \in toasts, Commit(t) PROVE ToastInv'
  <2>1. /\ toasts' = toasts \ {t}
        /\ pendingToggles' = IF t.kind = "delete" THEN pendingToggles
                             ELSE Without(pendingToggles, t.at, Owned(t))
    BY <1>4 DEF Commit, Closed
  <2> QED  BY <2>1, ToastLeaves
<1>5. CASE \/ \E i \in Items, quantity \in 1 .. MaxQuantity : ChangeQuantity(i, quantity)
           \/ \E l \in Lists : SelectList(l)
           \/ Refresh \/ ShowDashboard \/ OtherDevice
           \/ \E r \in requests : Paint(r) \/ Serve(r) \/ Fail(r) \/ Settles(r)
           \/ UNCHANGED vars
  <2>1. CASE \E i \in Items, quantity \in 1 .. MaxQuantity : ChangeQuantity(i, quantity)
    BY <2>1, ToastSame DEF ChangeQuantity
  <2>2. CASE \E l \in Lists : SelectList(l)
    BY <2>2, ToastSame DEF SelectList, pendings
  <2>3. CASE Refresh \/ ShowDashboard \/ OtherDevice
    BY <2>3, ToastSame DEF Refresh, ShowDashboard, OtherDevice, pendings
  <2>4. CASE \E r \in requests : Paint(r) \/ Serve(r) \/ Fail(r)
    BY <2>4, ToastSame DEF Paint, Serve, Fail, pendings
  <2>5. CASE \E r \in requests : Settles(r)
    BY <2>5, ToastSame DEF Settles, ToggleSettles, QuantitySettles, DeleteSettles,
       OpenSettles, RefreshSettles, pendings
  <2>6. CASE UNCHANGED vars  BY <2>6, ToastSame DEF vars, pendings
  <2> QED  BY <1>5, <2>1, <2>2, <2>3, <2>4, <2>5, <2>6
<1> QED  BY <1>1, <1>2, <1>3, <1>4, <1>5 DEF Next

\* However toggles of one item and of a selection follow each other, an item waits with one
\* toast, on screen, that puts back what it had before; and a single item's toast that takes
\* the item's place in a selection's is the only one that would send it.
THEOREM TogglesHandOver == Spec => []OneToastPerToggle
<1>1. Init => TypeInv /\ IdInv /\ ToastInv
  <2>1. Init => IdInv /\ ToastInv
    BY DEF Init, IdInv, ToastInv, SingleInv, OwnerInv, WaitsOnce, WaitsInv
  <2> QED  BY <2>1, TypeInit
<1>2. TypeInv /\ IdInv /\ ToastInv /\ [Next]_vars => TypeInv' /\ IdInv' /\ ToastInv'
  BY TypeNext, IdNext, ToastNext
<1>3. TypeInv /\ IdInv /\ ToastInv => OneToastPerToggle
  BY DEF ToastInv, OwnerInv, WaitsOnce, WaitsInv, Waits, OneToastPerToggle
<1> QED  BY <1>1, <1>2, <1>3, PTL DEF Spec

-----------------------------------------------------------------------------
(* The page agrees with the server *)

ObjectAt(n, i) == heap[n].items[i]

\* A toast that will delete item i of the list object at n.
Deletes(t, n, i) == t.kind = "delete" /\ t.at = n /\ i \in t.ids

\* The items of the open list that the page is not wrong about.
Drawn(i) == currentList # 0 /\ i \in ItemsOf(heap[currentList].list) /\ i \notin astray

\* The same request, but for how far it is, ...
From(r, q) ==
    /\ r.id = q.id /\ r.kind = q.kind /\ r.item = q.item /\ r.list = q.list
    /\ r.value = q.value /\ r.before = q.before /\ (r.item # None => r.at = q.at)
\* ... and that as well.
Like(r, q) == From(r, q) /\ r.at = q.at /\ r.pc = q.pc /\ r.answer = q.answer

\* Requests of one toast are of different items.
KeyInv == \A r, q \in requests : r.id = q.id /\ r.item = q.item => r = q

\* The request of a quantity has an identity of its own.
SoleInv == \A r, q \in requests : r.kind = "quantity" /\ r.id = q.id => r.item = q.item

\* A load made alone is the only thing in progress, and its answer the server's list.
AloneInv ==
    \A r \in requests : r.alone =>
        /\ requests = {r} /\ toasts = {} /\ r.item = None
        /\ r.pc = "answered" => r.answer = ServerList(r.list) /\ mirror[r.list] = r.answer

\* So is the mirror, and what loads answer, but for the items the page is wrong about.
MirrorInv ==
    \A l \in Lists : mirror[l] # None => \A i \in ItemsOf(l) \ astray : mirror[l][i] = server[i]
AnswerInv ==
    \A r \in requests : r.item = None /\ r.pc = "answered" =>
        \A i \in ItemsOf(r.list) \ astray : r.answer[i] = server[i]

\* Of any other item one request is in progress, and no load of its list.
CrossInv ==
    /\ \A r, q \in requests : r.item = q.item /\ r.item # None /\ r.item \notin astray => r = q
    /\ \A r, q \in requests :
          r.item # None /\ r.item \notin astray /\ q.item = None => q.list # ListOf[r.item]

\* What an opened list falls back on is of that list.
OpenInv == \A r \in requests : r.kind = "open" /\ r.at # 0 => heap[r.at].list = r.list

\* An object is hidden by one deletion, that waits or is in progress, and an object that
\* is hidden or gone waits for nothing else.
ToastHides ==
    \A t \in toasts : t.kind = "delete" =>
        \A i \in t.ids : ObjectAt(t.at, i).hidden /\ ObjectAt(t.at, i).there
ToastDeletes ==
    \A t, u \in toasts : \A i \in Items : Deletes(t, t.at, i) /\ Deletes(u, t.at, i) => t = u
RequestHides ==
    \A r \in requests : r.kind = "delete" =>
        /\ ObjectAt(r.at, r.item).hidden
        /\ \A t \in toasts : ~Deletes(t, r.at, r.item)
RequestDeletes ==
    \A r, q \in requests :
        r.kind = "delete" /\ q.kind = "delete" /\ r.at = q.at /\ r.item = q.item => r = q
ToggleSeen ==
    \A p \in pendingToggles : ObjectAt(p.at, p.item).there /\ ~ObjectAt(p.at, p.item).hidden
HiddenInv == ToastHides /\ ToastDeletes /\ RequestHides /\ RequestDeletes /\ ToggleSeen

\* An item that waits shows the opposite of what it had before.
OppositeInv ==
    \A p \in pendingToggles : p.item \notin astray => ObjectAt(p.at, p.item).done = ~p.before

\* A pending quantity has its request.
QuantityInv ==
    \A m \in pendingQuantityUpdates : \E r \in requests :
        r.id = m.request /\ r.item = m.item /\ r.at = m.at /\ r.kind = "quantity"

\* What waits and what is in progress of the items drawn is of the objects drawn.
PlaceInv ==
    \A i \in Items : Drawn(i) =>
        /\ \A t \in toasts : i \in t.ids => t.at = currentList
        /\ \A r \in requests : r.item = i => r.at = currentList

\* v is what an item had before it waited, if it waits.
DoneIs(i, v) ==
    /\ Pending(currentList, i) = {} => Shown(i).done = v
    /\ \A p \in Pending(currentList, i) : p.before = v

Sending(i, k) == \E r \in requests : r.item = i /\ r.kind = k

\* A request puts back, or answers, what the server has.
RequestAgrees(r) ==
    /\ r.kind = "delete" => server[r.item].there = (r.pc # "answered")
    /\ server[r.item].there =>
         /\ r.pc = "answered" => r.answer = server[r.item]
         /\ r.kind = "quantity" => \E m \in pendingQuantityUpdates : m.request = r.id
         /\ r.pc # "answered" =>
              /\ r.kind = "done" => r.before = server[r.item].done
              /\ r.kind = "quantity" => r.before = server[r.item].quantity

\* What is drawn of an item is the server's row, but for what waits and what a request in
\* progress will settle.
ItemAgrees(i) ==
    /\ \A r \in requests : r.item = i => RequestAgrees(r)
    /\ ~server[i].there => ~Shown(i).there \/ Sending(i, "delete")
    /\ server[i].there =>
         /\ Sending(i, "done") \/ DoneIs(i, server[i].done)
         /\ Sending(i, "quantity") \/ Shown(i).quantity = server[i].quantity
         /\ Sending(i, "delete") \/ Shown(i).there
         /\ \/ Sending(i, "delete") \/ ~Shown(i).hidden
            \/ \E t \in toasts : Deletes(t, currentList, i)

AgreeInv == \A i \in Items : Drawn(i) /\ i \notin dropped => ItemAgrees(i)

CardsInv == Lists \subseteq DOMAIN overrides

\* What the page's agreement with the server rests on.
LoadsInv == AloneInv /\ MirrorInv /\ AnswerInv /\ OpenInv
ShownInv == HiddenInv /\ OppositeInv /\ QuantityInv
PagesInv ==
    /\ KeyInv /\ SoleInv /\ CrossInv /\ LoadsInv /\ ShownInv /\ PlaceInv /\ AgreeInv
    /\ CardsInv /\ CardShowsPending

\* Everything known of the state.
KnownInv == TypeInv /\ IdInv /\ ToastInv

\* A quiet page has no object that waits, so that its objects are the server's.
LEMMA AgreesWhenQuiet ==
    ASSUME KnownInv, PagesInv
    PROVE  PageAgrees
<1>1. ASSUME Quiet, currentList # 0,
             NEW i \in ItemsOf(heap[currentList].list) \ (astray \cup dropped)
      PROVE  /\ Shown(i).there = server[i].there
             /\ server[i].there => /\ ~Shown(i).hidden
                                   /\ Shown(i).done = server[i].done
                                   /\ Shown(i).quantity = server[i].quantity
  <2>1. toasts = {} /\ requests = {} /\ pendingToggles = {}
    BY <1>1 DEF Quiet, KnownInv, ToastInv, WaitsInv
  <2>2. i \in Items /\ Drawn(i) /\ i \notin dropped  BY <1>1 DEF Drawn, ItemsOf
  <2>3. ItemAgrees(i)  BY <2>2 DEF PagesInv, AgreeInv
  <2>4. currentList \in DOMAIN heap
    BY <1>1, LenProperties DEF KnownInv, TypeInv, PageInv
  <2>5. Shown(i) \in Object /\ server[i] \in Row
    BY <1>1, <2>2, <2>4, HeapObjects DEF Shown, KnownInv, TypeInv, ServerInv
  <2>6. Shown(i).there \in BOOLEAN /\ server[i].there \in BOOLEAN
    BY <2>5 DEF Object, Row
  <2> QED  BY <2>1, <2>3, <2>6 DEF ItemAgrees, Sending, DoneIs, Pending
<1> QED  BY <1>1 DEF ListAgrees, PageAgrees, PagesInv

-----------------------------------------------------------------------------
(* The requests in progress *)

\* Marking the requests changes nothing else of them.
LEMMA MarkedLike ==
    ASSUME TypeInv, NEW R \in SUBSET requests
    PROVE  /\ \A r \in NotAlone(R) : \E q \in R : Like(r, q) /\ r.alone = FALSE
           /\ \A q \in R : \E r \in NotAlone(R) : Like(r, q) /\ r.alone = FALSE
<1>1. ASSUME NEW q \in R, NEW r, r = [q EXCEPT !.alone = FALSE]
      PROVE  Like(r, q) /\ r.alone = FALSE
  <2>1. q \in Requests  BY DEF TypeInv, RequestsInv, RequestShape
  <2> QED  BY <1>1, <2>1 DEF Requests, Like, From
<1>2. ASSUME NEW q \in R PROVE \E r \in NotAlone(R) : Like(r, q) /\ r.alone = FALSE
  <2>1. PICK r : r = [q EXCEPT !.alone = FALSE]  OBVIOUS
  <2>2. r \in NotAlone(R)  BY <2>1 DEF NotAlone
  <2> QED  BY <1>1, <2>1, <2>2
<1>3. ASSUME NEW r \in NotAlone(R) PROVE \E q \in R : Like(r, q) /\ r.alone = FALSE
  <2>1. PICK q \in R : r = [q EXCEPT !.alone = FALSE]  BY DEF NotAlone
  <2> QED  BY <1>1, <2>1
<1> QED  BY <1>2, <1>3

\* Two requests stay two.
LEMMA MarkedKeys ==
    ASSUME TypeInv, KeyInv, NEW R \in SUBSET requests,
           NEW r \in NotAlone(R), NEW s \in NotAlone(R), r.id = s.id, r.item = s.item
    PROVE  r = s
<1>1. PICK a \in R : r = [a EXCEPT !.alone = FALSE]  BY DEF NotAlone
<1>2. PICK b \in R : s = [b EXCEPT !.alone = FALSE]  BY DEF NotAlone
<1>3. a \in Requests /\ b \in Requests  BY DEF TypeInv, RequestsInv, RequestShape
<1>4. a.id = b.id /\ a.item = b.item  BY <1>1, <1>2, <1>3 DEF Requests
<1>5. a = b  BY <1>4 DEF KeyInv
<1> QED  BY <1>1, <1>2, <1>5

\* Requests that are marked, and new ones: a new one has its own identity, or its own item.
LEMMA KeysKept ==
    ASSUME TypeInv, KeyInv, NEW R \in SUBSET requests, NEW N,
           requests' = NotAlone(R) \cup N,
           \A r \in N : \A q \in requests : q.id # r.id,
           \A r, q \in N : r.id = q.id /\ r.item = q.item => r = q
    PROVE  KeyInv'
<1> SUFFICES ASSUME NEW r \in requests', NEW q \in requests', r.id = q.id, r.item = q.item
             PROVE  r = q
  BY DEF KeyInv
<1>1. CASE r \in N /\ q \in N  BY <1>1
<1>2. CASE r \in NotAlone(R) /\ q \in NotAlone(R)  BY <1>2, MarkedKeys
<1>3. ASSUME NEW s \in NotAlone(R), NEW n \in N PROVE s.id # n.id
  <2>1. PICK p \in R : Like(s, p)  BY MarkedLike
  <2> QED  BY <2>1 DEF Like, From
<1> QED  BY <1>1, <1>2, <1>3

\* A request that goes on, or settles.
LEMMA KeysLeft ==
    ASSUME KeyInv, NEW r \in requests,
           \/ requests' = requests \/ requests' = requests \ {r}
           \/ \E s : From(s, r) /\ requests' = (requests \ {r}) \cup {s}
    PROVE  KeyInv'
BY DEF KeyInv, From

\* The request of a clicked quantity, or of a check-off or a deletion that is sent.
LEMMA NewRequests ==
    ASSUME NEW id, NEW kind, NEW at, NEW list, NEW item, NEW value, NEW before, NEW r,
           r = Request(id, kind, at, list, item, value, before)
    PROVE  /\ r.id = id /\ r.kind = kind /\ r.at = at /\ r.list = list /\ r.item = item
           /\ r.value = value /\ r.before = before /\ r.pc = "sent" /\ r.alone = FALSE
BY DEF Request

\* A load has its own identity, and no item.
LEMMA NewLoads ==
    ASSUME NEW kind, NEW l, NEW at, NEW pc, NEW alone, NEW r, r = Load(kind, l, at, pc, alone)
    PROVE  /\ r.id = seq + 1 /\ r.kind = kind /\ r.at = at /\ r.list = l /\ r.item = None
           /\ r.pc = pc /\ r.alone = alone
BY DEF Load

\* A request that is painted, served or refused goes on as it was.
LEMMA PaintGoesOn ==
    ASSUME TypeInv, NEW r \in requests, Paint(r)
    PROVE  /\ r.pc = "cache" /\ r.item = None /\ r.list \in Lists
           /\ \E s : /\ From(s, r) /\ s.pc = "sent" /\ s.alone = r.alone
                     /\ s.at = IF mirror[r.list] = None THEN 0 ELSE Len(heap')
                     /\ requests' = (requests \ {r}) \cup {s}
<1>1. RequestShape(r) /\ r.pc = "cache"  BY DEF Paint, TypeInv, RequestsInv
<1>2. r \in Requests /\ r.item = None /\ r.list \in Lists  BY <1>1 DEF RequestShape
<1>3. PICK at : at = IF mirror[r.list] = None THEN 0 ELSE Len(heap')  OBVIOUS
<1>4. PICK s : s = [r EXCEPT !.pc = "sent", !.at = at]  OBVIOUS
<1>5. requests' = (requests \ {r}) \cup {s}  BY <1>3, <1>4 DEF Paint
<1>6. From(s, r) /\ s.pc = "sent" /\ s.alone = r.alone /\ s.at = at
  BY <1>2, <1>4 DEF Requests, From
<1> QED  BY <1>1, <1>2, <1>3, <1>5, <1>6

\* A load the server answers.
LEMMA LoadServed ==
    ASSUME TypeInv, NEW r \in requests, Serve(r), r.item = None
    PROVE  /\ r.pc = "sent" /\ r.list \in Lists
           /\ server' = server /\ mirror' = [mirror EXCEPT ![r.list] = ServerList(r.list)]
           /\ \E s : /\ From(s, r) /\ s.at = r.at /\ s.pc = "answered" /\ s.alone = r.alone
                     /\ s.answer = ServerList(r.list)
                     /\ requests' = (requests \ {r}) \cup {s}
<1>1. RequestShape(r) /\ r \in Requests /\ r.pc = "sent"
  BY DEF Serve, TypeInv, RequestsInv, RequestShape
<1>2. PICK rows : rows = ServerList(r.list)  OBVIOUS
<1>3. PICK s : s = [r EXCEPT !.pc = "answered", !.answer = rows]  OBVIOUS
<1>4. /\ requests' = (requests \ {r}) \cup {s} /\ server' = server
      /\ mirror' = [mirror EXCEPT ![r.list] = ServerList(r.list)]
  BY <1>2, <1>3 DEF Serve, Progress
<1>5. /\ From(s, r) /\ s.at = r.at /\ s.pc = "answered" /\ s.alone = r.alone
      /\ s.answer = rows
  BY <1>1, <1>3 DEF Requests, From
<1> QED  BY <1>1, <1>2, <1>4, <1>5 DEF RequestShape

\* A change the server makes, or refuses for an item that is gone.
LEMMA ItemServed ==
    ASSUME TypeInv, NEW r \in requests, Serve(r), r.item # None
    PROVE  /\ r.pc = "sent" /\ r.item \in Items /\ r.kind \in {"done", "quantity", "delete"}
           /\ \E s :
                /\ From(s, r) /\ s.at = r.at /\ s.alone = r.alone
                /\ requests' = (requests \ {r}) \cup {s}
                /\ \/ /\ ~server[r.item].there /\ s.pc = "failed"
                      /\ UNCHANGED <<server, mirror>>
                   \/ /\ server[r.item].there /\ s.pc = "answered" /\ s.answer = Written(r)
                      /\ server' = [server EXCEPT ![r.item] = Written(r)]
                      /\ mirror' = [mirror EXCEPT ![ListOf[r.item]] =
                            IF @ = None THEN None ELSE [@ EXCEPT ![r.item] = Written(r)]]
<1>1. RequestShape(r) /\ r \in Requests /\ r.pc = "sent"
  BY DEF Serve, TypeInv, RequestsInv, RequestShape
<1>2. r.item \in Items /\ r.kind \in {"done", "quantity", "delete"}
  BY <1>1 DEF RequestShape, Requests
<1>3. CASE ~server[r.item].there
  <2>1. PICK s : s = [r EXCEPT !.pc = "failed"]  OBVIOUS
  <2>2. requests' = (requests \ {r}) \cup {s} /\ UNCHANGED <<server, mirror>>
    BY <1>3, <2>1 DEF Serve, Progress
  <2>3. From(s, r) /\ s.at = r.at /\ s.pc = "failed" /\ s.alone = r.alone
    BY <1>1, <2>1 DEF Requests, From
  <2> QED  BY <1>1, <1>2, <1>3, <2>2, <2>3
<1>4. CASE server[r.item].there
  <2>1. PICK row : row = Written(r)  OBVIOUS
  <2>2. PICK s : s = [r EXCEPT !.pc = "answered", !.answer = row]  OBVIOUS
  <2>3. /\ requests' = (requests \ {r}) \cup {s}
        /\ server' = [server EXCEPT ![r.item] = Written(r)]
        /\ mirror' = [mirror EXCEPT ![ListOf[r.item]] =
                        IF @ = None THEN None ELSE [@ EXCEPT ![r.item] = Written(r)]]
    BY <1>4, <2>1, <2>2 DEF Serve, Progress
  <2>4. /\ From(s, r) /\ s.at = r.at /\ s.pc = "answered" /\ s.alone = r.alone
        /\ s.answer = row
    BY <1>1, <2>2 DEF Requests, From
  <2> QED  BY <1>1, <1>2, <1>4, <2>1, <2>3, <2>4
<1> QED  BY <1>3, <1>4

\* A request that is refused, or does not get through.
LEMMA FailGoesOn ==
    ASSUME TypeInv, NEW r \in requests, Fail(r)
    PROVE  /\ r.pc = "sent" /\ UNCHANGED <<server, mirror>>
           /\ \E s : /\ From(s, r) /\ s.at = r.at /\ s.pc = "failed" /\ s.alone = r.alone
                     /\ requests' = (requests \ {r}) \cup {s}
<1>1. r \in Requests /\ r.pc = "sent"  BY DEF Fail, TypeInv, RequestsInv, RequestShape
<1>2. PICK s : s = [r EXCEPT !.pc = "failed"]  OBVIOUS
<1>3. requests' = (requests \ {r}) \cup {s} /\ UNCHANGED <<server, mirror>>
  BY <1>2 DEF Fail, Progress
<1>4. From(s, r) /\ s.at = r.at /\ s.pc = "failed" /\ s.alone = r.alone
  BY <1>1, <1>2 DEF Requests, From
<1> QED  BY <1>1, <1>3, <1>4

\* A deletion that settles may load again what is open by then.
LEMMA DeleteLoads ==
    ASSUME TypeInv, NEW r \in requests, DeleteSettles(r)
    PROVE  \/ requests' = requests \ {r} /\ UNCHANGED <<seq, astray>>
           \/ \E q : /\ q = Load("refresh", currentListId, currentList, "sent",
                                 requests = {r} /\ toasts = {})
                     /\ requests' = NotAlone(requests \ {r}) \cup {q}
                     /\ seq' = seq + 1 /\ currentListId \in Lists
                     /\ astray' = astray \cup
                          {i \in ItemsOf(currentListId) : \E p \in requests \ {r} : p.item = i}
<1>1. currentListId \in Lists \cup {None}  BY DEF TypeInv, PageInv
<1> QED  BY <1>1 DEF DeleteSettles

\* The requests a toast makes.
Sent(t) == {Request(t.id, t.kind, t.at, t.list, i, t.value, t.before[i]) : i \in Owned(t)}

\* They are about the items the toast still owns, with what it had of each.
LEMMA SentRequests ==
    ASSUME NEW t, NEW r \in Sent(t)
    PROVE  /\ r.id = t.id /\ r.kind = t.kind /\ r.at = t.at /\ r.list = t.list
           /\ r.item \in Owned(t) /\ r.value = t.value /\ r.before = t.before[r.item]
           /\ r.pc = "sent" /\ r.alone = FALSE
           /\ r = Request(t.id, t.kind, t.at, t.list, r.item, t.value, t.before[r.item])
<1>1. PICK i \in Owned(t) :
        r = Request(t.id, t.kind, t.at, t.list, i, t.value, t.before[i])
  BY DEF Sent
<1>2. r.item = i  BY <1>1 DEF Request
<1>3. /\ r.id = t.id /\ r.kind = t.kind /\ r.at = t.at /\ r.list = t.list
      /\ r.item = i /\ r.value = t.value /\ r.before = t.before[i]
      /\ r.pc = "sent" /\ r.alone = FALSE
  BY <1>1 DEF Request
<1> QED  BY <1>1, <1>2, <1>3

\* Sending adds them to the requests in progress.
LEMMA CommitSends ==
    ASSUME NEW t \in toasts, Commit(t)
    PROVE  requests' = NotAlone(requests) \cup Sent(t)
BY DEF Commit, Sent

\* What a load that settles does to the rest.
LEMMA LoadSettles ==
    ASSUME TypeInv, NEW r \in requests, OpenSettles(r) \/ RefreshSettles(r)
    PROVE  /\ r.item = None /\ r.list \in Lists /\ requests' = requests \ {r}
           /\ UNCHANGED <<server, mirror, toasts, pendingToggles, pendingQuantityUpdates,
                          overrides, seq>>
           /\ \/ /\ r.alone /\ r.pc = "answered"
                 /\ astray' = (astray \ ItemsOf(r.list)) \cup InToasts
              \/ astray \subseteq astray'
           /\ (r.alone /\ r.pc = "answered") \/ dropped' = dropped
<1>1. RequestShape(r) /\ r.kind \in {"open", "refresh"}
  BY DEF TypeInv, RequestsInv, OpenSettles, RefreshSettles
<1>2. r.item = None /\ r.list \in Lists  BY <1>1 DEF RequestShape
<1>3. /\ requests' = requests \ {r}
      /\ UNCHANGED <<server, mirror, toasts, pendingToggles, pendingQuantityUpdates,
                     overrides, seq>>
  BY DEF OpenSettles, RefreshSettles, pendings
<1>4. r.pc = "answered" => astray' = Reloaded(r) /\ dropped' = StillDropped(r)
  BY DEF OpenSettles, RefreshSettles
<1>5. r.pc # "answered" => astray \subseteq astray' /\ dropped' = dropped
  BY DEF OpenSettles, RefreshSettles
<1> QED  BY <1>2, <1>3, <1>4, <1>5 DEF Reloaded, StillDropped

\* No step makes a second request of one toast for one item.
LEMMA KeyNext ==
    ASSUME KnownInv, KeyInv, [Next]_vars
    PROVE  KeyInv'
<1>0. TypeInv /\ IdInv  BY DEF KnownInv
<1>1. seq \in Nat /\ \A q \in requests : q.id # seq + 1
  BY <1>0 DEF TypeInv, PageInv, IdInv
<1>2. CASE requests' = NotAlone(requests)
  <2>1. PICK N : N = {}  OBVIOUS
  <2>2. requests' = NotAlone(requests) \cup N  BY <1>2, <2>1
  <2>3. \A r \in N : FALSE  BY <2>1
  <2> QED  BY <1>0, <2>2, <2>3, KeysKept
<1>3. ASSUME NEW R \in SUBSET requests, NEW q, q.id = seq + 1,
             requests' = NotAlone(R) \cup {q}
      PROVE  KeyInv'
  <2>1. PICK N : N = {q}  OBVIOUS
  <2>2. requests' = NotAlone(R) \cup N  BY <1>3, <2>1
  <2>3. /\ \A r \in N : \A p \in requests : p.id # r.id
        /\ \A r, p \in N : r.id = p.id /\ r.item = p.item => r = p
    BY <1>1, <1>3, <2>1
  <2> QED  BY <1>0, <2>2, <2>3, KeysKept
<1>4. ASSUME NEW t \in toasts, Commit(t) PROVE KeyInv'
  <2>1. requests' = NotAlone(requests) \cup Sent(t)  BY <1>4, CommitSends
  <2>2. \A r \in Sent(t) : r.id = t.id  BY SentRequests
  <2>3. \A r \in Sent(t) : \A q \in requests : q.id # r.id
    BY <1>0, <2>2 DEF IdInv
  <2>4. ASSUME NEW r \in Sent(t), NEW q \in Sent(t), r.item = q.item PROVE r = q
    <3>1. /\ r = Request(t.id, t.kind, t.at, t.list, r.item, t.value, t.before[r.item])
          /\ q = Request(t.id, t.kind, t.at, t.list, q.item, t.value, t.before[q.item])
      BY SentRequests
    <3> QED  BY <2>4, <3>1
  <2> QED  BY <1>0, <2>1, <2>3, <2>4, KeysKept
<1>5. ASSUME NEW i, NEW quantity, ChangeQuantity(i, quantity) PROVE KeyInv'
  <2>1. PICK before : requests' = NotAlone(requests) \cup
          {Request(seq + 1, "quantity", currentList, ListOf[i], i, quantity, before)}
    BY <1>5 DEF ChangeQuantity
  <2>2. PICK q : q = Request(seq + 1, "quantity", currentList, ListOf[i], i, quantity, before)
    OBVIOUS
  <2>3. q.id = seq + 1  BY <2>2 DEF Request
  <2>4. requests' = NotAlone(requests) \cup {q}  BY <2>1, <2>2
  <2> QED  BY <1>3, <2>3, <2>4
<1>6. ASSUME NEW kind, NEW l, NEW at, NEW pc, NEW alone, Start(Load(kind, l, at, pc, alone))
      PROVE  KeyInv'
  BY <1>3, <1>6, NewLoads DEF Start
<1>7. ASSUME NEW r \in requests, Paint(r) \/ Serve(r) \/ Fail(r) PROVE KeyInv'
  <2>1. \E s : From(s, r) /\ requests' = (requests \ {r}) \cup {s}
    BY <1>0, <1>7, PaintGoesOn, LoadServed, ItemServed, FailGoesOn
  <2> QED  BY <2>1, KeysLeft
<1>8. ASSUME NEW r \in requests, Settles(r) PROVE KeyInv'
  <2>1. CASE DeleteSettles(r)
    <3>1. CASE requests' = requests \ {r}  BY <3>1, KeysLeft
    <3>2. CASE \E q : /\ q = Load("refresh", currentListId, currentList, "sent",
                                  requests = {r} /\ toasts = {})
                      /\ requests' = NotAlone(requests \ {r}) \cup {q}
      BY <1>3, <3>2, NewLoads
    <3> QED  BY <1>0, <2>1, <3>1, <3>2, DeleteLoads
  <2>2. CASE ~DeleteSettles(r)
    <3>1. requests' = requests \ {r}
      BY <1>8, <2>2 DEF Settles, ToggleSettles, QuantitySettles, OpenSettles, RefreshSettles
    <3> QED  BY <3>1, KeysLeft
  <2> QED  BY <2>1, <2>2
<1>9. CASE UNCHANGED requests  BY <1>9, KeysLeft, <1>0 DEF KeyInv
<1>10. ASSUME NEW S, NEW bulk, Toggle(S, bulk) \/ Remove(S, bulk) PROVE KeyInv'
  BY <1>2, <1>10 DEF Toggle, Remove
<1>11. CASE OtherDevice  BY <1>2, <1>11 DEF OtherDevice
<1>12. CASE Refresh \/ \E l \in Lists : SelectList(l)
  BY <1>6, <1>12 DEF Refresh, SelectList
<1>13. CASE ShowDashboard \/ (\E t \in toasts : Undo(t)) \/ UNCHANGED vars
  BY <1>9, <1>13 DEF ShowDashboard, Undo, vars
<1> QED  BY <1>4, <1>5, <1>7, <1>8, <1>10, <1>11, <1>12, <1>13 DEF Next

\* Requests that go on, and new ones that mark what they cross.
LEMMA CrossKept ==
    ASSUME CrossInv, KeyInv', astray \subseteq astray', NEW R \in SUBSET requests, NEW N,
           \A r \in requests' : r \in N \/ \E q \in R : From(r, q),
           \A r, q \in N : r.item # None /\ r.item = q.item => r = q,
           \A r, q \in N : r.item # None => q.item # None,
           \A r \in N, q \in R : r.item # None /\ (q.item = r.item \/ (q.item = None /\
                                     q.list = ListOf[r.item])) => r.item \in astray',
           \A r \in N, q \in R : r.item = None /\ q.item # None /\ r.list = ListOf[q.item]
                                     => q.item \in astray'
    PROVE  CrossInv'
<1>1. ASSUME NEW r \in requests', NEW q \in requests', r.item = q.item, r.item # None,
             r.item \notin astray'
      PROVE  r = q
  <2>1. CASE r \in N /\ q \in N  BY <1>1, <2>1
  <2>2. CASE r \in N /\ q \notin N
    <3>1. PICK p \in R : From(q, p)  BY <2>2
    <3> QED  BY <1>1, <2>2, <3>1 DEF From
  <2>3. CASE r \notin N /\ q \in N
    <3>1. PICK p \in R : From(r, p)  BY <2>3
    <3> QED  BY <1>1, <2>3, <3>1 DEF From
  <2>4. CASE r \notin N /\ q \notin N
    <3>1. PICK a \in R : From(r, a)  BY <2>4
    <3>2. PICK b \in R : From(q, b)  BY <2>4
    <3>3. a \in requests /\ b \in requests /\ a.item = r.item /\ b.item = q.item
      BY <3>1, <3>2 DEF From
    <3>4. a = b  BY <1>1, <3>3 DEF CrossInv
    <3>5. r.id = q.id  BY <3>1, <3>2, <3>4 DEF From
    <3> QED  BY <1>1, <3>5 DEF KeyInv
  <2> QED  BY <2>1, <2>2, <2>3, <2>4
<1>2. ASSUME NEW r \in requests', NEW q \in requests', r.item # None, r.item \notin astray',
             q.item = None, q.list = ListOf[r.item]
      PROVE  FALSE
  <2>1. CASE r \in N /\ q \in N  BY <1>2, <2>1
  <2>2. CASE r \in N /\ q \notin N
    <3>1. PICK p \in R : From(q, p)  BY <2>2
    <3> QED  BY <1>2, <2>2, <3>1 DEF From
  <2>3. CASE r \notin N /\ q \in N
    <3>1. PICK p \in R : From(r, p)  BY <2>3
    <3> QED  BY <1>2, <2>3, <3>1 DEF From
  <2>4. CASE r \notin N /\ q \notin N
    <3>1. PICK a \in R : From(r, a)  BY <2>4
    <3>2. PICK b \in R : From(q, b)  BY <2>4
    <3>3. a.item = r.item /\ b.item = q.item /\ b.list = q.list  BY <3>1, <3>2 DEF From
    <3> QED  BY <1>2, <3>3 DEF CrossInv
  <2> QED  BY <2>1, <2>2, <2>3, <2>4
<1> QED  BY <1>1, <1>2 DEF CrossInv

\* A step that makes no request, and drops no mark.
LEMMA CrossSame ==
    ASSUME CrossInv, KeyInv', astray \subseteq astray',
           \A r \in requests' : \E q \in requests : From(r, q)
    PROVE  CrossInv'
<1>1. PICK N : N = {}  OBVIOUS
<1>2. /\ \A r \in requests' : r \in N \/ \E q \in requests : From(r, q)
      /\ \A r \in N : FALSE
  BY <1>1
<1> QED  BY <1>2, CrossKept

\* The requests that are marked come from those in progress.
LEMMA MarkedFrom ==
    ASSUME TypeInv, NEW R \in SUBSET requests, NEW N, requests' = NotAlone(R) \cup N
    PROVE  \A r \in requests' : r \in N \/ \E q \in R : From(r, q)
BY MarkedLike DEF Like

\* One request is made.
LEMMA CrossOne ==
    ASSUME TypeInv, CrossInv, KeyInv', astray \subseteq astray', NEW R \in SUBSET requests, NEW n,
           requests' = NotAlone(R) \cup {n},
           \A q \in R : n.item # None /\ (q.item = n.item \/ (q.item = None /\
                            q.list = ListOf[n.item])) => n.item \in astray',
           \A q \in R : n.item = None /\ q.item # None /\ n.list = ListOf[q.item]
                            => q.item \in astray'
    PROVE  CrossInv'
<1>1. PICK N : N = {n}  OBVIOUS
<1>2. \A r \in requests' : r \in N \/ \E q \in R : From(r, q)  BY <1>1, MarkedFrom
<1>3. \A r \in N : r = n  BY <1>1
<1>4. /\ \A r, q \in N : r.item # None /\ r.item = q.item => r = q
      /\ \A r, q \in N : r.item # None => q.item # None
  BY <1>3
<1>5. \A r \in N, q \in R : r.item # None /\ (q.item = r.item \/ (q.item = None /\
                                     q.list = ListOf[r.item])) => r.item \in astray'
  BY <1>3
<1>6. \A r \in N, q \in R : r.item = None /\ q.item # None /\ r.list = ListOf[q.item]
                                     => q.item \in astray'
  BY <1>3
<1> QED  BY <1>2, <1>4, <1>5, <1>6, CrossKept

\* The items of requests, and the lists of items.
LEMMA RequestItems ==
    ASSUME TypeInv, NEW r \in requests
    PROVE  /\ r \in Requests
           /\ r.item # None => r.item \in Items /\ r.item \in ItemsOf(ListOf[r.item])
           /\ r.item # None => r.at \in DOMAIN heap /\ r.item \in ItemsOf(heap[r.at].list)
           /\ r.item # None <=> r.kind \in {"done", "quantity", "delete"}
<1>1. RequestShape(r)  BY DEF TypeInv, RequestsInv
<1>2. r \in Requests  BY <1>1 DEF RequestShape
<1> QED  BY <1>1, <1>2 DEF RequestShape, Requests, ItemsOf

\* A load that starts.
LEMMA CrossStart ==
    ASSUME TypeInv, CrossInv, KeyInv', NEW kind, NEW l \in Lists, NEW at, NEW pc, NEW alone,
           Start(Load(kind, l, at, pc, alone))
    PROVE  CrossInv'
<1>1. PICK n : n = Load(kind, l, at, pc, alone)  OBVIOUS
<1>2. n.item = None /\ n.list = l  BY <1>1, NewLoads
<1>3. requests' = NotAlone(requests) \cup {n} /\ astray' = astray \cup CrossedBy(l)
  BY <1>1, <1>2 DEF Start
<1>4. \A q \in requests : q.item # None /\ l = ListOf[q.item] => q.item \in astray'
  BY <1>3, RequestItems DEF CrossedBy
<1> QED  BY <1>2, <1>3, <1>4, CrossOne

\* Every step marks the items of which it makes a second request, or loads the list.
LEMMA CrossNext ==
    ASSUME KnownInv, KeyInv, CrossInv, AloneInv, KeyInv', [Next]_vars
    PROVE  CrossInv'
<1>0. TypeInv  BY DEF KnownInv
<1>1. CASE /\ requests' = NotAlone(requests) \/ requests' = requests
           /\ astray \subseteq astray'
  <2>1. \A r \in NotAlone(requests) : \E q \in requests : From(r, q)
    BY <1>0, MarkedLike DEF Like
  <2>2. \A r \in requests : From(r, r)  BY DEF From
  <2>3. \A r \in requests' : \E q \in requests : From(r, q)  BY <1>1, <2>1, <2>2
  <2> QED  BY <1>1, <2>3, CrossSame
<1>2. ASSUME NEW t \in toasts, Commit(t) PROVE CrossInv'
  <2>1. requests' = NotAlone(requests) \cup Sent(t)  BY <1>2, CommitSends
  <2>2. \A r \in requests' : r \in Sent(t) \/ \E q \in requests : From(r, q)
    BY <1>0, <2>1, MarkedFrom
  <2>3. ASSUME NEW r \in Sent(t), NEW q \in Sent(t), r.item = q.item PROVE r = q
    <3>1. /\ r = Request(t.id, t.kind, t.at, t.list, r.item, t.value, t.before[r.item])
          /\ q = Request(t.id, t.kind, t.at, t.list, q.item, t.value, t.before[q.item])
      BY SentRequests
    <3> QED  BY <2>3, <3>1
  <2>4. \A r \in Sent(t) : r.item \in Owned(t) /\ r.item \in Items /\ r.item # None
    BY <1>0, SentRequests, OwnedItems, ListPageAssumption
  <2>5. astray' = astray \cup Crossed(Owned(t))  BY <1>2 DEF Commit
  <2>6. \A r \in Sent(t), q \in requests :
          q.item = r.item \/ (q.item = None /\ q.list = ListOf[r.item]) => r.item \in astray'
    BY <2>4, <2>5 DEF Crossed
  <2> QED  BY <2>2, <2>3, <2>4, <2>5, <2>6, CrossKept
<1>3. ASSUME NEW i \in Items, NEW quantity, ChangeQuantity(i, quantity) PROVE CrossInv'
  <2>1. PICK before : requests' = NotAlone(requests) \cup
          {Request(seq + 1, "quantity", currentList, ListOf[i], i, quantity, before)}
    BY <1>3 DEF ChangeQuantity
  <2>2. PICK n : n = Request(seq + 1, "quantity", currentList, ListOf[i], i, quantity, before)
    OBVIOUS
  <2>3. n.item = i /\ i # None  BY <2>2, ListPageAssumption DEF Request
  <2>4. requests' = NotAlone(requests) \cup {n}  BY <2>1, <2>2
  <2>5. astray' = astray \cup Crossed({i})  BY <1>3 DEF ChangeQuantity
  <2>6. \A q \in requests : q.item = i \/ (q.item = None /\ q.list = ListOf[i]) => i \in astray'
    BY <2>5 DEF Crossed
  <2>7. /\ \A q \in requests : n.item # None /\ (q.item = n.item \/ (q.item = None /\
                            q.list = ListOf[n.item])) => n.item \in astray'
        /\ \A q \in requests : n.item = None /\ q.item # None /\ n.list = ListOf[q.item]
                            => q.item \in astray'
    BY <2>3, <2>6
  <2>8. requests \in SUBSET requests /\ astray \subseteq astray'  BY <2>5
  <2> QED  BY <1>0, <2>4, <2>7, <2>8, CrossOne
<1>4. CASE Refresh \/ \E l \in Lists : SelectList(l)
  <2>1. CASE Refresh
    <3>1. currentListId \in Lists  BY <1>0, <2>1 DEF Refresh, TypeInv, PageInv
    <3> QED  BY <1>0, <2>1, <3>1, CrossStart DEF Refresh
  <2>2. CASE \E l \in Lists : SelectList(l)  BY <1>0, <2>2, CrossStart DEF SelectList
  <2> QED  BY <1>4, <2>1, <2>2
<1>5. ASSUME NEW r \in requests, Paint(r) \/ Serve(r) \/ Fail(r) PROVE CrossInv'
  <2>1. \E s : From(s, r) /\ requests' = (requests \ {r}) \cup {s}
    BY <1>0, <1>5, PaintGoesOn, LoadServed, ItemServed, FailGoesOn
  <2>2. astray \subseteq astray'  BY <1>5 DEF Paint, Serve, Fail
  <2>3. \A s \in requests' : \E q \in requests : From(s, q)  BY <2>1 DEF From
  <2> QED  BY <2>2, <2>3, CrossSame
<1>6. ASSUME NEW r \in requests, Settles(r) PROVE CrossInv'
  <2>1. CASE requests' = requests \ {r} /\ astray \subseteq astray'
    <3>1. \A s \in requests' : \E q \in requests : From(s, q)  BY <2>1 DEF From
    <3> QED  BY <2>1, <3>1, CrossSame
  <2>2. CASE ToggleSettles(r) \/ QuantitySettles(r)
    BY <2>1, <2>2 DEF ToggleSettles, QuantitySettles, Overwritten
  <2>3. CASE DeleteSettles(r)
    <3>1. CASE requests' = requests \ {r} /\ UNCHANGED <<seq, astray>>  BY <2>1, <3>1
    <3>2. ASSUME NEW n, n = Load("refresh", currentListId, currentList, "sent",
                                 requests = {r} /\ toasts = {}),
                 requests' = NotAlone(requests \ {r}) \cup {n},
                 astray' = astray \cup
                    {i \in ItemsOf(currentListId) : \E p \in requests \ {r} : p.item = i}
          PROVE  CrossInv'
      <4>1. n.item = None /\ n.list = currentListId  BY <3>2, NewLoads
      <4>2. \A q \in requests \ {r} :
              q.item # None /\ currentListId = ListOf[q.item] => q.item \in astray'
        BY <1>0, <3>2, RequestItems
      <4> QED  BY <1>0, <3>2, <4>1, <4>2, CrossOne
    <3> QED  BY <1>0, <2>3, <3>1, <3>2, DeleteLoads
  <2>4. CASE OpenSettles(r) \/ RefreshSettles(r)
    <3>1. requests' = requests \ {r} /\ ((r.alone /\ r.pc = "answered")
                                          \/ astray \subseteq astray')
      BY <1>0, <2>4, LoadSettles
    <3>2. r.alone => requests' = {}  BY <3>1 DEF AloneInv
    <3>3. requests' = {} => CrossInv'  BY DEF CrossInv
    <3> QED  BY <2>1, <3>1, <3>2, <3>3
  <2> QED  BY <1>6, <2>2, <2>3, <2>4 DEF Settles
<1>7. ASSUME NEW S, NEW bulk, Toggle(S, bulk) \/ Remove(S, bulk) PROVE CrossInv'
  BY <1>1, <1>7 DEF Toggle, Remove
<1>8. CASE OtherDevice \/ ShowDashboard \/ (\E t \in toasts : Undo(t)) \/ UNCHANGED vars
  BY <1>1, <1>8 DEF OtherDevice, ShowDashboard, Undo, vars
<1> QED  BY <1>2, <1>3, <1>4, <1>5, <1>6, <1>7, <1>8 DEF Next

-----------------------------------------------------------------------------
(* The objects *)

\* A step that changes, of the objects there are, at most those of ids at `at`.
Edited(at, ids) ==
    /\ DOMAIN heap \subseteq DOMAIN heap'
    /\ \A n \in DOMAIN heap :
         /\ heap'[n].list = heap[n].list
         /\ \A i \in ItemsOf(heap[n].list) :
              n # at \/ i \notin ids => heap'[n].items[i] = heap[n].items[i]

Looks(o, done, quantity, there, hidden) ==
    o.done = done /\ o.quantity = quantity /\ o.there = there /\ o.hidden = hidden

\* The list object at `at` has other items.
Edits(at, items) == heap' = [heap EXCEPT ![at].items = items]

\* Changing the items of one list object leaves the other objects.
LEMMA HeapEdited ==
    ASSUME PageInv, NEW at \in DOMAIN heap, NEW ids, NEW items,
           \A j \in ItemsOf(heap[at].list) : j \notin ids => items[j] = heap[at].items[j],
           Edits(at, items)
    PROVE  Edited(at, ids) /\ DOMAIN heap' = DOMAIN heap /\ heap'[at].items = items
<1>1. heap[at] \in [list : Lists, items : UNION {[ItemsOf(l) -> Object] : l \in Lists}]
  BY HeapObjects DEF ListObjects
<1>2. DOMAIN heap' = DOMAIN heap  BY DEF Edits
<1>3. \A n \in DOMAIN heap :
        heap'[n] = IF n = at THEN [heap[at] EXCEPT !.items = items] ELSE heap[n]
  BY DEF Edits
<1>4. heap'[at].list = heap[at].list /\ heap'[at].items = items  BY <1>1, <1>3
<1> QED  BY <1>2, <1>3, <1>4 DEF Edited

\* So does making a new list object, which is the last one.
LEMMA HeapAppended ==
    ASSUME PageInv, NEW o \in ListObjects, heap' = Append(heap, o)
    PROVE  /\ Edited(0, {}) /\ Len(heap') \in DOMAIN heap' /\ Len(heap') \notin DOMAIN heap
           /\ Len(heap') # 0 /\ heap'[Len(heap')] = o
<1>1. heap \in Seq(ListObjects) /\ Len(heap) \in Nat /\ DOMAIN heap = 1 .. Len(heap)
  BY LenProperties DEF PageInv
<1>2. /\ heap' \in Seq(ListObjects) /\ Len(heap') = Len(heap) + 1
      /\ \A n \in 1 .. Len(heap) : heap'[n] = heap[n]
      /\ heap'[Len(heap) + 1] = o
  BY <1>1, AppendProperties
<1>3. DOMAIN heap' = 1 .. Len(heap')  BY <1>2, LenProperties
<1> QED  BY <1>1, <1>2, <1>3 DEF Edited

\* Checking off.
LEMMA ToggleMarks ==
    ASSUME TypeInv, NEW S \in SUBSET Items, NEW bulk \in BOOLEAN, Toggle(S, bulk)
    PROVE  \E value \in BOOLEAN : \E before, toast :
        /\ currentList \in DOMAIN heap /\ S \subseteq ItemsOf(heap[currentList].list)
        /\ \A i \in S :
             /\ Shown(i).there /\ ~Shown(i).hidden /\ before[i] \in BOOLEAN
             /\ Pending(currentList, i) = {} => before[i] = Shown(i).done
             /\ Pending(currentList, i) # {} =>
                    \E p \in Pending(currentList, i) : before[i] = p.before
        /\ Edited(currentList, S)
        /\ \A i \in S : Looks(heap'[currentList].items[i], value, Shown(i).quantity,
                              Shown(i).there, Shown(i).hidden)
        /\ toast.id = seq + 1 /\ toast.kind = "done" /\ toast.at = currentList
        /\ toast.list = currentListId /\ toast.ids = {i \in S : before[i] # value}
        /\ toasts' \subseteq toasts \cup {toast}
        /\ \A t \in toasts \ toasts' : t \in Superseded(S)
        /\ pendingToggles' = Without(pendingToggles, currentList, S) \cup
             {[at |-> currentList, item |-> i, toast |-> seq + 1, before |-> before[i]] :
                 i \in toast.ids}
<1>1. PICK value : value = ~\A i \in S : Shown(i).done  OBVIOUS
<1>2. PICK before : before = [i \in S |-> IF Pending(currentList, i) = {} THEN Shown(i).done
                                 ELSE (CHOOSE p \in Pending(currentList, i) : TRUE).before]
  OBVIOUS
<1>3. PICK toast : toast =
          [id |-> seq + 1, kind |-> "done", bulk |-> bulk, at |-> currentList,
           list |-> currentListId, ids |-> {i \in S : before[i] # value}, value |-> value,
           before |-> before]
  OBVIOUS
<1>4. /\ toast.id = seq + 1 /\ toast.kind = "done" /\ toast.at = currentList
      /\ toast.list = currentListId /\ toast.ids = {i \in S : before[i] # value}
  BY <1>3
<1>5. /\ toasts' = (toasts \ Superseded(S)) \cup
             (IF {i \in S : before[i] # value} = {} THEN {} ELSE {toast})
      /\ pendingToggles' = Without(pendingToggles, currentList, S) \cup
             {[at |-> currentList, item |-> i, toast |-> seq + 1, before |-> before[i]] :
                 i \in {i \in S : before[i] # value}}
  BY <1>1, <1>2, <1>3 DEF Toggle
<1>6. /\ currentList \in DOMAIN heap /\ S \subseteq ItemsOf(heap[currentList].list)
      /\ \A i \in S : Shown(i) \in Object /\ Shown(i).there /\ ~Shown(i).hidden
  <2>1. S \subseteq Visible /\ S # {}  BY DEF Toggle
  <2>2. \A i \in S : Shown(i).there /\ ~Shown(i).hidden  BY <2>1 DEF Visible, Shown
  <2> QED  BY <2>1, <2>2, VisibleItems
<1>7. ASSUME NEW i \in S
      PROVE  /\ before[i] \in BOOLEAN
             /\ Pending(currentList, i) = {} => before[i] = Shown(i).done
             /\ Pending(currentList, i) # {} =>
                    \E p \in Pending(currentList, i) : before[i] = p.before
  <2>1. \A p \in Pending(currentList, i) : p.before \in BOOLEAN
    BY DEF Pending, TypeInv, WaitingInv, ToggleShape
  <2>2. Shown(i).done \in BOOLEAN  BY <1>6 DEF Object
  <2>3. CASE Pending(currentList, i) = {}  BY <1>2, <2>2, <2>3
  <2>4. CASE Pending(currentList, i) # {}
    <3>1. PICK p : p = CHOOSE q \in Pending(currentList, i) : TRUE  OBVIOUS
    <3>2. p \in Pending(currentList, i)  BY <2>4, <3>1
    <3>3. before[i] = p.before  BY <1>2, <2>4, <3>1
    <3> QED  BY <2>1, <2>4, <3>2, <3>3
  <2> QED  BY <2>3, <2>4
<1>8. PICK f : f = [j \in DOMAIN heap[currentList].items |->
                       [heap[currentList].items[j] EXCEPT !.done = value]]
  OBVIOUS
<1>9. PICK items : items = [j \in DOMAIN heap[currentList].items |->
                               IF j \in S THEN f[j] ELSE heap[currentList].items[j]]
  OBVIOUS
<1>10. PageInv  BY DEF TypeInv
<1>11. /\ Edited(currentList, S)
       /\ \A i \in S : heap'[currentList].items[i] = f[i]
  <2>1. heap' = [heap EXCEPT ![currentList].items =
                  [j \in DOMAIN heap[currentList].items |->
                     IF j \in S THEN [heap[currentList].items[j] EXCEPT !.done = value]
                     ELSE heap[currentList].items[j]]]
    BY <1>1 DEF Toggle, Changed
  <2>2. items = [j \in DOMAIN heap[currentList].items |->
                     IF j \in S THEN [heap[currentList].items[j] EXCEPT !.done = value]
                     ELSE heap[currentList].items[j]]
    BY <1>8, <1>9
  <2>3. heap' = [heap EXCEPT ![currentList].items = items]  BY <2>1, <2>2
  <2>4. DOMAIN heap[currentList].items = ItemsOf(heap[currentList].list)
    BY <1>6, <1>10, HeapObjects
  <2>5. /\ \A j \in ItemsOf(heap[currentList].list) :
             j \notin S => items[j] = heap[currentList].items[j]
        /\ \A j \in S : items[j] = f[j]
    BY <1>6, <1>9, <2>4
  <2>6. Edited(currentList, S) /\ heap'[currentList].items = items
    <3>1. currentList \in DOMAIN heap  BY <1>6
    <3>2. \A j \in ItemsOf(heap[currentList].list) :
             j \notin S => items[j] = heap[currentList].items[j]
      BY <2>5
    <3>3. Edits(currentList, items)  BY <2>3 DEF Edits
    <3> QED  BY <1>10, <3>1, <3>2, <3>3, HeapEdited
  <2> QED  BY <2>5, <2>6
<1>12. ASSUME NEW i \in S
       PROVE  Looks(f[i], value, Shown(i).quantity, Shown(i).there, Shown(i).hidden)
  <2>1. i \in DOMAIN heap[currentList].items  BY <1>6, <1>10, HeapObjects
  <2>2. f[i] = [Shown(i) EXCEPT !.done = value]  BY <1>8, <2>1 DEF Shown
  <2> QED  BY <1>6, <2>2 DEF Object, Looks
<1>13. value \in BOOLEAN  BY <1>1
<1>14. toasts' \subseteq toasts \cup {toast} /\ \A t \in toasts \ toasts' : t \in Superseded(S)
  BY <1>5
<1>15. pendingToggles' = Without(pendingToggles, currentList, S) \cup
             {[at |-> currentList, item |-> i, toast |-> seq + 1, before |-> before[i]] :
                 i \in toast.ids}
  BY <1>4, <1>5
<1>16. \A i \in S : Looks(heap'[currentList].items[i], value, Shown(i).quantity,
                              Shown(i).there, Shown(i).hidden)
  BY <1>11, <1>12
<1> WITNESS value \in BOOLEAN
<1> WITNESS before, toast
<1> QED  BY <1>4, <1>6, <1>7, <1>11, <1>14, <1>15, <1>16

\* What an edit makes of the objects, when f is what it makes of each of ids.
LEMMA ObjectsEdited ==
    ASSUME PageInv, NEW at \in DOMAIN heap, NEW ids, NEW items, NEW f,
           items = [j \in DOMAIN heap[at].items |-> IF j \in ids THEN f[j]
                                                    ELSE heap[at].items[j]],
           Edits(at, items)
    PROVE  /\ Edited(at, ids)
           /\ \A j \in ids : j \in ItemsOf(heap[at].list) => heap'[at].items[j] = f[j]
<1>1. DOMAIN heap[at].items = ItemsOf(heap[at].list)  BY HeapObjects
<1>2. /\ \A j \in ItemsOf(heap[at].list) : j \notin ids => items[j] = heap[at].items[j]
      /\ \A j \in ItemsOf(heap[at].list) : j \in ids => items[j] = f[j]
  BY <1>1
<1>3. Edited(at, ids) /\ heap'[at].items = items  BY <1>2, HeapEdited
<1> QED  BY <1>2, <1>3

\* Deleting.
LEMMA RemoveHides ==
    ASSUME TypeInv, NEW S \in SUBSET Items, NEW bulk \in BOOLEAN, Remove(S, bulk)
    PROVE  \E toast :
        /\ currentList \in DOMAIN heap /\ S \subseteq ItemsOf(heap[currentList].list)
        /\ \A i \in S : Shown(i).there /\ ~Shown(i).hidden
        /\ Edited(currentList, S)
        /\ \A i \in S : Looks(heap'[currentList].items[i], Shown(i).done, Shown(i).quantity,
                              Shown(i).there, TRUE)
        /\ toast.id = seq + 1 /\ toast.kind = "delete" /\ toast.at = currentList
        /\ toast.ids = S
        /\ toasts' = (toasts \ Superseded(S)) \cup {toast}
<1>1. PICK toast : toast =
          [id |-> seq + 1, kind |-> "delete", bulk |-> bulk, at |-> currentList,
           list |-> heap[currentList].list, ids |-> S, value |-> None,
           before |-> [i \in S |-> None]]
  OBVIOUS
<1>2. /\ toast.id = seq + 1 /\ toast.kind = "delete" /\ toast.at = currentList
      /\ toast.ids = S /\ toasts' = (toasts \ Superseded(S)) \cup {toast}
  BY <1>1 DEF Remove
<1>3. /\ currentList \in DOMAIN heap /\ S \subseteq ItemsOf(heap[currentList].list)
      /\ \A i \in S : Shown(i) \in Object /\ Shown(i).there /\ ~Shown(i).hidden
  <2>1. S \subseteq Visible /\ S # {}  BY DEF Remove
  <2>2. \A i \in S : Shown(i).there /\ ~Shown(i).hidden  BY <2>1 DEF Visible, Shown
  <2> QED  BY <2>1, <2>2, VisibleItems
<1>4. PICK f : f = [j \in DOMAIN heap[currentList].items |->
                       [heap[currentList].items[j] EXCEPT !.hidden = TRUE]]
  OBVIOUS
<1>5. PICK items : items = [j \in DOMAIN heap[currentList].items |->
                               IF j \in S THEN f[j] ELSE heap[currentList].items[j]]
  OBVIOUS
<1>6. Edits(currentList, items)
  <2>1. heap' = [heap EXCEPT ![currentList].items =
                  [j \in DOMAIN heap[currentList].items |->
                     IF j \in S THEN [heap[currentList].items[j] EXCEPT !.hidden = TRUE]
                     ELSE heap[currentList].items[j]]]
    BY DEF Remove, Changed
  <2>2. items = [j \in DOMAIN heap[currentList].items |->
                     IF j \in S THEN [heap[currentList].items[j] EXCEPT !.hidden = TRUE]
                     ELSE heap[currentList].items[j]]
    BY <1>4, <1>5
  <2> QED  BY <2>1, <2>2 DEF Edits
<1>7. PageInv  BY DEF TypeInv
<1>8. Edited(currentList, S) /\ \A i \in S : heap'[currentList].items[i] = f[i]
  <2>1. currentList \in DOMAIN heap /\ S \subseteq ItemsOf(heap[currentList].list)
    BY <1>3
  <2>2. /\ Edited(currentList, S)
        /\ \A j \in S : j \in ItemsOf(heap[currentList].list) =>
                heap'[currentList].items[j] = f[j]
    BY <2>1, <1>5, <1>6, <1>7, ObjectsEdited
  <2> QED  BY <2>1, <2>2
<1>9. ASSUME NEW i \in S
      PROVE  Looks(f[i], Shown(i).done, Shown(i).quantity, Shown(i).there, TRUE)
  <2>1. i \in DOMAIN heap[currentList].items  BY <1>3, <1>7, HeapObjects
  <2>2. f[i] = [Shown(i) EXCEPT !.hidden = TRUE]  BY <1>4, <2>1 DEF Shown
  <2> QED  BY <1>3, <2>2 DEF Object, Looks
<1> WITNESS toast
<1> QED  BY <1>2, <1>3, <1>8, <1>9

\* Changing a quantity.
LEMMA QuantityShows ==
    ASSUME TypeInv, NEW i \in Items, NEW quantity \in 1 .. MaxQuantity,
           ChangeQuantity(i, quantity)
    PROVE  /\ currentList \in DOMAIN heap /\ i \in ItemsOf(heap[currentList].list)
           /\ Edited(currentList, {i})
           /\ Looks(heap'[currentList].items[i], Shown(i).done, quantity, Shown(i).there,
                    Shown(i).hidden)
           /\ \E before, r :
                /\ r = Request(seq + 1, "quantity", currentList, ListOf[i], i, quantity, before)
                /\ requests' = NotAlone(requests) \cup {r}
                /\ \A m \in pendingQuantityUpdates' :
                     m \in pendingQuantityUpdates \/
                     (m.at = currentList /\ m.item = i /\ m.request = seq + 1)
                /\ \E m \in pendingQuantityUpdates' : m.request = seq + 1
                /\ \A m \in pendingQuantityUpdates :
                     m \in pendingQuantityUpdates' \/ (m.at = currentList /\ m.item = i)
                /\ \/ before = Shown(i).quantity
                   \/ \E m \in pendingQuantityUpdates : m.at = currentList /\ m.item = i
<1>1. /\ currentList \in DOMAIN heap /\ i \in ItemsOf(heap[currentList].list)
      /\ Shown(i) \in Object
  BY VisibleItems DEF ChangeQuantity
<1>2. PICK mine : mine = {p \in pendingQuantityUpdates : p.at = currentList /\ p.item = i}
  OBVIOUS
<1>3. PICK before : before = IF mine = {} THEN Shown(i).quantity
                             ELSE (CHOOSE p \in mine : TRUE).before
  OBVIOUS
<1>4. PICK r : r = Request(seq + 1, "quantity", currentList, ListOf[i], i, quantity, before)
  OBVIOUS
<1>5. PICK n : n = [at |-> currentList, item |-> i, request |-> seq + 1, before |-> before]
  OBVIOUS
<1>6. /\ pendingQuantityUpdates' = (pendingQuantityUpdates \ mine) \cup {n}
      /\ requests' = NotAlone(requests) \cup {r}
  BY <1>2, <1>3, <1>4, <1>5 DEF ChangeQuantity
<1>7. n.at = currentList /\ n.item = i /\ n.request = seq + 1  BY <1>5
<1>8. /\ \A m \in pendingQuantityUpdates' :
           m \in pendingQuantityUpdates \/
           (m.at = currentList /\ m.item = i /\ m.request = seq + 1)
      /\ \E m \in pendingQuantityUpdates' : m.request = seq + 1
      /\ \A m \in pendingQuantityUpdates :
           m \in pendingQuantityUpdates' \/ (m.at = currentList /\ m.item = i)
  BY <1>2, <1>6, <1>7
<1>9. \/ before = Shown(i).quantity
      \/ \E m \in pendingQuantityUpdates : m.at = currentList /\ m.item = i
  BY <1>2, <1>3
<1>10. PICK f : f = [j \in DOMAIN heap[currentList].items |->
                        [heap[currentList].items[j] EXCEPT !.quantity = quantity]]
  OBVIOUS
<1>11. PICK ids : ids = {i}  OBVIOUS
<1>12. PICK items : items = [j \in DOMAIN heap[currentList].items |->
                               IF j \in ids THEN f[j] ELSE heap[currentList].items[j]]
  OBVIOUS
<1>13. Edits(currentList, items)
  <2>1. heap' = [heap EXCEPT ![currentList].items =
                  [j \in DOMAIN heap[currentList].items |->
                     IF j \in {i} THEN [heap[currentList].items[j] EXCEPT !.quantity = quantity]
                     ELSE heap[currentList].items[j]]]
    BY DEF ChangeQuantity, Changed
  <2>2. items = [j \in DOMAIN heap[currentList].items |->
                     IF j \in {i} THEN [heap[currentList].items[j] EXCEPT !.quantity = quantity]
                     ELSE heap[currentList].items[j]]
    BY <1>10, <1>11, <1>12
  <2> QED  BY <2>1, <2>2 DEF Edits
<1>14. PageInv  BY DEF TypeInv
<1>15. Edited(currentList, ids) /\ heap'[currentList].items[i] = f[i]
  BY <1>1, <1>11, <1>12, <1>13, <1>14, ObjectsEdited
<1>16. Looks(f[i], Shown(i).done, quantity, Shown(i).there, Shown(i).hidden)
  <2>1. i \in DOMAIN heap[currentList].items  BY <1>1, <1>14, HeapObjects
  <2>2. f[i] = [Shown(i) EXCEPT !.quantity = quantity]  BY <1>10, <2>1 DEF Shown
  <2> QED  BY <1>1, <2>2 DEF Object, Looks
<1>17. \E b, q :
                /\ q = Request(seq + 1, "quantity", currentList, ListOf[i], i, quantity, b)
                /\ requests' = NotAlone(requests) \cup {q}
                /\ \A m \in pendingQuantityUpdates' :
                     m \in pendingQuantityUpdates \/
                     (m.at = currentList /\ m.item = i /\ m.request = seq + 1)
                /\ \E m \in pendingQuantityUpdates' : m.request = seq + 1
                /\ \A m \in pendingQuantityUpdates :
                     m \in pendingQuantityUpdates' \/ (m.at = currentList /\ m.item = i)
                /\ \/ b = Shown(i).quantity
                   \/ \E m \in pendingQuantityUpdates : m.at = currentList /\ m.item = i
  <2> WITNESS before, r
  <2> QED  BY <1>4, <1>6, <1>8, <1>9
<1> QED  BY <1>1, <1>11, <1>15, <1>16, <1>17

\* Undoing.
LEMMA UndoRestores ==
    ASSUME TypeInv, NEW t \in toasts, Undo(t)
    PROVE  /\ t.at \in DOMAIN heap /\ Owned(t) \subseteq ItemsOf(heap[t.at].list)
           /\ Edited(t.at, Owned(t))
           /\ \A i \in Owned(t) :
                Looks(heap'[t.at].items[i],
                      IF t.kind = "delete" THEN ObjectAt(t.at, i).done ELSE t.before[i],
                      ObjectAt(t.at, i).quantity, ObjectAt(t.at, i).there,
                      IF t.kind = "delete" THEN FALSE ELSE ObjectAt(t.at, i).hidden)
<1>1. PageInv /\ t.at \in DOMAIN heap /\ Owned(t) \subseteq ItemsOf(heap[t.at].list)
  BY OwnedItems DEF TypeInv, ToastShape
<1>2. PICK f : f = [j \in DOMAIN heap[t.at].items |->
                       IF t.kind = "delete" THEN [heap[t.at].items[j] EXCEPT !.hidden = FALSE]
                       ELSE [heap[t.at].items[j] EXCEPT !.done = t.before[j]]]
  OBVIOUS
<1>3. PICK items : items = [j \in DOMAIN heap[t.at].items |->
                               IF j \in Owned(t) THEN f[j] ELSE heap[t.at].items[j]]
  OBVIOUS
<1>4. Edits(t.at, items)
  <2>1. heap' = [heap EXCEPT ![t.at].items =
                  [j \in DOMAIN heap[t.at].items |->
                     IF j \in Owned(t)
                     THEN IF t.kind = "delete"
                          THEN [heap[t.at].items[j] EXCEPT !.hidden = FALSE]
                          ELSE [heap[t.at].items[j] EXCEPT !.done = t.before[j]]
                     ELSE heap[t.at].items[j]]]
    BY DEF Undo
  <2>2. items = [j \in DOMAIN heap[t.at].items |->
                     IF j \in Owned(t)
                     THEN IF t.kind = "delete"
                          THEN [heap[t.at].items[j] EXCEPT !.hidden = FALSE]
                          ELSE [heap[t.at].items[j] EXCEPT !.done = t.before[j]]
                     ELSE heap[t.at].items[j]]
    BY <1>2, <1>3
  <2> QED  BY <2>1, <2>2 DEF Edits
<1>5. Edited(t.at, Owned(t)) /\ \A i \in Owned(t) : heap'[t.at].items[i] = f[i]
  BY <1>1, <1>3, <1>4, ObjectsEdited
<1>6. ASSUME NEW i \in Owned(t)
      PROVE  Looks(f[i], IF t.kind = "delete" THEN ObjectAt(t.at, i).done ELSE t.before[i],
                   ObjectAt(t.at, i).quantity, ObjectAt(t.at, i).there,
                   IF t.kind = "delete" THEN FALSE ELSE ObjectAt(t.at, i).hidden)
  <2>1. i \in DOMAIN heap[t.at].items /\ ObjectAt(t.at, i) \in Object
    BY <1>1, HeapObjects DEF ObjectAt
  <2>2. CASE t.kind = "delete"
    <3>1. f[i] = [ObjectAt(t.at, i) EXCEPT !.hidden = FALSE]  BY <1>2, <2>1, <2>2 DEF ObjectAt
    <3> QED  BY <2>1, <2>2, <3>1 DEF Object, Looks
  <2>3. CASE t.kind # "delete"
    <3>1. f[i] = [ObjectAt(t.at, i) EXCEPT !.done = t.before[i]]
      BY <1>2, <2>1, <2>3 DEF ObjectAt
    <3> QED  BY <2>1, <2>3, <3>1 DEF Object, Looks
  <2> QED  BY <2>2, <2>3
<1> QED  BY <1>1, <1>5, <1>6

\* Sending: what a deletion of one item hides is taken out.
LEMMA CommitKeeps ==
    ASSUME TypeInv, NEW t \in toasts, Commit(t)
    PROVE  /\ t.at \in DOMAIN heap /\ Owned(t) \subseteq ItemsOf(heap[t.at].list)
           /\ Edited(t.at, Owned(t))
           /\ \A i \in Owned(t) :
                /\ heap'[t.at].items[i].done = ObjectAt(t.at, i).done
                /\ heap'[t.at].items[i].quantity = ObjectAt(t.at, i).quantity
                /\ heap'[t.at].items[i].hidden = ObjectAt(t.at, i).hidden
           /\ t.kind = "done" => heap' = heap
<1>1. PageInv /\ t.at \in DOMAIN heap /\ Owned(t) \subseteq ItemsOf(heap[t.at].list)
  BY OwnedItems DEF TypeInv, ToastShape
<1>2. CASE t.kind = "delete" /\ ~t.bulk
  <2>0. Owned(t) = t.ids  BY <1>2 DEF Owned
  <2>1. PICK f : f = [j \in DOMAIN heap[t.at].items |->
                         [heap[t.at].items[j] EXCEPT !.there = FALSE]]
    OBVIOUS
  <2>2. PICK items : items = [j \in DOMAIN heap[t.at].items |->
                                 IF j \in Owned(t) THEN f[j] ELSE heap[t.at].items[j]]
    OBVIOUS
  <2>3. Edits(t.at, items)
    <3>1. heap' = [heap EXCEPT ![t.at].items =
                  [j \in DOMAIN heap[t.at].items |->
                     IF j \in t.ids THEN [heap[t.at].items[j] EXCEPT !.there = FALSE]
                     ELSE heap[t.at].items[j]]]
      BY <1>2 DEF Commit, Changed
    <3>2. items = [j \in DOMAIN heap[t.at].items |->
                     IF j \in t.ids THEN [heap[t.at].items[j] EXCEPT !.there = FALSE]
                     ELSE heap[t.at].items[j]]
      BY <2>0, <2>1, <2>2
    <3> QED  BY <3>1, <3>2 DEF Edits
  <2>4. Edited(t.at, Owned(t)) /\ \A i \in Owned(t) : heap'[t.at].items[i] = f[i]
    BY <1>1, <2>2, <2>3, ObjectsEdited
  <2>5. ASSUME NEW i \in Owned(t)
        PROVE  f[i].done = ObjectAt(t.at, i).done /\ f[i].quantity = ObjectAt(t.at, i).quantity
               /\ f[i].hidden = ObjectAt(t.at, i).hidden
    <3>1. i \in DOMAIN heap[t.at].items /\ ObjectAt(t.at, i) \in Object
      BY <1>1, HeapObjects DEF ObjectAt
    <3>2. f[i] = [ObjectAt(t.at, i) EXCEPT !.there = FALSE]  BY <2>1, <3>1 DEF ObjectAt
    <3> QED  BY <3>1, <3>2 DEF Object
  <2> QED  BY <1>1, <1>2, <2>4, <2>5
<1>3. CASE ~(t.kind = "delete" /\ ~t.bulk)
  <2>1. heap' = heap  BY <1>3 DEF Commit
  <2> QED  BY <1>1, <2>1 DEF Edited, ObjectAt
<1> QED  BY <1>2, <1>3

\* The answer to a check-off.
LEMMA ToggleAnswered ==
    ASSUME TypeInv, NEW r \in requests, ToggleSettles(r)
    PROVE  /\ r.item \in Items /\ r.at \in DOMAIN heap /\ r.item \in ItemsOf(heap[r.at].list)
           /\ r.pc \in {"answered", "failed"} /\ Edited(r.at, {r.item})
           /\ Looks(heap'[r.at].items[r.item],
                    IF r.pc = "failed" THEN r.before ELSE r.answer.done,
                    IF r.pc = "failed" THEN ObjectAt(r.at, r.item).quantity
                                       ELSE r.answer.quantity,
                    ObjectAt(r.at, r.item).there, ObjectAt(r.at, r.item).hidden)
<1>1. /\ PageInv /\ r.item \in Items /\ r.at \in DOMAIN heap
      /\ r.item \in ItemsOf(heap[r.at].list) /\ r.pc \in {"answered", "failed"}
      /\ r.pc = "answered" => r.answer \in Row
  BY RequestItems DEF TypeInv, RequestsInv, RequestShape, ToggleSettles, Answered
<1>2. PICK f : f = [j \in DOMAIN heap[r.at].items |->
                       IF r.pc = "failed" THEN [heap[r.at].items[j] EXCEPT !.done = r.before]
                       ELSE Merge(heap[r.at].items[j], r.answer)]
  OBVIOUS
<1>0. PICK ids : ids = {r.item}  OBVIOUS
<1>3. PICK items : items = [j \in DOMAIN heap[r.at].items |->
                               IF j \in ids THEN f[j] ELSE heap[r.at].items[j]]
  OBVIOUS
<1>4. Edits(r.at, items)
  <2>1. heap' = [heap EXCEPT ![r.at].items =
                  [j \in DOMAIN heap[r.at].items |->
                     IF j \in {r.item}
                     THEN IF r.pc = "failed" THEN [heap[r.at].items[j] EXCEPT !.done = r.before]
                          ELSE Merge(heap[r.at].items[j], r.answer)
                     ELSE heap[r.at].items[j]]]
    BY DEF ToggleSettles, Changed
  <2>2. items = [j \in DOMAIN heap[r.at].items |->
                     IF j \in {r.item}
                     THEN IF r.pc = "failed" THEN [heap[r.at].items[j] EXCEPT !.done = r.before]
                          ELSE Merge(heap[r.at].items[j], r.answer)
                     ELSE heap[r.at].items[j]]
    BY <1>0, <1>2, <1>3
  <2> QED  BY <2>1, <2>2 DEF Edits
<1>5. Edited(r.at, {r.item}) /\ heap'[r.at].items[r.item] = f[r.item]
  <2>1. /\ Edited(r.at, ids)
        /\ \A j \in ids : j \in ItemsOf(heap[r.at].list) => heap'[r.at].items[j] = f[j]
    BY <1>1, <1>3, <1>4, ObjectsEdited
  <2> QED  BY <1>0, <1>1, <2>1
<1>6. r.item \in DOMAIN heap[r.at].items /\ ObjectAt(r.at, r.item) \in Object
  BY <1>1, HeapObjects DEF ObjectAt
<1>7. CASE r.pc = "failed"
  <2>1. f[r.item] = [ObjectAt(r.at, r.item) EXCEPT !.done = r.before]
    BY <1>2, <1>6, <1>7 DEF ObjectAt
  <2> QED  BY <1>1, <1>5, <1>6, <1>7, <2>1 DEF Object, Looks
<1>8. CASE r.pc # "failed"
  <2>1. f[r.item] = Merge(ObjectAt(r.at, r.item), r.answer)
    BY <1>2, <1>6, <1>8 DEF ObjectAt
  <2> QED  BY <1>1, <1>5, <1>6, <1>8, <2>1 DEF Object, Looks, Merge
<1> QED  BY <1>7, <1>8

\* The answer to a quantity that has not been changed since.
LEMMA QuantityAnswered ==
    ASSUME TypeInv, NEW r \in requests, QuantitySettles(r),
           \E m \in pendingQuantityUpdates : m.request = r.id
    PROVE  /\ Edited(r.at, {r.item})
           /\ Looks(heap'[r.at].items[r.item],
                    IF r.pc = "failed" THEN ObjectAt(r.at, r.item).done ELSE r.answer.done,
                    IF r.pc = "failed" THEN r.before ELSE r.answer.quantity,
                    ObjectAt(r.at, r.item).there, ObjectAt(r.at, r.item).hidden)
           /\ astray' = Overwritten(r)
<1>1. /\ PageInv /\ r.item \in Items /\ r.at \in DOMAIN heap
      /\ r.item \in ItemsOf(heap[r.at].list) /\ r.pc \in {"answered", "failed"}
      /\ r.pc = "answered" => r.answer \in Row
  BY RequestItems DEF TypeInv, RequestsInv, RequestShape, QuantitySettles, Answered
<1>2. PICK f : f = [j \in DOMAIN heap[r.at].items |->
                       IF r.pc = "failed"
                       THEN [heap[r.at].items[j] EXCEPT !.quantity = r.before]
                       ELSE Merge(heap[r.at].items[j], r.answer)]
  OBVIOUS
<1>0. PICK ids : ids = {r.item}  OBVIOUS
<1>3. PICK items : items = [j \in DOMAIN heap[r.at].items |->
                               IF j \in ids THEN f[j] ELSE heap[r.at].items[j]]
  OBVIOUS
<1>4. Edits(r.at, items) /\ astray' = Overwritten(r)
  <2>1. /\ heap' = [heap EXCEPT ![r.at].items =
                  [j \in DOMAIN heap[r.at].items |->
                     IF j \in {r.item}
                     THEN IF r.pc = "failed"
                          THEN [heap[r.at].items[j] EXCEPT !.quantity = r.before]
                          ELSE Merge(heap[r.at].items[j], r.answer)
                     ELSE heap[r.at].items[j]]]
        /\ astray' = Overwritten(r)
    BY DEF QuantitySettles, Changed
  <2>2. items = [j \in DOMAIN heap[r.at].items |->
                     IF j \in {r.item}
                     THEN IF r.pc = "failed"
                          THEN [heap[r.at].items[j] EXCEPT !.quantity = r.before]
                          ELSE Merge(heap[r.at].items[j], r.answer)
                     ELSE heap[r.at].items[j]]
    BY <1>0, <1>2, <1>3
  <2> QED  BY <2>1, <2>2 DEF Edits
<1>5. Edited(r.at, {r.item}) /\ heap'[r.at].items[r.item] = f[r.item]
  <2>1. /\ Edited(r.at, ids)
        /\ \A j \in ids : j \in ItemsOf(heap[r.at].list) => heap'[r.at].items[j] = f[j]
    BY <1>1, <1>3, <1>4, ObjectsEdited
  <2> QED  BY <1>0, <1>1, <2>1
<1>6. r.item \in DOMAIN heap[r.at].items /\ ObjectAt(r.at, r.item) \in Object
  BY <1>1, HeapObjects DEF ObjectAt
<1>7. CASE r.pc = "failed"
  <2>1. f[r.item] = [ObjectAt(r.at, r.item) EXCEPT !.quantity = r.before]
    BY <1>2, <1>6, <1>7 DEF ObjectAt
  <2> QED  BY <1>4, <1>5, <1>6, <1>7, <2>1 DEF Object, Looks
<1>8. CASE r.pc # "failed"
  <2>1. f[r.item] = Merge(ObjectAt(r.at, r.item), r.answer)
    BY <1>2, <1>6, <1>8 DEF ObjectAt
  <2> QED  BY <1>4, <1>5, <1>6, <1>8, <2>1 DEF Object, Looks, Merge
<1> QED  BY <1>7, <1>8

\* The answer to a deletion.
LEMMA DeleteAnswered ==
    ASSUME TypeInv, NEW r \in requests, DeleteSettles(r)
    PROVE  /\ r.item \in Items /\ r.at \in DOMAIN heap /\ r.item \in ItemsOf(heap[r.at].list)
           /\ r.pc \in {"answered", "failed"} /\ Edited(r.at, {r.item})
           /\ Looks(heap'[r.at].items[r.item], ObjectAt(r.at, r.item).done,
                    ObjectAt(r.at, r.item).quantity, r.pc = "failed",
                    r.pc # "failed" /\ ObjectAt(r.at, r.item).hidden)
<1>1. /\ PageInv /\ r.item \in Items /\ r.at \in DOMAIN heap
      /\ r.item \in ItemsOf(heap[r.at].list) /\ r.pc \in {"answered", "failed"}
  BY RequestItems DEF TypeInv, RequestsInv, RequestShape, DeleteSettles, Answered
<1>2. PICK f : f = [j \in DOMAIN heap[r.at].items |->
                       IF r.pc = "failed" THEN PutBack(heap[r.at].items[j])
                       ELSE [heap[r.at].items[j] EXCEPT !.there = FALSE]]
  OBVIOUS
<1>0. PICK ids : ids = {r.item}  OBVIOUS
<1>3. PICK items : items = [j \in DOMAIN heap[r.at].items |->
                               IF j \in ids THEN f[j] ELSE heap[r.at].items[j]]
  OBVIOUS
<1>4. Edits(r.at, items)
  <2>1. CASE r.pc = "failed"
    <3>1. heap' = [heap EXCEPT ![r.at].items =
                  [j \in DOMAIN heap[r.at].items |->
                     IF j \in {r.item} THEN PutBack(heap[r.at].items[j])
                     ELSE heap[r.at].items[j]]]
      BY <2>1 DEF DeleteSettles, Changed
    <3>2. items = [j \in DOMAIN heap[r.at].items |->
                     IF j \in {r.item} THEN PutBack(heap[r.at].items[j])
                     ELSE heap[r.at].items[j]]
      BY <1>0, <1>2, <1>3, <2>1
    <3> QED  BY <3>1, <3>2 DEF Edits
  <2>2. CASE r.pc # "failed"
    <3>1. heap' = [heap EXCEPT ![r.at].items =
                  [j \in DOMAIN heap[r.at].items |->
                     IF j \in {r.item} THEN [heap[r.at].items[j] EXCEPT !.there = FALSE]
                     ELSE heap[r.at].items[j]]]
      BY <2>2 DEF DeleteSettles, Changed
    <3>2. items = [j \in DOMAIN heap[r.at].items |->
                     IF j \in {r.item} THEN [heap[r.at].items[j] EXCEPT !.there = FALSE]
                     ELSE heap[r.at].items[j]]
      BY <1>0, <1>2, <1>3, <2>2
    <3> QED  BY <3>1, <3>2 DEF Edits
  <2> QED  BY <2>1, <2>2
<1>5. Edited(r.at, {r.item}) /\ heap'[r.at].items[r.item] = f[r.item]
  <2>1. /\ Edited(r.at, ids)
        /\ \A j \in ids : j \in ItemsOf(heap[r.at].list) => heap'[r.at].items[j] = f[j]
    BY <1>1, <1>3, <1>4, ObjectsEdited
  <2> QED  BY <1>0, <1>1, <2>1
<1>6. r.item \in DOMAIN heap[r.at].items /\ ObjectAt(r.at, r.item) \in Object
  BY <1>1, HeapObjects DEF ObjectAt
<1>7. CASE r.pc = "failed"
  <2>1. f[r.item] = PutBack(ObjectAt(r.at, r.item))  BY <1>2, <1>6, <1>7 DEF ObjectAt
  <2> QED  BY <1>1, <1>5, <1>6, <1>7, <2>1 DEF Object, Looks, PutBack
<1>8. CASE r.pc # "failed"
  <2>1. f[r.item] = [ObjectAt(r.at, r.item) EXCEPT !.there = FALSE]
    BY <1>2, <1>6, <1>8 DEF ObjectAt
  <2> QED  BY <1>1, <1>5, <1>6, <1>8, <2>1 DEF Object, Looks
<1> QED  BY <1>7, <1>8

-----------------------------------------------------------------------------
(* Loads *)

\* Requests that are marked are not alone; a load that starts may be.
LEMMA AloneStarts ==
    ASSUME TypeInv, NEW R \in SUBSET requests, NEW N, requests' = NotAlone(R) \cup N,
           \A n \in N : n.alone =>
               R = {} /\ N = {n} /\ toasts' = {} /\ n.item = None /\ n.pc # "answered"
    PROVE  AloneInv'
<1> SUFFICES ASSUME NEW r \in requests', r.alone
             PROVE  /\ requests' = {r} /\ toasts' = {} /\ r.item = None
                    /\ r.pc # "answered"
  BY DEF AloneInv
<1>1. r \notin NotAlone(R)  BY MarkedLike
<1>2. r \in N /\ R = {} /\ N = {r}  BY <1>1
<1>3. NotAlone(R) = {}  BY <1>2 DEF NotAlone
<1> QED  BY <1>2, <1>3

\* A request settles: if another one was alone, it was not in progress.
LEMMA AloneSettles ==
    ASSUME AloneInv, NEW r \in requests, requests' = requests \ {r}
    PROVE  AloneInv'
BY DEF AloneInv

\* A load that was made alone still is when it is answered.
LEMMA AloneNext ==
    ASSUME KnownInv, AloneInv, [Next]_vars
    PROVE  AloneInv'
<1>0. TypeInv  BY DEF KnownInv
<1>1. CASE requests' = NotAlone(requests)
  <2>1. PICK N : N = {}  OBVIOUS
  <2>2. requests' = NotAlone(requests) \cup N  BY <1>1, <2>1
  <2>3. \A n \in N : FALSE  BY <2>1
  <2> QED  BY <1>0, <2>2, <2>3, AloneStarts
<1>2. ASSUME NEW t \in toasts, Commit(t) PROVE AloneInv'
  <2>1. requests' = NotAlone(requests) \cup Sent(t)  BY <1>2, CommitSends
  <2>2. \A n \in Sent(t) : n.alone = FALSE  BY SentRequests
  <2> QED  BY <1>0, <2>1, <2>2, AloneStarts
<1>3. ASSUME NEW i \in Items, NEW quantity \in 1 .. MaxQuantity, ChangeQuantity(i, quantity)
      PROVE  AloneInv'
  <2>1. PICK before : requests' = NotAlone(requests) \cup
          {Request(seq + 1, "quantity", currentList, ListOf[i], i, quantity, before)}
    BY <1>3 DEF ChangeQuantity
  <2>2. PICK n : n = Request(seq + 1, "quantity", currentList, ListOf[i], i, quantity, before)
    OBVIOUS
  <2>3. n.alone = FALSE  BY <2>2 DEF Request
  <2>4. PICK N : N = {n}  OBVIOUS
  <2>5. requests' = NotAlone(requests) \cup N  BY <2>1, <2>2, <2>4
  <2>6. \A m \in N : m.alone = FALSE  BY <2>3, <2>4
  <2> QED  BY <1>0, <2>5, <2>6, AloneStarts
<1>4. ASSUME NEW R \in SUBSET requests, NEW kind, NEW l, NEW at, NEW pc, NEW alone, NEW n,
             n = Load(kind, l, at, pc, alone), pc # "answered",
             alone => R = {} /\ toasts = {}, toasts' = toasts,
             requests' = NotAlone(R) \cup {n}
      PROVE  AloneInv'
  <2>1. n.item = None /\ n.pc = pc /\ n.alone = alone  BY <1>4, NewLoads
  <2>2. PICK N : N = {n}  OBVIOUS
  <2>3. requests' = NotAlone(R) \cup N  BY <1>4, <2>2
  <2>4. \A m \in N : m.alone =>
               R = {} /\ N = {m} /\ toasts' = {} /\ m.item = None /\ m.pc # "answered"
    BY <1>4, <2>1, <2>2
  <2> QED  BY <1>0, <2>3, <2>4, AloneStarts
<1>5. CASE Refresh \/ \E l \in Lists : SelectList(l)
  <2>1. ASSUME NEW kind, NEW l, NEW at, NEW pc, pc # "answered",
               Start(Load(kind, l, at, pc, Alone)), toasts' = toasts
        PROVE  AloneInv'
    <3>1. PICK alone : alone = Alone  OBVIOUS
    <3>2. PICK n : n = Load(kind, l, at, pc, alone)  OBVIOUS
    <3>3. requests' = NotAlone(requests) \cup {n}  BY <2>1, <3>1, <3>2 DEF Start
    <3>4. alone => requests = {} /\ toasts = {}  BY <3>1 DEF Alone
    <3>5. requests \in SUBSET requests  OBVIOUS
    <3> QED  BY <1>4, <2>1, <3>2, <3>3, <3>4, <3>5
  <2>2. CASE Refresh  BY <2>1, <2>2 DEF Refresh, pendings
  <2>3. ASSUME NEW l \in Lists, SelectList(l) PROVE AloneInv'
    BY <2>1, <2>3 DEF SelectList, pendings
  <2> QED  BY <1>5, <2>2, <2>3
<1>6. ASSUME NEW r \in requests, Paint(r) \/ Serve(r) \/ Fail(r) PROVE AloneInv'
  <2>1. /\ toasts' = toasts
        /\ \E s : /\ From(s, r) /\ s.alone = r.alone /\ requests' = (requests \ {r}) \cup {s}
                  /\ s.pc = "answered" /\ r.item = None =>
                        s.answer = ServerList(r.list)' /\ mirror'[r.list] = s.answer
    <3>1. CASE Paint(r)  BY <1>0, <3>1, PaintGoesOn DEF Paint, pendings
    <3>2. CASE Fail(r)  BY <1>0, <3>2, FailGoesOn DEF Fail, pendings
    <3>3. CASE Serve(r) /\ r.item # None
      BY <1>0, <3>3, ItemServed DEF Serve, pendings
    <3>4. CASE Serve(r) /\ r.item = None
      <4>1. /\ r.list \in Lists
            /\ server' = server /\ mirror' = [mirror EXCEPT ![r.list] = ServerList(r.list)]
            /\ \E s : /\ From(s, r) /\ s.alone = r.alone /\ s.answer = ServerList(r.list)
                      /\ requests' = (requests \ {r}) \cup {s}
        BY <1>0, <3>4, LoadServed
      <4>2. ServerList(r.list)' = ServerList(r.list)  BY <4>1 DEF ServerList
      <4>3. mirror'[r.list] = ServerList(r.list)
        BY <1>0, <4>1 DEF TypeInv, ServerInv
      <4> QED  BY <3>4, <4>1, <4>2, <4>3 DEF Serve, pendings
    <3> QED  BY <1>6, <3>1, <3>2, <3>3, <3>4
  <2>2. PICK s : /\ From(s, r) /\ s.alone = r.alone /\ requests' = (requests \ {r}) \cup {s}
                 /\ s.pc = "answered" /\ r.item = None =>
                        s.answer = ServerList(r.list)' /\ mirror'[r.list] = s.answer
    BY <2>1
  <2> SUFFICES ASSUME NEW q \in requests', q.alone
               PROVE  /\ requests' = {q} /\ toasts' = {} /\ q.item = None
                      /\ q.pc = "answered" =>
                            q.answer = ServerList(q.list)' /\ mirror'[q.list] = q.answer
    BY DEF AloneInv
  <2>3. q = s
    <3>1. CASE q # s
      <4>1. q \in requests \ {r}  BY <2>2, <3>1
      <4> QED  BY <4>1 DEF AloneInv
    <3> QED  BY <3>1
  <2>4. r.alone  BY <2>2, <2>3
  <2>5. requests = {r} /\ toasts = {} /\ r.item = None  BY <2>4 DEF AloneInv
  <2>6. s.item = None /\ s.list = r.list  BY <2>2, <2>5 DEF From
  <2> QED  BY <2>1, <2>2, <2>3, <2>5, <2>6
<1>7. ASSUME NEW r \in requests, Settles(r) PROVE AloneInv'
  <2>1. CASE requests' = requests \ {r}  BY <2>1, AloneSettles
  <2>2. CASE DeleteSettles(r)
    <3>1. toasts' = toasts  BY <2>2 DEF DeleteSettles, pendings
    <3>2. ASSUME NEW q, q = Load("refresh", currentListId, currentList, "sent",
                                 requests = {r} /\ toasts = {}),
                 requests' = NotAlone(requests \ {r}) \cup {q}
          PROVE  AloneInv'
      <4>1. PICK alone : alone = (requests = {r} /\ toasts = {})  OBVIOUS
      <4>2. q = Load("refresh", currentListId, currentList, "sent", alone)  BY <3>2, <4>1
      <4>3. alone => requests \ {r} = {} /\ toasts = {}  BY <4>1
      <4>4. requests \ {r} \in SUBSET requests  OBVIOUS
      <4> QED  BY <1>4, <3>1, <3>2, <4>2, <4>3, <4>4
    <3> QED  BY <1>0, <2>1, <2>2, <3>2, DeleteLoads
  <2>3. CASE ~DeleteSettles(r)
    <3>1. requests' = requests \ {r}
      BY <1>7, <2>3 DEF Settles, ToggleSettles, QuantitySettles, OpenSettles, RefreshSettles
    <3> QED  BY <2>1, <3>1
  <2> QED  BY <2>2, <2>3
<1>8. ASSUME NEW S, NEW bulk, Toggle(S, bulk) \/ Remove(S, bulk) PROVE AloneInv'
  BY <1>1, <1>8 DEF Toggle, Remove
<1>9. CASE OtherDevice  BY <1>1, <1>9 DEF OtherDevice
<1>10. CASE ShowDashboard \/ (\E t \in toasts : Undo(t)) \/ UNCHANGED vars
  <2>1. /\ requests' = requests /\ toasts' \subseteq toasts /\ server' = server
        /\ mirror' = mirror
    BY <1>10 DEF ShowDashboard, Undo, Closed, vars, pendings
  <2>2. \A l : ServerList(l)' = ServerList(l)  BY <2>1 DEF ServerList
  <2> QED  BY <2>1, <2>2 DEF AloneInv
<1> QED  BY <1>2, <1>3, <1>5, <1>6, <1>7, <1>8, <1>9, <1>10 DEF Next

\* A load draws the rows of list l in new objects.
Draws(l, rows) == heap' = Append(heap, ListObject(l, rows)) /\ currentList' = Len(heap')

\* What a load that paints or settles does: it draws the mirror's rows, or what it was
\* answered, or nothing; an opened list that was not answered falls back on what it painted.
LEMMA LoadCases ==
    ASSUME TypeInv, NEW r \in requests, Paint(r) \/ OpenSettles(r) \/ RefreshSettles(r)
    PROVE  /\ UNCHANGED <<server, mirror, toasts, pendingToggles, pendingQuantityUpdates,
                          overrides>>
           /\ r.item = None /\ r.list \in Lists
           /\ \/ \E l \in Lists :
                   /\ mirror[l] # None /\ Draws(l, mirror[l])
                   /\ astray' = astray \cup InToasts \cup CrossedBy(l) /\ dropped' = dropped
              \/ /\ r.pc = "answered" /\ requests' = requests \ {r}
                 /\ Draws(r.list, r.answer)
                 /\ astray' = Reloaded(r) /\ dropped' = StillDropped(r)
              \/ /\ heap' = heap /\ dropped' = dropped /\ astray \subseteq astray'
                 /\ \/ currentList' \in {0, currentList}
                    \/ /\ r.kind = "open" /\ r.at # 0 /\ currentList' = r.at
                       /\ ItemsOf(r.list) \subseteq astray'
<1>1. CASE Paint(r)
  <2>1. r.item = None /\ r.list \in Lists  BY <1>1, PaintGoesOn
  <2>2. /\ UNCHANGED <<server, mirror, toasts, pendingToggles, pendingQuantityUpdates,
                       overrides, dropped>>
    BY <1>1 DEF Paint, pendings
  <2>3. CASE mirror[r.list] = None
    <3>1. heap' = heap /\ currentList' = currentList /\ astray' = astray
      BY <1>1, <2>3 DEF Paint
    <3> QED  BY <2>1, <2>2, <3>1
  <2>4. CASE mirror[r.list] # None
    <3>1. /\ Draws(r.list, mirror[r.list])
          /\ astray' = astray \cup InToasts \cup CrossedBy(r.list)
      BY <1>1, <2>4 DEF Paint, Draws
    <3> QED  BY <2>1, <2>2, <2>4, <3>1
  <2> QED  BY <2>3, <2>4
<1>2. CASE OpenSettles(r) \/ RefreshSettles(r)
  <2>1. /\ r.item = None /\ r.list \in Lists /\ requests' = requests \ {r}
        /\ UNCHANGED <<server, mirror, toasts, pendingToggles, pendingQuantityUpdates,
                       overrides>>
    BY <1>2, LoadSettles
  <2>2. CASE r.pc = "answered"
    <3>1. Draws(r.list, r.answer) /\ astray' = Reloaded(r) /\ dropped' = StillDropped(r)
      BY <1>2, <2>2 DEF OpenSettles, RefreshSettles, Draws
    <3> QED  BY <2>1, <2>2, <3>1
  <2>3. CASE r.pc # "answered" /\ OpenSettles(r)
    <3>1. /\ heap' = heap /\ dropped' = dropped /\ r.kind = "open"
          /\ astray' = IF r.at \in {0, currentList} THEN astray ELSE astray \cup ItemsOf(r.list)
          /\ currentList' = IF r.at = 0 THEN 0 ELSE r.at
      BY <2>3 DEF OpenSettles
    <3> QED  BY <2>1, <3>1
  <2>4. CASE r.pc # "answered" /\ RefreshSettles(r)
    <3>1. CASE currentListId # None /\ mirror[currentListId] # None
      <4>1. currentListId \in Lists  BY <3>1 DEF TypeInv, PageInv
      <4>2. /\ Draws(currentListId, mirror[currentListId])
            /\ astray' = astray \cup InToasts \cup CrossedBy(currentListId)
            /\ dropped' = dropped
        BY <2>4, <3>1 DEF RefreshSettles, Draws
      <4> QED  BY <2>1, <3>1, <4>1, <4>2
    <3>2. CASE ~(currentListId # None /\ mirror[currentListId] # None)
      <4>1. UNCHANGED <<heap, currentList, dropped, astray>>
        BY <2>4, <3>2 DEF RefreshSettles
      <4> QED  BY <2>1, <4>1
    <3> QED  BY <3>1, <3>2
  <2> QED  BY <1>2, <2>2, <2>3, <2>4
<1> QED  BY <1>1, <1>2

\* What is drawn then: the rows, in objects that nothing refers to.
LEMMA DrawnNew ==
    ASSUME PageInv, NEW l \in Lists, NEW rows \in [ItemsOf(l) -> Row], Draws(l, rows)
    PROVE  /\ Edited(0, {}) /\ currentList' \in DOMAIN heap' /\ currentList' \notin DOMAIN heap
           /\ currentList' # 0 /\ heap'[currentList'].list = l
           /\ \A i \in ItemsOf(l) :
                Looks(Shown(i)', rows[i].done, rows[i].quantity, rows[i].there, FALSE)
<1>1. PICK o : o = ListObject(l, rows)  OBVIOUS
<1>2. o \in ListObjects  BY <1>1, ObjectType
<1>3. heap' = Append(heap, o) /\ currentList' = Len(heap')  BY <1>1 DEF Draws
<1>4. /\ Edited(0, {}) /\ Len(heap') \in DOMAIN heap' /\ Len(heap') \notin DOMAIN heap
      /\ Len(heap') # 0 /\ heap'[Len(heap')] = o
  BY <1>2, <1>3, HeapAppended
<1>5. o.list = l /\ \A i \in ItemsOf(l) : o.items[i] = ObjectOf(rows[i])
  BY <1>1 DEF ListObject
<1>6. \A i \in ItemsOf(l) :
        Looks(ObjectOf(rows[i]), rows[i].done, rows[i].quantity, rows[i].there, FALSE)
  BY DEF Looks, ObjectOf
<1>7. \A i \in ItemsOf(l) : Shown(i)' = o.items[i]  BY <1>3, <1>4 DEF Shown
<1> QED  BY <1>3, <1>4, <1>5, <1>6, <1>7

\* The rows loads draw.
LEMMA DrawnRows ==
    ASSUME TypeInv
    PROVE  /\ \A l \in Lists : mirror[l] # None => mirror[l] \in [ItemsOf(l) -> Row]
           /\ \A r \in requests : r.item = None /\ r.pc = "answered" =>
                r.answer \in [ItemsOf(r.list) -> Row]
BY DEF TypeInv, ServerInv, RequestsInv, RequestShape

\* The list objects stay, as the lists' they were.
LEMMA ListsKept ==
    ASSUME KnownInv, [Next]_vars
    PROVE  \A n \in DOMAIN heap : n \in DOMAIN heap' /\ heap'[n].list = heap[n].list
<1>0. TypeInv /\ PageInv  BY DEF KnownInv, TypeInv
<1>1. CASE \E at, ids : Edited(at, ids)  BY <1>1 DEF Edited
<1>2. CASE heap' = heap  BY <1>2
<1>3. ASSUME NEW S \in SUBSET Items, NEW bulk \in BOOLEAN, Toggle(S, bulk) \/ Remove(S, bulk)
      PROVE  \E at, ids : Edited(at, ids)
  BY <1>0, <1>3, ToggleMarks, RemoveHides
<1>4. ASSUME NEW i \in Items, NEW quantity \in 1 .. MaxQuantity, ChangeQuantity(i, quantity)
      PROVE  \E at, ids : Edited(at, ids)
  BY <1>0, <1>4, QuantityShows
<1>5. ASSUME NEW t \in toasts, Undo(t) \/ Commit(t) PROVE \E at, ids : Edited(at, ids)
  BY <1>0, <1>5, UndoRestores, CommitKeeps
<1>6. CASE \/ (\E l \in Lists : SelectList(l)) \/ Refresh \/ ShowDashboard \/ OtherDevice
           \/ (\E r \in requests : Serve(r) \/ Fail(r)) \/ UNCHANGED vars
  BY <1>2, <1>6 DEF SelectList, Refresh, ShowDashboard, OtherDevice, Serve, Fail, vars, page
<1>7. ASSUME NEW r \in requests, Paint(r) \/ Settles(r)
      PROVE  heap' = heap \/ \E at, ids : Edited(at, ids)
  <2>1. CASE ToggleSettles(r)  BY <1>0, <2>1, ToggleAnswered
  <2>2. CASE DeleteSettles(r)  BY <1>0, <2>2, DeleteAnswered
  <2>3. CASE QuantitySettles(r)
    <3>1. CASE \E m \in pendingQuantityUpdates : m.request = r.id
      BY <1>0, <2>3, <3>1, QuantityAnswered
    <3>2. CASE ~\E m \in pendingQuantityUpdates : m.request = r.id
      BY <2>3, <3>2 DEF QuantitySettles
    <3> QED  BY <3>1, <3>2
  <2>4. CASE Paint(r) \/ OpenSettles(r) \/ RefreshSettles(r)
    <3>1. CASE heap' = heap  BY <3>1
    <3>2. ASSUME NEW l \in Lists, NEW rows \in [ItemsOf(l) -> Row], Draws(l, rows)
          PROVE  \E at, ids : Edited(at, ids)
      BY <1>0, <3>2, DrawnNew
    <3>3. CASE \E l \in Lists : mirror[l] # None /\ Draws(l, mirror[l])
      BY <1>0, <3>2, <3>3, DrawnRows
    <3>4. CASE r.item = None /\ r.list \in Lists /\ r.pc = "answered" /\ Draws(r.list, r.answer)
      BY <1>0, <3>2, <3>4, DrawnRows
    <3> QED  BY <1>0, <2>4, <3>1, <3>3, <3>4, LoadCases
  <2> QED  BY <1>7, <2>1, <2>2, <2>3, <2>4 DEF Settles
<1>8. CASE \E i \in Items : Toggle({i}, FALSE) \/ Remove({i}, FALSE)
  <2>1. PICK i \in Items : Toggle({i}, FALSE) \/ Remove({i}, FALSE)  BY <1>8
  <2>2. {i} \in SUBSET Items  OBVIOUS
  <2> QED  BY <1>1, <1>3, <2>1, <2>2
<1>9. CASE \E S \in Selections : Toggle(S, TRUE) \/ Remove(S, TRUE)
  BY <1>1, <1>3, <1>9, ListPageAssumption
<1>10. CASE \E i \in Items, quantity \in 1 .. MaxQuantity : ChangeQuantity(i, quantity)
  BY <1>1, <1>4, <1>10
<1> QED  BY <1>1, <1>2, <1>5, <1>6, <1>7, <1>8, <1>9, <1>10 DEF Next

\* A request that has just been made.
Made(r) ==
    /\ r.pc \in {"cache", "sent"} /\ (r.kind = "open" => r.at = 0)
    /\ \/ r.item = None \/ r.at = currentList
       \/ \E t \in toasts : r.at = t.at /\ r.item \in t.ids

\* A request of the next state is one that is in progress, goes on, or has just been made.
LEMMA RequestsNext ==
    ASSUME KnownInv, [Next]_vars
    PROVE  \A r \in requests' :
             \/ \E q \in requests : Like(r, q)
             \/ Made(r)
             \/ \E q \in requests : From(r, q) /\ (Paint(q) \/ Serve(q) \/ Fail(q))
<1>0. TypeInv  BY DEF KnownInv
<1>1. \A q \in requests : Like(q, q)  BY DEF Like, From
<1>2. ASSUME NEW R \in SUBSET requests, NEW N, requests' = NotAlone(R) \cup N,
             \A n \in N : Made(n)
      PROVE  \A r \in requests' :
               \/ \E q \in requests : Like(r, q)
               \/ Made(r)
  BY <1>0, <1>2, MarkedLike
<1>3. CASE requests' = NotAlone(requests)
  <2>1. PICK N : N = {}  OBVIOUS
  <2>2. requests' = NotAlone(requests) \cup N /\ \A n \in N : FALSE  BY <1>3, <2>1
  <2>3. requests \in SUBSET requests  OBVIOUS
  <2> QED  BY <1>2, <2>2, <2>3
<1>4. CASE requests' = requests \/ \E r \in requests : requests' = requests \ {r}
  BY <1>1, <1>4
<1>5. ASSUME NEW t \in toasts, Commit(t)
      PROVE  \A r \in requests' :
               \/ \E q \in requests : Like(r, q)
               \/ Made(r)
  <2>1. requests' = NotAlone(requests) \cup Sent(t)  BY <1>5, CommitSends
  <2>2. t.kind # "open"  BY <1>0 DEF TypeInv, WaitingInv, ToastShape, Toast
  <2>3. \A n \in Sent(t) : Made(n)
    BY <1>0, <2>2, SentRequests, OwnedItems DEF Made
  <2>4. requests \in SUBSET requests  OBVIOUS
  <2> QED  BY <1>2, <2>1, <2>3, <2>4
<1>6. ASSUME NEW i, NEW quantity, ChangeQuantity(i, quantity)
      PROVE  \A r \in requests' :
               \/ \E q \in requests : Like(r, q)
               \/ Made(r)
  <2>1. PICK before : requests' = NotAlone(requests) \cup
          {Request(seq + 1, "quantity", currentList, ListOf[i], i, quantity, before)}
    BY <1>6 DEF ChangeQuantity
  <2>2. PICK n : n = Request(seq + 1, "quantity", currentList, ListOf[i], i, quantity, before)
    OBVIOUS
  <2>3. Made(n)  BY <2>2 DEF Request, Made
  <2>4. PICK N : N = {n}  OBVIOUS
  <2>5. requests' = NotAlone(requests) \cup N  BY <2>1, <2>2, <2>4
  <2>6. \A m \in N : Made(m)
    BY <2>3, <2>4
  <2>7. requests \in SUBSET requests  OBVIOUS
  <2> QED  BY <1>2, <2>5, <2>6, <2>7
<1>7. ASSUME NEW R \in SUBSET requests, NEW kind, NEW l, NEW at, NEW pc, NEW alone, NEW n,
             n = Load(kind, l, at, pc, alone), pc \in {"cache", "sent"},
             kind = "open" => at = 0, requests' = NotAlone(R) \cup {n}
      PROVE  \A r \in requests' :
               \/ \E q \in requests : Like(r, q)
               \/ Made(r)
  <2>1. Made(n)  BY <1>7, NewLoads DEF Made
  <2>2. PICK N : N = {n}  OBVIOUS
  <2>3. requests' = NotAlone(R) \cup N  BY <1>7, <2>2
  <2>4. \A m \in N : Made(m)
    BY <1>7, <2>1, <2>2
  <2> QED  BY <1>2, <2>3, <2>4
<1>8. CASE Refresh \/ \E l \in Lists : SelectList(l)
  <2>1. ASSUME NEW kind, NEW l, NEW at, NEW pc, pc \in {"cache", "sent"},
               kind = "open" => at = 0, Start(Load(kind, l, at, pc, Alone))
        PROVE  \A r \in requests' :
                 \/ \E q \in requests : Like(r, q)
                 \/ Made(r)
    <3>1. PICK alone : alone = Alone  OBVIOUS
    <3>2. PICK n : n = Load(kind, l, at, pc, alone)  OBVIOUS
    <3>3. requests' = NotAlone(requests) \cup {n}  BY <2>1, <3>1, <3>2 DEF Start
    <3>4. requests \in SUBSET requests  OBVIOUS
    <3> QED  BY <1>7, <2>1, <3>2, <3>3, <3>4
  <2>2. CASE Refresh  BY <2>1, <2>2 DEF Refresh
  <2>3. CASE \E l \in Lists : SelectList(l)  BY <2>1, <2>3 DEF SelectList
  <2> QED  BY <1>8, <2>2, <2>3
<1>9. ASSUME NEW r \in requests, Paint(r) \/ Serve(r) \/ Fail(r)
      PROVE  \A q \in requests' : q \in requests \/ From(q, r)
  <2>1. \E s : From(s, r) /\ requests' = (requests \ {r}) \cup {s}
    BY <1>0, <1>9, PaintGoesOn, LoadServed, ItemServed, FailGoesOn
  <2> QED  BY <2>1
<1>10. ASSUME NEW r \in requests, Settles(r)
       PROVE  \A q \in requests' :
               \/ \E p \in requests : Like(q, p)
               \/ Made(q)
  <2>1. CASE requests' = requests \ {r}  BY <1>1, <2>1
  <2>2. CASE DeleteSettles(r)
    <3>1. ASSUME NEW q, q = Load("refresh", currentListId, currentList, "sent",
                                 requests = {r} /\ toasts = {}),
                 requests' = NotAlone(requests \ {r}) \cup {q}
          PROVE  \A p \in requests' :
                   \/ \E o \in requests : Like(p, o)
                   \/ Made(p)
      <4>1. PICK alone : alone = (requests = {r} /\ toasts = {})  OBVIOUS
      <4>2. q = Load("refresh", currentListId, currentList, "sent", alone)  BY <3>1, <4>1
      <4>3. requests \ {r} \in SUBSET requests  OBVIOUS
      <4>4. "sent" \in {"cache", "sent"} /\ ("refresh" = "open" => currentList = 0)
        OBVIOUS
      <4>5. requests' = NotAlone(requests \ {r}) \cup {q}  BY <3>1
      <4> QED  BY <1>7, <4>2, <4>3, <4>4, <4>5
    <3> QED  BY <1>0, <2>1, <2>2, <3>1, DeleteLoads
  <2>3. CASE ~DeleteSettles(r)
    <3>1. requests' = requests \ {r}
      BY <1>10, <2>3 DEF Settles, ToggleSettles, QuantitySettles, OpenSettles, RefreshSettles
    <3> QED  BY <2>1, <3>1
  <2> QED  BY <2>2, <2>3
<1>11. CASE (\E i \in Items : Toggle({i}, FALSE) \/ Remove({i}, FALSE))
            \/ (\E S \in Selections : Toggle(S, TRUE) \/ Remove(S, TRUE)) \/ OtherDevice
  BY <1>3, <1>11 DEF Toggle, Remove, OtherDevice
<1>12. CASE ShowDashboard \/ (\E t \in toasts : Undo(t)) \/ UNCHANGED vars
  BY <1>4, <1>12 DEF ShowDashboard, Undo, vars
<1> QED  BY <1>1, <1>5, <1>6, <1>8, <1>9, <1>10, <1>11, <1>12 DEF Next

\* What an opened list painted is of that list.
LEMMA OpenNext ==
    ASSUME KnownInv, OpenInv, [Next]_vars
    PROVE  OpenInv'
<1>0. TypeInv /\ PageInv  BY DEF KnownInv, TypeInv
<1> SUFFICES ASSUME NEW r \in requests', r.kind = "open", r.at # 0
             PROVE  heap'[r.at].list = r.list
  BY DEF OpenInv
<1>1. ASSUME NEW q \in requests, From(r, q), r.at = q.at PROVE heap'[r.at].list = r.list
  <2>1. q.kind = "open" /\ q.list = r.list /\ q.at # 0  BY <1>1 DEF From
  <2>2. heap[q.at].list = q.list  BY <2>1 DEF OpenInv
  <2>3. q.at \in DOMAIN heap
    <3>1. q.item = None  BY <1>0, <2>1, RequestItems
    <3>2. q.at \in 0 .. Len(heap)  BY <1>0, <3>1 DEF TypeInv, RequestsInv, RequestShape
    <3>3. DOMAIN heap = 1 .. Len(heap)  BY <1>0, LenProperties DEF PageInv
    <3>4. Len(heap) \in Nat  BY <1>0, LenProperties DEF PageInv
    <3> QED  BY <2>1, <3>2, <3>3, <3>4
  <2> QED  BY <1>1, <2>1, <2>2, <2>3, ListsKept
<1>2. CASE \E q \in requests : Like(r, q)  BY <1>1, <1>2 DEF Like
<1>3. ASSUME NEW q \in requests, From(r, q), Serve(q) \/ Fail(q) PROVE heap'[r.at].list = r.list
  <2>1. CASE r \in requests  BY <1>1, <2>1 DEF From
  <2>2. CASE r \notin requests
    <3>1. \E s : s.at = q.at /\ requests' = (requests \ {q}) \cup {s}
      BY <1>0, <1>3, LoadServed, ItemServed, FailGoesOn
    <3>2. r.at = q.at  BY <2>2, <3>1
    <3> QED  BY <1>1, <1>3, <3>2
  <2> QED  BY <2>1, <2>2
<1>4. ASSUME NEW q \in requests, From(r, q), Paint(q) PROVE heap'[r.at].list = r.list
  <2>1. CASE r \in requests  BY <1>1, <2>1 DEF From
  <2>2. CASE r \notin requests
    <3>1. r.at = IF mirror[q.list] = None THEN 0 ELSE Len(heap')
      BY <1>0, <1>4, <2>2, PaintGoesOn
    <3>2. mirror[q.list] # None /\ q.list \in Lists  BY <1>0, <1>4, <3>1, PaintGoesOn
    <3>3. Draws(q.list, mirror[q.list])  BY <1>4, <3>2 DEF Paint, Draws
    <3>4. mirror[q.list] \in [ItemsOf(q.list) -> Row]  BY <1>0, <3>2, DrawnRows
    <3>5. heap'[currentList'].list = q.list  BY <1>0, <3>2, <3>3, <3>4, DrawnNew
    <3>6. r.at = currentList'  BY <3>1, <3>2, <3>3 DEF Draws
    <3> QED  BY <1>4, <3>5, <3>6 DEF From
  <2> QED  BY <2>1, <2>2
<1> QED  BY <1>2, <1>3, <1>4, RequestsNext DEF Made

\* The steps that change the server, its copies, or what the page is wrong about.
LEMMA ServerSteps ==
    ASSUME KnownInv, [Next]_vars
    PROVE  \/ UNCHANGED <<server, mirror>> /\ astray \subseteq astray'
           \/ \E r \in requests : Serve(r)
           \/ OtherDevice
           \/ \E r \in requests : /\ r.alone /\ r.pc = "answered" /\ r.item = None
                                  /\ r.list \in Lists /\ requests' = requests \ {r}
                                  /\ UNCHANGED <<server, mirror>>
                                  /\ astray' = (astray \ ItemsOf(r.list)) \cup InToasts
<1>0. TypeInv  BY DEF KnownInv
<1>1. ASSUME NEW S, NEW bulk, Toggle(S, bulk) \/ Remove(S, bulk)
      PROVE  UNCHANGED <<server, mirror>> /\ astray \subseteq astray'
  BY <1>1 DEF Toggle, Remove
<1>2. ASSUME NEW i, NEW quantity, ChangeQuantity(i, quantity)
      PROVE  UNCHANGED <<server, mirror>> /\ astray \subseteq astray'
  BY <1>2 DEF ChangeQuantity
<1>3. ASSUME NEW t \in toasts, Undo(t) \/ Commit(t)
      PROVE  UNCHANGED <<server, mirror>> /\ astray \subseteq astray'
  BY <1>3 DEF Undo, Commit
<1>4. CASE (\E l \in Lists : SelectList(l)) \/ Refresh \/ ShowDashboard \/ UNCHANGED vars
  BY <1>4 DEF SelectList, Refresh, ShowDashboard, Start, vars
<1>5. ASSUME NEW r \in requests, Paint(r) \/ Fail(r)
      PROVE  UNCHANGED <<server, mirror>> /\ astray \subseteq astray'
  BY <1>5 DEF Paint, Fail
<1>6. ASSUME NEW r \in requests, ToggleSettles(r) \/ QuantitySettles(r) \/ DeleteSettles(r)
      PROVE  UNCHANGED <<server, mirror>> /\ astray \subseteq astray'
  BY <1>6 DEF ToggleSettles, QuantitySettles, DeleteSettles, Overwritten
<1>7. ASSUME NEW r \in requests, OpenSettles(r) \/ RefreshSettles(r)
      PROVE  \/ UNCHANGED <<server, mirror>> /\ astray \subseteq astray'
             \/ \E q \in requests : /\ q.alone /\ q.pc = "answered" /\ q.item = None
                                  /\ q.list \in Lists /\ requests' = requests \ {q}
                                  /\ UNCHANGED <<server, mirror>>
                                  /\ astray' = (astray \ ItemsOf(q.list)) \cup InToasts
  BY <1>0, <1>7, LoadSettles
<1> QED  BY <1>1, <1>2, <1>3, <1>4, <1>5, <1>6, <1>7 DEF Next, Settles

\* What the server lists of an item is what it has of it.
LEMMA ServerRows == \A l : \A i \in ItemsOf(l) : ServerList(l)[i] = server[i]
BY DEF ServerList

\* The mirror is the server's, but for the items the page is wrong about.
LEMMA MirrorNext ==
    ASSUME KnownInv, MirrorInv, AloneInv, [Next]_vars
    PROVE  MirrorInv'
<1>0. TypeInv /\ ServerInv  BY DEF KnownInv, TypeInv
<1> SUFFICES ASSUME NEW l \in Lists, mirror'[l] # None, NEW i \in ItemsOf(l), i \notin astray'
             PROVE  mirror'[l][i] = server'[i]
  BY DEF MirrorInv
<1>1. mirror[l] # None /\ i \notin astray => mirror[l][i] = server[i]  BY DEF MirrorInv
<1>2. CASE UNCHANGED <<server, mirror>> /\ astray \subseteq astray'  BY <1>1, <1>2
<1>3. ASSUME NEW r \in requests, Serve(r), r.item = None PROVE mirror'[l][i] = server'[i]
  <2>1. /\ server' = server /\ mirror' = [mirror EXCEPT ![r.list] = ServerList(r.list)]
        /\ astray' = astray /\ r.list \in Lists
    BY <1>0, <1>3, LoadServed DEF Serve
  <2>2. mirror'[l] = IF l = r.list THEN ServerList(l) ELSE mirror[l]
    BY <1>0, <2>1 DEF ServerInv
  <2> QED  BY <1>1, <2>1, <2>2, ServerRows
<1>4. ASSUME NEW r \in requests, Serve(r), r.item # None PROVE mirror'[l][i] = server'[i]
  <2>1. astray' = astray  BY <1>4 DEF Serve
  <2>2. CASE UNCHANGED <<server, mirror>>  BY <1>1, <2>1, <2>2
  <2>3. CASE ~UNCHANGED <<server, mirror>>
    <3>1. /\ r.item \in Items
          /\ server' = [server EXCEPT ![r.item] = Written(r)]
          /\ mirror' = [mirror EXCEPT ![ListOf[r.item]] =
                            IF @ = None THEN None ELSE [@ EXCEPT ![r.item] = Written(r)]]
      BY <1>0, <1>4, <2>3, ItemServed
    <3>2. PICK row : row = Written(r)  OBVIOUS
    <3>3. ListOf[r.item] \in Lists /\ r.item \in ItemsOf(ListOf[r.item]) /\ i \in Items
          /\ ListOf[i] = l
      BY <3>1, ListPageAssumption DEF ItemsOf
    <3>4. CASE l # ListOf[r.item]
      <4>1. mirror'[l] = mirror[l]  BY <1>0, <3>1, <3>4 DEF ServerInv
      <4>2. i # r.item  BY <3>3, <3>4
      <4>3. server'[i] = server[i]  BY <1>0, <3>1, <3>3, <4>2 DEF ServerInv
      <4> QED  BY <1>1, <2>1, <4>1, <4>3
    <3>5. CASE l = ListOf[r.item]
      <4>1. mirror'[l] = IF mirror[l] = None THEN None ELSE [mirror[l] EXCEPT ![r.item] = row]
        BY <1>0, <3>1, <3>2, <3>5 DEF ServerInv
      <4>2. mirror[l] # None /\ mirror'[l] = [mirror[l] EXCEPT ![r.item] = row]  BY <4>1
      <4>3. mirror[l] \in [ItemsOf(l) -> Row]  BY <1>0, <4>2 DEF ServerInv
      <4>4. mirror'[l][i] = IF i = r.item THEN row ELSE mirror[l][i]  BY <4>2, <4>3
      <4>5. server'[i] = IF i = r.item THEN row ELSE server[i]
        BY <1>0, <3>1, <3>2, <3>3 DEF ServerInv
      <4> QED  BY <1>1, <2>1, <4>2, <4>4, <4>5
    <3> QED  BY <3>4, <3>5
  <2> QED  BY <2>2, <2>3
<1>5. CASE OtherDevice
  <2>1. mirror' = mirror  BY <1>5 DEF OtherDevice
  <2>2. PICK j \in Items : server' = [server EXCEPT ![j].done = ~@] /\ astray' = astray \cup {j}
    BY <1>5 DEF OtherDevice
  <2>3. i # j /\ i \notin astray /\ i \in Items  BY <2>2 DEF ItemsOf
  <2>4. server'[i] = server[i]  BY <1>0, <2>2, <2>3 DEF ServerInv
  <2> QED  BY <1>1, <2>1, <2>3, <2>4
<1>6. ASSUME NEW r \in requests, r.alone, r.pc = "answered", UNCHANGED <<server, mirror>>,
             astray' = (astray \ ItemsOf(r.list)) \cup InToasts
      PROVE  mirror'[l][i] = server'[i]
  <2>1. r.answer = ServerList(r.list) /\ mirror[r.list] = r.answer  BY <1>6 DEF AloneInv
  <2>2. CASE i \in ItemsOf(r.list)
    <3>1. l = r.list  BY <2>2 DEF ItemsOf
    <3> QED  BY <1>6, <2>1, <3>1, ServerRows
  <2>3. CASE i \notin ItemsOf(r.list)  BY <1>1, <1>6, <2>3
  <2> QED  BY <2>2, <2>3
<1> QED  BY <1>2, <1>3, <1>4, <1>5, <1>6, ServerSteps

\* So is what loads answer.
LEMMA AnswerNext ==
    ASSUME KnownInv, AnswerInv, AloneInv, CrossInv, [Next]_vars
    PROVE  AnswerInv'
<1>0. TypeInv /\ ServerInv  BY DEF KnownInv, TypeInv
<1> SUFFICES ASSUME NEW r \in requests', r.item = None, r.pc = "answered",
                    NEW i \in ItemsOf(r.list), i \notin astray'
             PROVE  r.answer[i] = server'[i]
  BY DEF AnswerInv
<1>1. i \in Items /\ ListOf[i] = r.list  BY DEF ItemsOf
<1>2. ASSUME NEW q \in requests, q.item = None, q.pc = "answered", q.answer = r.answer,
             q.list = r.list
      PROVE  r.answer[i] = server'[i]
  <2>1. i \notin astray => r.answer[i] = server[i]  BY <1>2 DEF AnswerInv
  <2>2. CASE UNCHANGED <<server, mirror>> /\ astray \subseteq astray'  BY <2>1, <2>2
  <2>3. ASSUME NEW p \in requests, Serve(p) PROVE r.answer[i] = server'[i]
    <3>1. astray' = astray  BY <2>3 DEF Serve
    <3>2. CASE server' = server  BY <2>1, <3>1, <3>2
    <3>3. CASE server' # server
      <4>1. p.item # None  BY <1>0, <2>3, <3>3, LoadServed
      <4>2. server' = [server EXCEPT ![p.item] = Written(p)]
        BY <1>0, <2>3, <3>3, <4>1, ItemServed
      <4>3. i # p.item  BY <1>1, <1>2, <3>1, <4>1 DEF CrossInv
      <4>4. server'[i] = server[i]  BY <1>0, <1>1, <4>2, <4>3 DEF ServerInv
      <4> QED  BY <2>1, <3>1, <4>4
    <3> QED  BY <3>2, <3>3
  <2>4. CASE OtherDevice
    <3>1. PICK j \in Items : server' = [server EXCEPT ![j].done = ~@]
                             /\ astray' = astray \cup {j}
      BY <2>4 DEF OtherDevice
    <3>2. i # j /\ i \notin astray  BY <3>1
    <3>3. server'[i] = server[i]  BY <1>0, <1>1, <3>1, <3>2 DEF ServerInv
    <3> QED  BY <2>1, <3>2, <3>3
  <2>5. ASSUME NEW p \in requests, p.alone, requests' = requests \ {p}
        PROVE  r.answer[i] = server'[i]
    BY <2>5 DEF AloneInv
  <2> QED  BY <2>2, <2>3, <2>4, <2>5, ServerSteps
<1>3. CASE \E q \in requests : Like(r, q)  BY <1>2, <1>3 DEF Like, From
<1>4. ASSUME r \notin requests, NEW q \in requests, Paint(q) \/ Serve(q) \/ Fail(q)
      PROVE  r.answer[i] = server'[i]
  <2>1. Serve(q) /\ q.item = None
    <3>1. ~Paint(q)  BY <1>0, <1>4, PaintGoesOn
    <3>2. ~Fail(q)  BY <1>0, <1>4, FailGoesOn
    <3>3. ~(Serve(q) /\ q.item # None)
      <4> SUFFICES ASSUME Serve(q), q.item # None PROVE FALSE  OBVIOUS
      <4>1. \E s : From(s, q) /\ requests' = (requests \ {q}) \cup {s}  BY <1>0, ItemServed
      <4> QED  BY <1>4, <4>1 DEF From
    <3> QED  BY <1>4, <3>1, <3>2, <3>3
  <2>2. /\ server' = server
        /\ \E s : From(s, q) /\ s.answer = ServerList(q.list)
                  /\ requests' = (requests \ {q}) \cup {s}
    BY <1>0, <2>1, LoadServed
  <2>3. r.list = q.list /\ r.answer = ServerList(q.list)  BY <1>4, <2>2 DEF From
  <2> QED  BY <2>2, <2>3, ServerRows
<1>5. CASE r \in requests  BY <1>2, <1>5
<1> QED  BY <1>3, <1>4, <1>5, RequestsNext DEF Made

\* A request goes on until it settles.
LEMMA RequestsStay ==
    ASSUME KnownInv, NEW q \in requests, [Next]_vars
    PROVE  Settles(q) \/ \E r \in requests' : From(r, q)
<1>0. TypeInv /\ From(q, q)  BY DEF KnownInv, From
<1>1. CASE q \in requests'  BY <1>0, <1>1
<1>2. ASSUME NEW R \in SUBSET requests, NEW N, q \in R, requests' = NotAlone(R) \cup N
      PROVE  \E r \in requests' : From(r, q)
  <2>1. \E r \in NotAlone(R) : Like(r, q)  BY <1>0, <1>2, MarkedLike
  <2> QED  BY <1>2, <2>1 DEF Like
<1>3. CASE \E N : requests' = NotAlone(requests) \cup N
  <2>1. requests \in SUBSET requests  OBVIOUS
  <2> QED  BY <1>2, <1>3, <2>1
<1>4. ASSUME NEW r \in requests, Paint(r) \/ Serve(r) \/ Fail(r)
      PROVE  \E s \in requests' : From(s, q)
  <2>1. \E s : From(s, r) /\ requests' = (requests \ {r}) \cup {s}
    BY <1>0, <1>4, PaintGoesOn, LoadServed, ItemServed, FailGoesOn
  <2> QED  BY <1>0, <2>1
<1>5. ASSUME NEW r \in requests, Settles(r) PROVE Settles(q) \/ \E s \in requests' : From(s, q)
  <2>1. CASE q = r  BY <1>5, <2>1
  <2>2. CASE requests' = requests \ {r}  BY <1>0, <2>1, <2>2
  <2>3. CASE \E N : requests' = NotAlone(requests \ {r}) \cup N
    <3>1. requests \ {r} \in SUBSET requests  OBVIOUS
    <3> QED  BY <1>2, <2>1, <2>3, <3>1
  <2>4. CASE DeleteSettles(r)  BY <1>0, <2>2, <2>3, <2>4, DeleteLoads
  <2>5. CASE ~DeleteSettles(r)
    <3>1. requests' = requests \ {r}
      BY <1>5, <2>5 DEF Settles, ToggleSettles, QuantitySettles, OpenSettles, RefreshSettles
    <3> QED  BY <2>2, <3>1
  <2> QED  BY <2>4, <2>5
<1>6. CASE \/ (\E t \in toasts : Commit(t)) \/ Refresh \/ (\E l \in Lists : SelectList(l))
           \/ \E i \in Items, quantity \in 1 .. MaxQuantity : ChangeQuantity(i, quantity)
  BY <1>3, <1>6 DEF Commit, Refresh, SelectList, Start, ChangeQuantity
<1>7. CASE requests' = NotAlone(requests)
  <2>1. PICK N : N = {}  OBVIOUS
  <2>2. requests' = NotAlone(requests) \cup N  BY <1>7, <2>1
  <2> QED  BY <1>3, <2>2
<1>8. CASE (\E i \in Items : Toggle({i}, FALSE) \/ Remove({i}, FALSE))
            \/ (\E S \in Selections : Toggle(S, TRUE) \/ Remove(S, TRUE)) \/ OtherDevice
  BY <1>7, <1>8 DEF Toggle, Remove, OtherDevice
<1>9. CASE ShowDashboard \/ (\E t \in toasts : Undo(t)) \/ UNCHANGED vars
  BY <1>1, <1>9 DEF ShowDashboard, Undo, vars
<1> QED  BY <1>4, <1>5, <1>6, <1>8, <1>9 DEF Next

\* A pending quantity has its request until it settles.
LEMMA QuantityNext ==
    ASSUME KnownInv, QuantityInv, [Next]_vars
    PROVE  QuantityInv'
<1>0. TypeInv  BY DEF KnownInv
<1> SUFFICES ASSUME NEW m \in pendingQuantityUpdates'
             PROVE  \E r \in requests' :
                      r.id = m.request /\ r.item = m.item /\ r.at = m.at /\ r.kind = "quantity"
  BY DEF QuantityInv
<1>1. ASSUME m \in pendingQuantityUpdates,
             \A q \in requests : q.id = m.request => ~QuantitySettles(q)
      PROVE  \E r \in requests' :
               r.id = m.request /\ r.item = m.item /\ r.at = m.at /\ r.kind = "quantity"
  <2>1. PICK q \in requests :
          q.id = m.request /\ q.item = m.item /\ q.at = m.at /\ q.kind = "quantity"
    BY <1>1 DEF QuantityInv
  <2>2. ~Settles(q)
    BY <1>1, <2>1 DEF Settles, ToggleSettles, DeleteSettles, OpenSettles, RefreshSettles
  <2>3. PICK r \in requests' : From(r, q)  BY <2>2, RequestsStay
  <2>4. q.item # None  BY <1>0, <2>1, RequestItems
  <2> QED  BY <2>1, <2>3, <2>4 DEF From
<1>2. ASSUME NEW q \in requests, QuantitySettles(q), q.id = m.request PROVE FALSE
  BY <1>2 DEF QuantitySettles
<1>3. CASE m \in pendingQuantityUpdates  BY <1>1, <1>2, <1>3
<1>4. CASE m \notin pendingQuantityUpdates
  <2>1. PICK i \in Items, quantity \in 1 .. MaxQuantity : ChangeQuantity(i, quantity)
    BY <1>4 DEF Next, vars, pendings, Toggle, Remove, Undo, Commit, SelectList, Refresh,
       ShowDashboard, OtherDevice, Paint, Serve, Fail, Settles, ToggleSettles, QuantitySettles,
       DeleteSettles, OpenSettles, RefreshSettles
  <2>2. PICK before :
          /\ requests' = NotAlone(requests) \cup
               {Request(seq + 1, "quantity", currentList, ListOf[i], i, quantity, before)}
          /\ pendingQuantityUpdates' \subseteq pendingQuantityUpdates \cup
               {[at |-> currentList, item |-> i, request |-> seq + 1, before |-> before]}
    BY <2>1 DEF ChangeQuantity
  <2>3. PICK r : r = Request(seq + 1, "quantity", currentList, ListOf[i], i, quantity, before)
    OBVIOUS
  <2>4. r \in requests' /\ r.id = seq + 1 /\ r.item = i /\ r.at = currentList
        /\ r.kind = "quantity"
    BY <2>2, <2>3 DEF Request
  <2>5. m = [at |-> currentList, item |-> i, request |-> seq + 1, before |-> before]
    BY <1>4, <2>2
  <2>6. m.at = currentList /\ m.item = i /\ m.request = seq + 1  BY <2>5
  <2> QED  BY <2>4, <2>6
<1> QED  BY <1>3, <1>4

-----------------------------------------------------------------------------
(* What is hidden *)

\* Is an object as hidden, and as much in its list, as it was?
Keeps(at, i) ==
    /\ heap'[at].items[i].hidden = ObjectAt(at, i).hidden
    /\ heap'[at].items[i].there = ObjectAt(at, i).there

\* Does nothing of the next state delete an object, or wait with it?
Free(at, i) ==
    /\ \A t \in toasts' : ~Deletes(t, at, i)
    /\ \A r \in requests' : ~(r.kind = "delete" /\ r.at = at /\ r.item = i)
    /\ \A p \in pendingToggles' : ~(p.at = at /\ p.item = i)

\* A step that leaves the objects edits none of them.
LEMMA NothingEdited ==
    ASSUME heap' = heap
    PROVE  Edited(0, {})
BY DEF Edited

\* A step that deletes nothing, and shows and hides only objects that are free.
LEMMA HiddenKept ==
    ASSUME TypeInv, HiddenInv, KeyInv', NEW at, NEW ids, Edited(at, ids),
           \A t \in toasts' : t.kind = "delete" => t \in toasts,
           \A r \in requests' : r.kind = "delete" => \E q \in requests : From(r, q),
           \A p \in pendingToggles' : p \in pendingToggles \/
               (heap'[p.at].items[p.item].there /\ ~heap'[p.at].items[p.item].hidden),
           \A i \in ids : Keeps(at, i) \/ Free(at, i)
    PROVE  HiddenInv'
<1>1. ASSUME NEW n \in DOMAIN heap, NEW i \in ItemsOf(heap[n].list)
      PROVE  Keeps(n, i) \/ Free(n, i)
  BY <1>1 DEF Edited, Keeps, ObjectAt
<1>2. ToastHides'
  <2> SUFFICES ASSUME NEW t \in toasts', t.kind = "delete", NEW i \in t.ids
               PROVE  heap'[t.at].items[i].hidden /\ heap'[t.at].items[i].there
    BY DEF ToastHides, ObjectAt
  <2>1. t \in toasts  OBVIOUS
  <2>2. t.at \in DOMAIN heap /\ i \in ItemsOf(heap[t.at].list)
    BY <2>1 DEF TypeInv, WaitingInv, ToastShape
  <2>3. ObjectAt(t.at, i).hidden /\ ObjectAt(t.at, i).there
    BY <2>1 DEF HiddenInv, ToastHides
  <2>4. ~Free(t.at, i)  BY DEF Free, Deletes
  <2> QED  BY <1>1, <2>2, <2>3, <2>4 DEF Keeps
<1>3. ToastDeletes'
  BY DEF HiddenInv, ToastDeletes, Deletes
<1>4. RequestHides'
  <2> SUFFICES ASSUME NEW r \in requests', r.kind = "delete"
               PROVE  /\ heap'[r.at].items[r.item].hidden
                      /\ \A t \in toasts' : ~Deletes(t, r.at, r.item)
    BY DEF RequestHides, ObjectAt, Deletes
  <2>1. PICK q \in requests : From(r, q)  OBVIOUS
  <2>2. q.kind = "delete" /\ q.item = r.item  BY <2>1 DEF From
  <2>3. q.at \in DOMAIN heap /\ q.item \in ItemsOf(heap[q.at].list) /\ r.at = q.at
    BY <2>1, <2>2, RequestItems DEF From
  <2>4. ObjectAt(q.at, q.item).hidden /\ \A t \in toasts : ~Deletes(t, q.at, q.item)
    BY <2>2 DEF HiddenInv, RequestHides
  <2>5. ~Free(r.at, r.item)  BY DEF Free
  <2>6. \A t \in toasts' : ~Deletes(t, r.at, r.item)  BY <2>2, <2>3, <2>4 DEF Deletes
  <2> QED  BY <1>1, <2>2, <2>3, <2>4, <2>5, <2>6 DEF Keeps
<1>5. RequestDeletes'
  <2> SUFFICES ASSUME NEW r \in requests', NEW s \in requests', r.kind = "delete",
                      s.kind = "delete", r.at = s.at, r.item = s.item
               PROVE  r = s
    BY DEF RequestDeletes
  <2>1. PICK q \in requests : From(r, q)  OBVIOUS
  <2>2. PICK p \in requests : From(s, p)  OBVIOUS
  <2>3. q.kind = "delete" /\ p.kind = "delete" /\ q.item = p.item  BY <2>1, <2>2 DEF From
  <2>4. q.at = p.at  BY <2>1, <2>2, <2>3, RequestItems DEF From
  <2>5. q = p  BY <2>3, <2>4 DEF HiddenInv, RequestDeletes
  <2>6. r.id = s.id  BY <2>1, <2>2, <2>5 DEF From
  <2> QED  BY <2>6 DEF KeyInv
<1>6. ToggleSeen'
  <2> SUFFICES ASSUME NEW p \in pendingToggles', p \in pendingToggles
               PROVE  heap'[p.at].items[p.item].there /\ ~heap'[p.at].items[p.item].hidden
    BY DEF ToggleSeen, ObjectAt
  <2>1. p.at \in DOMAIN heap /\ p.item \in ItemsOf(heap[p.at].list)
    BY DEF TypeInv, WaitingInv, ToggleShape
  <2>2. ObjectAt(p.at, p.item).there /\ ~ObjectAt(p.at, p.item).hidden
    BY DEF HiddenInv, ToggleSeen
  <2>3. ~Free(p.at, p.item)  BY DEF Free
  <2> QED  BY <1>1, <2>1, <2>2, <2>3 DEF Keeps
<1> QED  BY <1>2, <1>3, <1>4, <1>5, <1>6 DEF HiddenInv

\* What is deleted is hidden by its new toast.
LEMMA HiddenRemove ==
    ASSUME TypeInv, HiddenInv, KeyInv', NEW S \in SUBSET Items, NEW bulk \in BOOLEAN,
           Remove(S, bulk)
    PROVE  HiddenInv'
<1>1. PICK toast :
        /\ currentList \in DOMAIN heap /\ S \subseteq ItemsOf(heap[currentList].list)
        /\ \A i \in S : Shown(i).there /\ ~Shown(i).hidden
        /\ Edited(currentList, S)
        /\ \A i \in S : Looks(heap'[currentList].items[i], Shown(i).done, Shown(i).quantity,
                              Shown(i).there, TRUE)
        /\ toast.id = seq + 1 /\ toast.kind = "delete" /\ toast.at = currentList
        /\ toast.ids = S
        /\ toasts' = (toasts \ Superseded(S)) \cup {toast}
  BY RemoveHides
<1>2. /\ pendingToggles' = Without(pendingToggles, currentList, S)
      /\ requests' = NotAlone(requests)
  BY DEF Remove
<1>3. \A i \in S : ObjectAt(currentList, i).there /\ ~ObjectAt(currentList, i).hidden
                   /\ heap'[currentList].items[i].there /\ heap'[currentList].items[i].hidden
  BY <1>1 DEF Shown, ObjectAt, Looks
<1>4. ASSUME NEW n \in DOMAIN heap, NEW i \in ItemsOf(heap[n].list),
             n # currentList \/ i \notin S
      PROVE  heap'[n].items[i] = ObjectAt(n, i)
  BY <1>1, <1>4 DEF Edited, ObjectAt
<1>5. ASSUME NEW t \in toasts, t.kind = "delete", NEW i \in t.ids
      PROVE  /\ t.at # currentList \/ i \notin S
             /\ heap'[t.at].items[i].hidden /\ heap'[t.at].items[i].there
  <2>1. t.at \in DOMAIN heap /\ i \in ItemsOf(heap[t.at].list)
    BY DEF TypeInv, WaitingInv, ToastShape
  <2>2. ObjectAt(t.at, i).hidden /\ ObjectAt(t.at, i).there
    BY <1>5 DEF HiddenInv, ToastHides
  <2>3. t.at # currentList \/ i \notin S  BY <1>3, <2>2
  <2> QED  BY <1>4, <2>1, <2>2, <2>3
<1>6. ToastHides'
  <2> SUFFICES ASSUME NEW t \in toasts', t.kind = "delete", NEW i \in t.ids
               PROVE  heap'[t.at].items[i].hidden /\ heap'[t.at].items[i].there
    BY DEF ToastHides, ObjectAt
  <2>1. CASE t = toast  BY <1>1, <1>3, <2>1
  <2>2. CASE t # toast  BY <1>1, <1>5, <2>2
  <2> QED  BY <2>1, <2>2
<1>7. ToastDeletes'
  <2> SUFFICES ASSUME NEW t \in toasts', NEW u \in toasts', NEW i \in Items,
                      Deletes(t, t.at, i), Deletes(u, t.at, i)
               PROVE  t = u
    BY DEF ToastDeletes, Deletes
  <2>1. CASE t \in toasts /\ u \in toasts  BY <2>1 DEF HiddenInv, ToastDeletes
  <2>2. ASSUME NEW v \in toasts, Deletes(v, currentList, i) PROVE i \notin S
    BY <1>5, <2>2 DEF Deletes
  <2>3. t.at = u.at  BY DEF Deletes
  <2>4. CASE t = toast /\ u # toast  BY <1>1, <2>2, <2>4 DEF Deletes
  <2>5. CASE t # toast /\ u = toast  BY <1>1, <2>2, <2>3, <2>5 DEF Deletes
  <2> QED  BY <1>1, <2>1, <2>4, <2>5
<1>8. ASSUME NEW r \in requests'
      PROVE  \E q \in requests : From(r, q)
  BY <1>2, MarkedLike DEF Like
<1>9. ASSUME NEW q \in requests, q.kind = "delete"
      PROVE  /\ heap'[q.at].items[q.item].hidden
             /\ \A t \in toasts' : ~Deletes(t, q.at, q.item)
  <2>1. q.at \in DOMAIN heap /\ q.item \in ItemsOf(heap[q.at].list)
    BY <1>9, RequestItems
  <2>2. ObjectAt(q.at, q.item).hidden /\ \A t \in toasts : ~Deletes(t, q.at, q.item)
    BY <1>9 DEF HiddenInv, RequestHides
  <2>3. q.at # currentList \/ q.item \notin S  BY <1>3, <2>2
  <2>4. ~Deletes(toast, q.at, q.item)  BY <1>1, <2>3 DEF Deletes
  <2>5. heap'[q.at].items[q.item].hidden  BY <1>4, <2>1, <2>2, <2>3
  <2> QED  BY <1>1, <2>2, <2>4, <2>5
<1>10. RequestHides' /\ RequestDeletes'
  <2>1. ASSUME NEW r \in requests', r.kind = "delete"
        PROVE  \E q \in requests : From(r, q) /\ q.kind = "delete" /\ q.at = r.at
                                   /\ q.item = r.item
    <3>1. PICK q \in requests : From(r, q)  BY <1>8
    <3>2. q.kind = "delete" /\ q.item = r.item  BY <2>1, <3>1 DEF From
    <3>3. r.at = q.at  BY <3>1, <3>2, RequestItems DEF From
    <3> QED  BY <3>1, <3>2, <3>3
  <2>2. RequestHides'
    <3> SUFFICES ASSUME NEW r \in requests', r.kind = "delete"
                 PROVE  /\ heap'[r.at].items[r.item].hidden
                        /\ \A t \in toasts' : ~Deletes(t, r.at, r.item)
      BY DEF RequestHides, ObjectAt, Deletes
    <3> QED  BY <1>9, <2>1
  <2>3. RequestDeletes'
    <3> SUFFICES ASSUME NEW r \in requests', NEW s \in requests', r.kind = "delete",
                        s.kind = "delete", r.at = s.at, r.item = s.item
                 PROVE  r = s
      BY DEF RequestDeletes
    <3>1. PICK q \in requests : From(r, q) /\ q.kind = "delete" /\ q.at = r.at
                                /\ q.item = r.item
      BY <2>1
    <3>2. PICK p \in requests : From(s, p) /\ p.kind = "delete" /\ p.at = s.at
                                /\ p.item = s.item
      BY <2>1
    <3>3. q = p  BY <3>1, <3>2 DEF HiddenInv, RequestDeletes
    <3>4. r.id = s.id  BY <3>1, <3>2, <3>3 DEF From
    <3> QED  BY <3>4 DEF KeyInv
  <2> QED  BY <2>2, <2>3
<1>11. ToggleSeen'
  <2> SUFFICES ASSUME NEW p \in pendingToggles'
               PROVE  heap'[p.at].items[p.item].there /\ ~heap'[p.at].items[p.item].hidden
    BY DEF ToggleSeen, ObjectAt
  <2>1. p \in pendingToggles /\ (p.at # currentList \/ p.item \notin S)
    BY <1>2 DEF Without
  <2>2. p.at \in DOMAIN heap /\ p.item \in ItemsOf(heap[p.at].list)
    BY <2>1 DEF TypeInv, WaitingInv, ToggleShape
  <2>3. ObjectAt(p.at, p.item).there /\ ~ObjectAt(p.at, p.item).hidden
    BY <2>1 DEF HiddenInv, ToggleSeen
  <2> QED  BY <1>4, <2>1, <2>2, <2>3
<1> QED  BY <1>6, <1>7, <1>10, <1>11 DEF HiddenInv

\* What a toast deleted stays hidden by the requests it makes.
LEMMA HiddenCommit ==
    ASSUME TypeInv, HiddenInv, KeyInv', NEW t \in toasts, t.kind = "delete", Commit(t)
    PROVE  HiddenInv'
<1>1. /\ toasts' = toasts \ {t} /\ pendingToggles' = pendingToggles
      /\ requests' = NotAlone(requests) \cup Sent(t)
  BY CommitSends DEF Commit, Closed
<1>2. /\ t.at \in DOMAIN heap /\ Owned(t) \subseteq ItemsOf(heap[t.at].list)
      /\ Edited(t.at, Owned(t))
      /\ \A i \in Owned(t) : heap'[t.at].items[i].hidden = ObjectAt(t.at, i).hidden
  BY CommitKeeps
<1>3. Owned(t) = t.ids /\ t.ids \subseteq Items  BY OwnedItems DEF Owned
<1>4. ASSUME NEW n \in DOMAIN heap, NEW i \in ItemsOf(heap[n].list)
      PROVE  /\ heap'[n].items[i].hidden = ObjectAt(n, i).hidden
             /\ ~Deletes(t, n, i) => heap'[n].items[i] = ObjectAt(n, i)
  BY <1>2, <1>3, <1>4 DEF Edited, ObjectAt, Deletes
<1>5. ToastHides'
  <2> SUFFICES ASSUME NEW u \in toasts', u.kind = "delete", NEW i \in u.ids
               PROVE  heap'[u.at].items[i].hidden /\ heap'[u.at].items[i].there
    BY DEF ToastHides, ObjectAt
  <2>1. u \in toasts /\ u # t  BY <1>1
  <2>2. u.at \in DOMAIN heap /\ i \in ItemsOf(heap[u.at].list) /\ i \in Items
    BY <2>1 DEF TypeInv, WaitingInv, ToastShape, Toast
  <2>3. ObjectAt(u.at, i).hidden /\ ObjectAt(u.at, i).there
    BY <2>1 DEF HiddenInv, ToastHides
  <2>4. ~Deletes(t, u.at, i)
    BY <2>1, <2>2 DEF HiddenInv, ToastDeletes, Deletes
  <2> QED  BY <1>4, <2>2, <2>3, <2>4
<1>6. ToastDeletes'  BY <1>1 DEF HiddenInv, ToastDeletes, Deletes
<1>7. ASSUME NEW r \in requests', r.kind = "delete"
      PROVE  \/ \E q \in requests : From(r, q) /\ q.kind = "delete" /\ q.at = r.at
                                    /\ q.item = r.item
             \/ r.id = t.id /\ r.at = t.at /\ r.item \in t.ids
  <2>1. CASE r \in Sent(t)  BY <1>3, <2>1, SentRequests
  <2>2. CASE r \notin Sent(t)
    <3>1. PICK q \in requests : Like(r, q)  BY <1>1, <2>2, MarkedLike
    <3> QED  BY <1>7, <3>1 DEF Like, From
  <2> QED  BY <2>1, <2>2
<1>8. RequestHides'
  <2> SUFFICES ASSUME NEW r \in requests', r.kind = "delete"
               PROVE  /\ heap'[r.at].items[r.item].hidden
                      /\ \A u \in toasts' : ~Deletes(u, r.at, r.item)
    BY DEF RequestHides, ObjectAt, Deletes
  <2>1. CASE \E q \in requests : q.kind = "delete" /\ q.at = r.at /\ q.item = r.item
    <3>1. PICK q \in requests : q.kind = "delete" /\ q.at = r.at /\ q.item = r.item
      BY <2>1
    <3>2. r.at \in DOMAIN heap /\ r.item \in ItemsOf(heap[r.at].list)
      BY <3>1, RequestItems
    <3>3. ObjectAt(r.at, r.item).hidden /\ \A u \in toasts : ~Deletes(u, r.at, r.item)
      BY <3>1 DEF HiddenInv, RequestHides
    <3> QED  BY <1>1, <1>4, <3>2, <3>3
  <2>2. CASE r.at = t.at /\ r.item \in t.ids
    <3>1. ObjectAt(t.at, r.item).hidden  BY <2>2 DEF HiddenInv, ToastHides
    <3>2. heap'[r.at].items[r.item].hidden  BY <1>2, <1>3, <2>2, <3>1
    <3>3. \A u \in toasts' : ~Deletes(u, r.at, r.item)
      BY <1>1, <1>3, <2>2 DEF HiddenInv, ToastDeletes, Deletes
    <3> QED  BY <3>2, <3>3
  <2> QED  BY <1>7, <2>1, <2>2
<1>9. RequestDeletes'
  <2> SUFFICES ASSUME NEW r \in requests', NEW s \in requests', r.kind = "delete",
                      s.kind = "delete", r.at = s.at, r.item = s.item
               PROVE  r.id = s.id
    BY DEF RequestDeletes, KeyInv
  <2>1. ASSUME NEW q \in requests, q.kind = "delete" PROVE ~(q.at = t.at /\ q.item \in t.ids)
    BY <2>1 DEF HiddenInv, RequestHides, Deletes
  <2>2. CASE \E q, p \in requests : /\ From(r, q) /\ q.kind = "delete" /\ q.at = r.at
                                    /\ q.item = r.item
                                    /\ From(s, p) /\ p.kind = "delete" /\ p.at = s.at
                                    /\ p.item = s.item
    BY <2>2 DEF HiddenInv, RequestDeletes, From
  <2> QED  BY <1>7, <2>1, <2>2
<1>10. ToggleSeen'
  <2> SUFFICES ASSUME NEW p \in pendingToggles
               PROVE  heap'[p.at].items[p.item].there /\ ~heap'[p.at].items[p.item].hidden
    BY <1>1 DEF ToggleSeen, ObjectAt
  <2>1. p.at \in DOMAIN heap /\ p.item \in ItemsOf(heap[p.at].list)
    BY DEF TypeInv, WaitingInv, ToggleShape
  <2>2. ObjectAt(p.at, p.item).there /\ ~ObjectAt(p.at, p.item).hidden
    BY DEF HiddenInv, ToggleSeen
  <2>3. ~Deletes(t, p.at, p.item)  BY <2>2 DEF HiddenInv, ToastHides, Deletes
  <2> QED  BY <1>4, <2>1, <2>2, <2>3
<1> QED  BY <1>5, <1>6, <1>8, <1>9, <1>10 DEF HiddenInv

\* A step that changes no toast and no pending toggle, and makes no deletion.
LEMMA HiddenSame ==
    ASSUME TypeInv, HiddenInv, KeyInv', NEW at, NEW ids, Edited(at, ids),
           toasts' \subseteq toasts, pendingToggles' \subseteq pendingToggles,
           \A r \in requests' : r.kind = "delete" => \E q \in requests : From(r, q),
           \A i \in ids : Keeps(at, i) \/ Free(at, i)
    PROVE  HiddenInv'
BY HiddenKept

\* The deletions of the next state go on, but for those a toast makes.
LEMMA DeletionsNext ==
    ASSUME KnownInv, [Next]_vars, \A t \in toasts : t.kind = "delete" => ~Commit(t)
    PROVE  \A r \in requests' : r.kind = "delete" => \E q \in requests : From(r, q)
<1>0. TypeInv /\ \A q \in requests : From(q, q)  BY DEF KnownInv, From
<1>1. ASSUME NEW R \in SUBSET requests, NEW N, requests' = NotAlone(R) \cup N,
             \A n \in N : n.kind # "delete"
      PROVE  \A r \in requests' : r.kind = "delete" => \E q \in requests : From(r, q)
  BY <1>0, <1>1, MarkedFrom
<1>2. CASE requests' = NotAlone(requests)
  <2>1. PICK N : N = {}  OBVIOUS
  <2>2. requests' = NotAlone(requests) \cup N /\ \A n \in N : FALSE  BY <1>2, <2>1
  <2>3. requests \in SUBSET requests  OBVIOUS
  <2> QED  BY <1>1, <2>2, <2>3
<1>3. ASSUME NEW R \in SUBSET requests, NEW n, n.kind # "delete",
             requests' = NotAlone(R) \cup {n}
      PROVE  \A r \in requests' : r.kind = "delete" => \E q \in requests : From(r, q)
  <2>1. PICK N : N = {n}  OBVIOUS
  <2>2. requests' = NotAlone(R) \cup N /\ \A m \in N : m.kind # "delete"  BY <1>3, <2>1
  <2> QED  BY <1>1, <2>2
<1>4. CASE requests' = requests \/ \E r \in requests : requests' = requests \ {r}
  BY <1>0, <1>4
<1>5. ASSUME NEW t \in toasts, Commit(t)
      PROVE  \A r \in requests' : r.kind = "delete" => \E q \in requests : From(r, q)
  <2>1. requests' = NotAlone(requests) \cup Sent(t)  BY <1>5, CommitSends
  <2>2. t.kind # "delete"  BY <1>5
  <2>3. \A n \in Sent(t) : n.kind # "delete"  BY <2>2, SentRequests
  <2>4. requests \in SUBSET requests  OBVIOUS
  <2> QED  BY <1>1, <2>1, <2>3, <2>4
<1>6. ASSUME NEW i, NEW quantity, ChangeQuantity(i, quantity)
      PROVE  \A r \in requests' : r.kind = "delete" => \E q \in requests : From(r, q)
  <2>1. PICK before : requests' = NotAlone(requests) \cup
          {Request(seq + 1, "quantity", currentList, ListOf[i], i, quantity, before)}
    BY <1>6 DEF ChangeQuantity
  <2>2. PICK n : n = Request(seq + 1, "quantity", currentList, ListOf[i], i, quantity, before)
    OBVIOUS
  <2>3. n.kind # "delete"  BY <2>2 DEF Request
  <2>4. requests' = NotAlone(requests) \cup {n}  BY <2>1, <2>2
  <2>5. requests \in SUBSET requests  OBVIOUS
  <2> QED  BY <1>3, <2>3, <2>4, <2>5
<1>7. CASE Refresh \/ \E l \in Lists : SelectList(l)
  <2>1. ASSUME NEW kind, NEW l, NEW at, NEW pc, kind # "delete",
               Start(Load(kind, l, at, pc, Alone))
        PROVE  \A r \in requests' : r.kind = "delete" => \E q \in requests : From(r, q)
    <3>1. PICK n : n = Load(kind, l, at, pc, Alone)  OBVIOUS
    <3>2. n.kind # "delete"  BY <2>1, <3>1 DEF Load
    <3>3. requests' = NotAlone(requests) \cup {n}  BY <2>1, <3>1 DEF Start
    <3>4. requests \in SUBSET requests  OBVIOUS
    <3> QED  BY <1>3, <3>2, <3>3, <3>4
  <2>2. CASE Refresh  BY <2>1, <2>2 DEF Refresh
  <2>3. CASE \E l \in Lists : SelectList(l)  BY <2>1, <2>3 DEF SelectList
  <2> QED  BY <1>7, <2>2, <2>3
<1>8. ASSUME NEW r \in requests, Paint(r) \/ Serve(r) \/ Fail(r)
      PROVE  \A s \in requests' : \E q \in requests : From(s, q)
  <2>1. \E s : From(s, r) /\ requests' = (requests \ {r}) \cup {s}
    BY <1>0, <1>8, PaintGoesOn, LoadServed, ItemServed, FailGoesOn
  <2> QED  BY <1>0, <2>1
<1>9. ASSUME NEW r \in requests, Settles(r)
      PROVE  \A s \in requests' : s.kind = "delete" => \E q \in requests : From(s, q)
  <2>1. CASE requests' = requests \ {r}  BY <1>4, <2>1
  <2>2. CASE DeleteSettles(r)
    <3>1. ASSUME NEW q, q = Load("refresh", currentListId, currentList, "sent",
                                 requests = {r} /\ toasts = {}),
                 requests' = NotAlone(requests \ {r}) \cup {q}
          PROVE  \A s \in requests' : s.kind = "delete" => \E p \in requests : From(s, p)
      <4>1. q.kind # "delete"  BY <3>1 DEF Load
      <4>2. requests \ {r} \in SUBSET requests  OBVIOUS
      <4>3. requests' = NotAlone(requests \ {r}) \cup {q}  BY <3>1
      <4> QED  BY <1>3, <4>1, <4>2, <4>3
    <3> QED  BY <1>0, <2>1, <2>2, <3>1, DeleteLoads
  <2>3. CASE ~DeleteSettles(r)
    <3>1. requests' = requests \ {r}
      BY <1>9, <2>3 DEF Settles, ToggleSettles, QuantitySettles, OpenSettles, RefreshSettles
    <3> QED  BY <2>1, <3>1
  <2> QED  BY <2>2, <2>3
<1>10. CASE (\E i \in Items : Toggle({i}, FALSE) \/ Remove({i}, FALSE))
            \/ (\E S \in Selections : Toggle(S, TRUE) \/ Remove(S, TRUE)) \/ OtherDevice
  BY <1>2, <1>10 DEF Toggle, Remove, OtherDevice
<1>11. CASE ShowDashboard \/ (\E t \in toasts : Undo(t)) \/ UNCHANGED vars
  BY <1>4, <1>11 DEF ShowDashboard, Undo, vars
<1> QED  BY <1>5, <1>6, <1>7, <1>8, <1>9, <1>10, <1>11 DEF Next

\* The steps that leave every object, and the toasts and toggles that wait.
LEMMA HiddenLeft ==
    ASSUME TypeInv, HiddenInv, KeyInv', heap' = heap, toasts' \subseteq toasts,
           pendingToggles' \subseteq pendingToggles,
           \A r \in requests' : r.kind = "delete" => \E q \in requests : From(r, q)
    PROVE  HiddenInv'
<1>1. Edited(0, {})  BY NothingEdited
<1>2. PICK ids : ids = {}  OBVIOUS
<1>3. Edited(0, ids) /\ \A i \in ids : Keeps(0, i) \/ Free(0, i)  BY <1>1, <1>2
<1> QED  BY <1>3, HiddenSame

\* Every step keeps an object hidden by one deletion, and away from what waits.
LEMMA HiddenNext ==
    ASSUME KnownInv, KeyInv, HiddenInv, KeyInv', [Next]_vars
    PROVE  HiddenInv'
<1>0. TypeInv /\ PageInv  BY DEF KnownInv, TypeInv
<1>1. CASE \E t \in toasts : t.kind = "delete" /\ Commit(t)  BY <1>0, <1>1, HiddenCommit
<1>2. CASE \A t \in toasts : t.kind = "delete" => ~Commit(t)
  <2>0. \A r \in requests' : r.kind = "delete" => \E q \in requests : From(r, q)
    BY <1>2, DeletionsNext
  <2>1. ASSUME NEW S \in SUBSET Items, NEW bulk \in BOOLEAN, Toggle(S, bulk) PROVE HiddenInv'
    <3>1. PICK value \in BOOLEAN : \E before, toast :
        /\ \A i \in S : Shown(i).there /\ ~Shown(i).hidden
        /\ Edited(currentList, S)
        /\ \A i \in S : Looks(heap'[currentList].items[i], value, Shown(i).quantity,
                              Shown(i).there, Shown(i).hidden)
        /\ toast.kind = "done"
        /\ toasts' \subseteq toasts \cup {toast}
        /\ toast.ids \subseteq S
        /\ pendingToggles' = Without(pendingToggles, currentList, S) \cup
             {[at |-> currentList, item |-> i, toast |-> seq + 1, before |-> before[i]] :
                 i \in toast.ids}
      BY <1>0, <2>1, ToggleMarks
    <3>2. PICK before, toast :
        /\ \A i \in S : Shown(i).there /\ ~Shown(i).hidden
        /\ Edited(currentList, S)
        /\ \A i \in S : Looks(heap'[currentList].items[i], value, Shown(i).quantity,
                              Shown(i).there, Shown(i).hidden)
        /\ toast.kind = "done"
        /\ toasts' \subseteq toasts \cup {toast}
        /\ toast.ids \subseteq S
        /\ pendingToggles' = Without(pendingToggles, currentList, S) \cup
             {[at |-> currentList, item |-> i, toast |-> seq + 1, before |-> before[i]] :
                 i \in toast.ids}
      BY <3>1
    <3>3. \A t \in toasts' : t.kind = "delete" => t \in toasts  BY <3>2
    <3>4. \A i \in S : Keeps(currentList, i)
      BY <3>2 DEF Looks, Keeps, Shown, ObjectAt
    <3>5. ASSUME NEW p \in pendingToggles'
          PROVE  p \in pendingToggles \/
                 (heap'[p.at].items[p.item].there /\ ~heap'[p.at].items[p.item].hidden)
      <4>1. CASE p \in Without(pendingToggles, currentList, S)  BY <4>1 DEF Without
      <4>2. CASE p \notin Without(pendingToggles, currentList, S)
        <5>1. PICK i \in toast.ids : p = [at |-> currentList, item |-> i, toast |-> seq + 1,
                                          before |-> before[i]]
          BY <3>2, <4>2
        <5>2. p.at = currentList /\ p.item = i /\ i \in S  BY <3>2, <5>1
        <5> QED  BY <3>2, <5>2 DEF Looks
      <4> QED  BY <4>1, <4>2
    <3>6. Edited(currentList, S)  BY <3>2
    <3> QED  BY <1>0, <2>0, <3>3, <3>4, <3>5, <3>6, HiddenKept
  <2>2. ASSUME NEW S \in SUBSET Items, NEW bulk \in BOOLEAN, Remove(S, bulk) PROVE HiddenInv'
    BY <1>0, <2>2, HiddenRemove
  <2>3. ASSUME NEW i \in Items, NEW quantity \in 1 .. MaxQuantity, ChangeQuantity(i, quantity)
        PROVE  HiddenInv'
    <3>1. toasts' = toasts /\ pendingToggles' = pendingToggles  BY <2>3 DEF ChangeQuantity
    <3>2. Edited(currentList, {i}) /\ Keeps(currentList, i)
      BY <1>0, <2>3, QuantityShows DEF Keeps, Looks, Shown, ObjectAt
    <3>3. PICK ids : ids = {i}  OBVIOUS
    <3>4. Edited(currentList, ids) /\ \A j \in ids : Keeps(currentList, j)  BY <3>2, <3>3
    <3> QED  BY <1>0, <2>0, <3>1, <3>4, HiddenSame
  <2>4. ASSUME NEW t \in toasts, Undo(t) PROVE HiddenInv'
    <3>1. /\ toasts' = toasts \ {t} /\ pendingToggles' \subseteq pendingToggles
          /\ requests' = requests
          /\ t.kind = "delete" => pendingToggles' = pendingToggles
      BY <2>4 DEF Undo, Closed, Without
    <3>2. Edited(t.at, Owned(t))  BY <1>0, <2>4, UndoRestores
    <3>3. ASSUME NEW i \in Owned(t) PROVE Keeps(t.at, i) \/ Free(t.at, i)
      <4>1. CASE t.kind # "delete"
        <5>1. Keeps(t.at, i)  BY <1>0, <2>4, <4>1, UndoRestores DEF Looks, Keeps
        <5> QED  BY <5>1
      <4>2. CASE t.kind = "delete"
        <5>1. Deletes(t, t.at, i) /\ i \in Items  BY <1>0, <4>2, OwnedItems DEF Deletes
        <5>2. \A u \in toasts' : ~Deletes(u, t.at, i)
          BY <3>1, <5>1 DEF HiddenInv, ToastDeletes, Deletes
        <5>3. \A r \in requests' : ~(r.kind = "delete" /\ r.at = t.at /\ r.item = i)
          BY <3>1, <5>1 DEF HiddenInv, RequestHides
        <5>4. ObjectAt(t.at, i).hidden  BY <5>1 DEF HiddenInv, ToastHides, Deletes
        <5>5. \A p \in pendingToggles' : ~(p.at = t.at /\ p.item = i)
          BY <3>1, <5>4 DEF HiddenInv, ToggleSeen
        <5> QED  BY <5>2, <5>3, <5>5 DEF Free
      <4> QED  BY <4>1, <4>2
    <3>4. toasts' \subseteq toasts  BY <3>1
    <3> QED  BY <1>0, <2>0, <3>1, <3>2, <3>3, <3>4, HiddenSame
  <2>5. ASSUME NEW t \in toasts, Commit(t) PROVE HiddenInv'
    <3>1. t.kind = "done"
      BY <1>0, <1>2, <2>5 DEF TypeInv, WaitingInv, ToastShape, Toast
    <3>2. heap' = heap  BY <1>0, <2>5, <3>1, CommitKeeps
    <3>3. toasts' \subseteq toasts /\ pendingToggles' \subseteq pendingToggles
      BY <2>5 DEF Commit, Closed, Without
    <3> QED  BY <1>0, <2>0, <3>2, <3>3, HiddenLeft
  <2>6. CASE \/ (\E l \in Lists : SelectList(l)) \/ Refresh \/ ShowDashboard \/ OtherDevice
             \/ (\E r \in requests : Serve(r) \/ Fail(r)) \/ UNCHANGED vars
    <3>1. UNCHANGED <<heap, toasts, pendingToggles>>
      BY <2>6 DEF SelectList, Refresh, ShowDashboard, OtherDevice, Serve, Fail, vars, page,
         pendings
    <3> QED  BY <1>0, <2>0, <3>1, HiddenLeft
  <2>7. ASSUME NEW r \in requests, Paint(r) \/ OpenSettles(r) \/ RefreshSettles(r)
        PROVE  HiddenInv'
    <3>1. toasts' = toasts /\ pendingToggles' = pendingToggles  BY <1>0, <2>7, LoadCases
    <3>2. PICK ids : ids = {}  OBVIOUS
    <3>3. CASE heap' = heap  BY <1>0, <2>0, <3>1, <3>3, HiddenLeft
    <3>4. ASSUME NEW l \in Lists, NEW rows \in [ItemsOf(l) -> Row], Draws(l, rows)
          PROVE  HiddenInv'
      <4>1. Edited(0, ids) /\ \A i \in ids : Keeps(0, i) \/ Free(0, i)
        BY <1>0, <3>2, <3>4, DrawnNew
      <4> QED  BY <1>0, <2>0, <3>1, <4>1, HiddenSame
    <3>5. CASE \E l \in Lists : mirror[l] # None /\ Draws(l, mirror[l])
      BY <1>0, <3>4, <3>5, DrawnRows
    <3>6. CASE r.item = None /\ r.list \in Lists /\ r.pc = "answered" /\ Draws(r.list, r.answer)
      BY <1>0, <3>4, <3>6, DrawnRows
    <3> QED  BY <1>0, <2>7, <3>3, <3>5, <3>6, LoadCases
  <2>8. ASSUME NEW r \in requests, Edited(r.at, {r.item}), Keeps(r.at, r.item),
               UNCHANGED <<toasts, pendingToggles>>
        PROVE  HiddenInv'
    <3>1. PICK ids : ids = {r.item}  OBVIOUS
    <3>2. Edited(r.at, ids) /\ \A i \in ids : Keeps(r.at, i)  BY <2>8, <3>1
    <3> QED  BY <1>0, <2>0, <2>8, <3>2, HiddenSame
  <2>9. ASSUME NEW r \in requests, ToggleSettles(r) PROVE HiddenInv'
    <3>1. UNCHANGED <<toasts, pendingToggles>>  BY <2>9 DEF ToggleSettles, pendings
    <3>2. Edited(r.at, {r.item}) /\ Keeps(r.at, r.item)
      BY <1>0, <2>9, ToggleAnswered DEF Keeps, Looks
    <3> QED  BY <2>8, <3>1, <3>2
  <2>10. ASSUME NEW r \in requests, QuantitySettles(r) PROVE HiddenInv'
    <3>1. UNCHANGED <<toasts, pendingToggles>>  BY <2>10 DEF QuantitySettles
    <3>2. CASE \E m \in pendingQuantityUpdates : m.request = r.id
      <4>1. Edited(r.at, {r.item}) /\ Keeps(r.at, r.item)
        BY <1>0, <2>10, <3>2, QuantityAnswered DEF Keeps, Looks
      <4> QED  BY <2>8, <3>1, <4>1
    <3>3. CASE ~\E m \in pendingQuantityUpdates : m.request = r.id
      <4>1. heap' = heap  BY <2>10, <3>3 DEF QuantitySettles
      <4> QED  BY <1>0, <2>0, <3>1, <4>1, HiddenLeft
    <3> QED  BY <3>2, <3>3
  <2>11. ASSUME NEW r \in requests, DeleteSettles(r) PROVE HiddenInv'
    <3>1. UNCHANGED <<toasts, pendingToggles>> /\ r.kind = "delete"
      BY <2>11 DEF DeleteSettles, pendings
    <3>2. Edited(r.at, {r.item})  BY <1>0, <2>11, DeleteAnswered
    <3>3. ObjectAt(r.at, r.item).hidden /\ \A t \in toasts' : ~Deletes(t, r.at, r.item)
      BY <3>1 DEF HiddenInv, RequestHides
    <3>4. \A p \in pendingToggles' : ~(p.at = r.at /\ p.item = r.item)
      BY <3>1, <3>3 DEF HiddenInv, ToggleSeen
    <3>5. ASSUME NEW s \in requests', s.kind = "delete", s.at = r.at, s.item = r.item
          PROVE  FALSE
      <4>1. \E q \in requests \ {r} : From(s, q)
        <5>1. CASE requests' = requests \ {r}  BY <5>1 DEF From
        <5>2. ASSUME NEW q, q = Load("refresh", currentListId, currentList, "sent",
                                 requests = {r} /\ toasts = {}),
                     requests' = NotAlone(requests \ {r}) \cup {q}
              PROVE  \E p \in requests \ {r} : From(s, p)
          <6>1. s # q  BY <3>5, <5>2 DEF Load
          <6>2. s \in NotAlone(requests \ {r})  BY <5>2, <6>1
          <6>3. requests \ {r} \in SUBSET requests  OBVIOUS
          <6> QED  BY <1>0, <6>2, <6>3, MarkedLike DEF Like
        <5> QED  BY <1>0, <2>11, <5>1, <5>2, DeleteLoads
      <4>2. PICK q \in requests \ {r} : From(s, q)  BY <4>1
      <4>3. q.kind = "delete" /\ q.item = r.item  BY <3>5, <4>2 DEF From
      <4>4. q.at = r.at  BY <1>0, <3>5, <4>2, <4>3, RequestItems DEF From
      <4> QED  BY <3>1, <4>2, <4>3, <4>4 DEF HiddenInv, RequestDeletes
    <3>6. PICK ids : ids = {r.item}  OBVIOUS
    <3>7. Edited(r.at, ids) /\ \A i \in ids : Free(r.at, i)
      BY <3>2, <3>3, <3>4, <3>5, <3>6 DEF Free
    <3> QED  BY <1>0, <2>0, <3>1, <3>7, HiddenSame
  <2>12. CASE \E i \in Items : Toggle({i}, FALSE) \/ Remove({i}, FALSE)
    BY <2>1, <2>2, <2>12
  <2>13. CASE \E S \in Selections : Toggle(S, TRUE) \/ Remove(S, TRUE)
    BY <2>1, <2>2, <2>13, ListPageAssumption
  <2> QED  BY <2>3, <2>4, <2>5, <2>6, <2>7, <2>9, <2>10, <2>11, <2>12, <2>13 DEF Next, Settles
<1> QED  BY <1>1, <1>2

-----------------------------------------------------------------------------
(* What is marked *)

\* A toggle that waits shows the opposite of what it puts back.
LEMMA OppositeNext ==
    ASSUME KnownInv, AloneInv, OppositeInv, [Next]_vars
    PROVE  OppositeInv'
<1>0. TypeInv /\ PageInv  BY DEF KnownInv, TypeInv
<1> SUFFICES ASSUME NEW p \in pendingToggles', p.item \notin astray'
             PROVE  heap'[p.at].items[p.item].done = ~p.before
  BY DEF OppositeInv, ObjectAt
<1> DEFINE Goal == heap'[p.at].items[p.item].done = ~p.before
<1>1. ASSUME p \in pendingToggles, astray \subseteq astray',
             heap'[p.at].items[p.item].done = ObjectAt(p.at, p.item).done
      PROVE  Goal
  BY <1>1 DEF OppositeInv
<1>2. ASSUME p \in pendingToggles, NEW at, NEW ids, Edited(at, ids),
             ~(p.at = at /\ p.item \in ids)
      PROVE  heap'[p.at].items[p.item].done = ObjectAt(p.at, p.item).done
  BY <1>0, <1>2 DEF Edited, TypeInv, WaitingInv, ToggleShape, ObjectAt
<1>3. ASSUME NEW S \in SUBSET Items, NEW bulk \in BOOLEAN, Toggle(S, bulk) PROVE Goal
  <2>1. PICK value \in BOOLEAN : \E before, toast :
        /\ currentList \in DOMAIN heap /\ S \subseteq ItemsOf(heap[currentList].list)
        /\ \A i \in S :
             /\ Shown(i).there /\ ~Shown(i).hidden /\ before[i] \in BOOLEAN
             /\ Pending(currentList, i) = {} => before[i] = Shown(i).done
             /\ Pending(currentList, i) # {} =>
                    \E q \in Pending(currentList, i) : before[i] = q.before
        /\ Edited(currentList, S)
        /\ \A i \in S : Looks(heap'[currentList].items[i], value, Shown(i).quantity,
                              Shown(i).there, Shown(i).hidden)
        /\ toast.id = seq + 1 /\ toast.kind = "done" /\ toast.at = currentList
        /\ toast.list = currentListId /\ toast.ids = {i \in S : before[i] # value}
        /\ toasts' \subseteq toasts \cup {toast}
        /\ \A t \in toasts \ toasts' : t \in Superseded(S)
        /\ pendingToggles' = Without(pendingToggles, currentList, S) \cup
             {[at |-> currentList, item |-> i, toast |-> seq + 1, before |-> before[i]] :
                 i \in toast.ids}
    BY <1>0, <1>3, ToggleMarks
  <2>2. PICK before, toast :
        /\ \A i \in S : before[i] \in BOOLEAN
        /\ Edited(currentList, S)
        /\ \A i \in S : Looks(heap'[currentList].items[i], value, Shown(i).quantity,
                              Shown(i).there, Shown(i).hidden)
        /\ toast.ids = {i \in S : before[i] # value}
        /\ pendingToggles' = Without(pendingToggles, currentList, S) \cup
             {[at |-> currentList, item |-> i, toast |-> seq + 1, before |-> before[i]] :
                 i \in toast.ids}
    BY <2>1
  <2>3. astray' = astray  BY <1>3 DEF Toggle
  <2>4. CASE p \in Without(pendingToggles, currentList, S)
    <3>1. p \in pendingToggles /\ ~(p.at = currentList /\ p.item \in S)
      BY <2>4 DEF Without
    <3>2. Edited(currentList, S)  BY <2>2
    <3> QED  BY <1>1, <1>2, <2>3, <3>1, <3>2
  <2>5. CASE p \notin Without(pendingToggles, currentList, S)
    <3>1. PICK i \in toast.ids : p = [at |-> currentList, item |-> i, toast |-> seq + 1,
                                      before |-> before[i]]
      BY <2>2, <2>5
    <3>2. p.at = currentList /\ p.item = i /\ p.before = before[i]  BY <3>1
    <3>3. i \in S /\ before[i] # value /\ before[i] \in BOOLEAN  BY <2>2, <3>1
    <3>4. heap'[currentList].items[i].done = value  BY <2>2, <3>3 DEF Looks
    <3>5. value = ~before[i]  BY <3>3
    <3> QED  BY <3>2, <3>4, <3>5
  <2> QED  BY <2>4, <2>5
<1>4. ASSUME NEW S \in SUBSET Items, NEW bulk \in BOOLEAN, Remove(S, bulk) PROVE Goal
  <2>1. Edited(currentList, S)  BY <1>0, <1>4, RemoveHides
  <2>2. pendingToggles' = Without(pendingToggles, currentList, S) /\ astray' = astray
    BY <1>4 DEF Remove
  <2>3. p \in pendingToggles /\ ~(p.at = currentList /\ p.item \in S)  BY <2>2 DEF Without
  <2> QED  BY <1>1, <1>2, <2>1, <2>2, <2>3
<1>5. ASSUME NEW i \in Items, NEW quantity \in 1 .. MaxQuantity, ChangeQuantity(i, quantity)
      PROVE  Goal
  <2>1. pendingToggles' = pendingToggles /\ astray \subseteq astray'
    BY <1>5 DEF ChangeQuantity
  <2>2. /\ Edited(currentList, {i})
        /\ heap'[currentList].items[i].done = ObjectAt(currentList, i).done
    BY <1>0, <1>5, QuantityShows DEF Looks, Shown, ObjectAt
  <2>3. CASE p.at = currentList /\ p.item = i  BY <1>1, <2>1, <2>2, <2>3
  <2>4. CASE ~(p.at = currentList /\ p.item = i)
    <3>1. ~(p.at = currentList /\ p.item \in {i})  BY <2>4
    <3>2. p \in pendingToggles  BY <2>1
    <3> QED  BY <1>1, <1>2, <2>1, <2>2, <3>1, <3>2
  <2> QED  BY <2>3, <2>4
<1>6. ASSUME NEW t \in toasts, Undo(t) PROVE Goal
  <2>1. /\ pendingToggles' = IF t.kind = "delete" THEN pendingToggles
                             ELSE Without(pendingToggles, t.at, Owned(t))
        /\ astray' = astray
    BY <1>6 DEF Undo
  <2>2. p \in pendingToggles  BY <2>1 DEF Without
  <2>3. Edited(t.at, Owned(t))  BY <1>0, <1>6, UndoRestores
  <2>4. CASE ~(p.at = t.at /\ p.item \in Owned(t))
    BY <1>1, <1>2, <2>1, <2>2, <2>3, <2>4
  <2>5. CASE p.at = t.at /\ p.item \in Owned(t)
    <3>1. t.kind = "delete"  BY <2>1, <2>5 DEF Without
    <3>2. heap'[t.at].items[p.item].done = ObjectAt(t.at, p.item).done
      BY <1>0, <1>6, <2>5, <3>1, UndoRestores DEF Looks
    <3> QED  BY <1>1, <2>1, <2>2, <2>5, <3>2
  <2> QED  BY <2>4, <2>5
<1>7. ASSUME NEW t \in toasts, Commit(t) PROVE Goal
  <2>1. astray \subseteq astray' /\ p \in pendingToggles  BY <1>7 DEF Commit, Without
  <2>2. /\ Edited(t.at, Owned(t))
        /\ \A i \in Owned(t) : heap'[t.at].items[i].done = ObjectAt(t.at, i).done
    BY <1>0, <1>7, CommitKeeps
  <2>3. CASE ~(p.at = t.at /\ p.item \in Owned(t))  BY <1>1, <1>2, <2>1, <2>2, <2>3
  <2>4. CASE p.at = t.at /\ p.item \in Owned(t)  BY <1>1, <2>1, <2>2, <2>4
  <2> QED  BY <2>3, <2>4
<1>8. CASE \/ (\E l \in Lists : SelectList(l)) \/ Refresh \/ ShowDashboard \/ OtherDevice
           \/ (\E r \in requests : Serve(r) \/ Fail(r)) \/ UNCHANGED vars
  <2>1. UNCHANGED <<heap, pendingToggles>> /\ astray \subseteq astray'
    BY <1>8 DEF SelectList, Refresh, ShowDashboard, OtherDevice, Serve, Fail, Start, vars, page,
       pendings
  <2> QED  BY <1>1, <2>1 DEF ObjectAt
<1>9. ASSUME NEW r \in requests, Paint(r) \/ OpenSettles(r) \/ RefreshSettles(r) PROVE Goal
  <2>1. p \in pendingToggles  BY <1>0, <1>9, LoadCases
  <2>2. toasts # {}  BY <2>1 DEF KnownInv, ToastInv, WaitsInv
  <2>3. ~r.alone  BY <2>2 DEF AloneInv
  <2>4. astray \subseteq astray'
    BY <1>0, <1>9, <2>3, LoadCases DEF Reloaded
  <2>5. CASE heap' = heap  BY <1>1, <2>1, <2>4, <2>5 DEF ObjectAt
  <2>6. ASSUME NEW l \in Lists, NEW rows \in [ItemsOf(l) -> Row], Draws(l, rows) PROVE Goal
    <3>1. Edited(0, {})  BY <1>0, <2>6, DrawnNew
    <3>2. ~(p.at = 0 /\ p.item \in {})  OBVIOUS
    <3> QED  BY <1>1, <1>2, <2>1, <2>4, <3>1, <3>2
  <2>7. CASE \E l \in Lists : mirror[l] # None /\ Draws(l, mirror[l])
    BY <1>0, <2>6, <2>7, DrawnRows
  <2>8. CASE r.item = None /\ r.list \in Lists /\ r.pc = "answered" /\ Draws(r.list, r.answer)
    BY <1>0, <2>6, <2>8, DrawnRows
  <2> QED  BY <1>0, <1>9, <2>5, <2>7, <2>8, LoadCases
<1>10. ASSUME NEW r \in requests, Edited(r.at, {r.item}), pendingToggles' = pendingToggles,
              \/ astray' = Overwritten(r)
              \/ /\ heap'[r.at].items[r.item].done = ObjectAt(r.at, r.item).done
                 /\ astray \subseteq astray'
       PROVE  Goal
  <2>1. p \in pendingToggles /\ astray \subseteq astray'  BY <1>10 DEF Overwritten
  <2>2. CASE ~(p.at = r.at /\ p.item = r.item)
    <3>1. ~(p.at = r.at /\ p.item \in {r.item})  BY <2>2
    <3> QED  BY <1>1, <1>2, <1>10, <2>1, <3>1
  <2>3. CASE p.at = r.at /\ p.item = r.item
    <3>1. p \in Pending(r.at, r.item)  BY <2>1, <2>3 DEF Pending
    <3>2. astray' # Overwritten(r)  BY <2>3, <3>1 DEF Overwritten
    <3> QED  BY <1>1, <1>10, <2>1, <2>3, <3>2
  <2> QED  BY <2>2, <2>3
<1>11. ASSUME NEW r \in requests, ToggleSettles(r) PROVE Goal
  <2>1. astray' = Overwritten(r) /\ pendingToggles' = pendingToggles
    BY <1>11 DEF ToggleSettles, pendings
  <2>2. Edited(r.at, {r.item})  BY <1>0, <1>11, ToggleAnswered
  <2> QED  BY <1>10, <2>1, <2>2
<1>12. ASSUME NEW r \in requests, QuantitySettles(r) PROVE Goal
  <2>1. pendingToggles' = pendingToggles  BY <1>12 DEF QuantitySettles
  <2>2. CASE \E m \in pendingQuantityUpdates : m.request = r.id
    <3>1. Edited(r.at, {r.item}) /\ astray' = Overwritten(r)
      BY <1>0, <1>12, <2>2, QuantityAnswered
    <3> QED  BY <1>10, <2>1, <3>1
  <2>3. CASE ~\E m \in pendingQuantityUpdates : m.request = r.id
    <3>1. heap' = heap /\ astray' = astray  BY <1>12, <2>3 DEF QuantitySettles
    <3> QED  BY <1>1, <2>1, <3>1 DEF ObjectAt
  <2> QED  BY <2>2, <2>3
<1>13. ASSUME NEW r \in requests, DeleteSettles(r) PROVE Goal
  <2>1. pendingToggles' = pendingToggles /\ astray \subseteq astray'
    BY <1>13 DEF DeleteSettles, pendings
  <2>2. /\ Edited(r.at, {r.item})
        /\ heap'[r.at].items[r.item].done = ObjectAt(r.at, r.item).done
    BY <1>0, <1>13, DeleteAnswered DEF Looks
  <2> QED  BY <1>10, <2>1, <2>2
<1>14. CASE \E i \in Items : Toggle({i}, FALSE) \/ Remove({i}, FALSE)
  BY <1>3, <1>4, <1>14
<1>15. CASE \E S \in Selections : Toggle(S, TRUE) \/ Remove(S, TRUE)
  BY <1>3, <1>4, <1>15, ListPageAssumption
<1> QED  BY <1>5, <1>6, <1>7, <1>8, <1>9, <1>11, <1>12, <1>13, <1>14, <1>15 DEF Next, Settles

-----------------------------------------------------------------------------
(* What is drawn *)

\* Item i is drawn from the server's row, in an object that nothing waits for.
Fresh(i) ==
    /\ UNCHANGED <<toasts, pendingToggles, server>>
    /\ \A t \in toasts : i \notin t.ids
    /\ \A r \in requests' : r.item # i
    /\ currentList' \notin DOMAIN heap
    /\ Looks(Shown(i)', server[i].done, server[i].quantity, server[i].there, FALSE)

\* The steps that are not of a load leave the open list where it is, or leave it.
LEMMA OpenListStays ==
    ASSUME KnownInv, [Next]_vars,
           \A r \in requests : ~(Paint(r) \/ OpenSettles(r) \/ RefreshSettles(r))
    PROVE  /\ currentList' \in {0, currentList} /\ astray \subseteq astray'
           /\ dropped \subseteq dropped'
<1>1. ASSUME NEW S, NEW bulk, Toggle(S, bulk) \/ Remove(S, bulk)
      PROVE  currentList' = currentList /\ astray \subseteq astray' /\ dropped \subseteq dropped'
  BY <1>1 DEF Toggle, Remove
<1>2. ASSUME NEW i, NEW quantity, ChangeQuantity(i, quantity)
      PROVE  currentList' = currentList /\ astray \subseteq astray' /\ dropped \subseteq dropped'
  BY <1>2 DEF ChangeQuantity
<1>3. ASSUME NEW t \in toasts, Undo(t) \/ Commit(t)
      PROVE  currentList' = currentList /\ astray \subseteq astray' /\ dropped \subseteq dropped'
  BY <1>3 DEF Undo, Commit
<1>4. CASE (\E l \in Lists : SelectList(l)) \/ Refresh \/ ShowDashboard \/ OtherDevice
           \/ UNCHANGED vars
  BY <1>4 DEF SelectList, Refresh, ShowDashboard, OtherDevice, Start, page, vars
<1>5. ASSUME NEW r \in requests, Serve(r) \/ Fail(r)
      PROVE  currentList' = currentList /\ astray \subseteq astray' /\ dropped \subseteq dropped'
  BY <1>5 DEF Serve, Fail, page
<1>6. ASSUME NEW r \in requests, ToggleSettles(r) \/ QuantitySettles(r) \/ DeleteSettles(r)
      PROVE  currentList' = currentList /\ astray \subseteq astray' /\ dropped \subseteq dropped'
  BY <1>6 DEF ToggleSettles, QuantitySettles, DeleteSettles, Overwritten
<1> QED  BY <1>1, <1>2, <1>3, <1>4, <1>5, <1>6 DEF Next, Settles

\* An item that is drawn was drawn before, or is drawn afresh.
LEMMA DrawnCases ==
    ASSUME KnownInv, AloneInv, MirrorInv, AnswerInv, CrossInv, OpenInv, [Next]_vars,
           NEW i \in Items, Drawn(i)'
    PROVE  \/ /\ currentList' = currentList /\ Drawn(i) /\ i \notin astray
              /\ i \notin dropped' => i \notin dropped
           \/ Fresh(i) /\ i \in ItemsOf(heap'[currentList'].list)
<1>0. TypeInv /\ PageInv /\ ServerInv  BY DEF KnownInv, TypeInv
<1>1. currentList' # 0 /\ i \in ItemsOf(heap'[currentList'].list) /\ i \notin astray'
  BY DEF Drawn
<1>2. ASSUME currentList' = currentList, astray \subseteq astray', dropped \subseteq dropped'
      PROVE  /\ currentList' = currentList /\ Drawn(i) /\ i \notin astray
             /\ i \notin dropped' => i \notin dropped
  <2>1. currentList \in DOMAIN heap
    BY <1>0, <1>1, <1>2, LenProperties DEF PageInv
  <2>2. heap'[currentList].list = heap[currentList].list  BY <2>1, ListsKept
  <2> QED  BY <1>1, <1>2, <2>2 DEF Drawn
<1>3. ASSUME NEW r \in requests, Paint(r) \/ OpenSettles(r) \/ RefreshSettles(r)
      PROVE  \/ /\ currentList' = currentList /\ Drawn(i) /\ i \notin astray
                /\ i \notin dropped' => i \notin dropped
             \/ Fresh(i)
  <2>1. /\ UNCHANGED <<server, mirror, toasts, pendingToggles>>
        /\ r.item = None /\ r.list \in Lists
    BY <1>0, <1>3, LoadCases
  <2>2. ASSUME NEW l \in Lists, NEW rows \in [ItemsOf(l) -> Row], Draws(l, rows),
               i \notin InToasts, \A q \in requests' : q.item # i,
               i \in ItemsOf(l) => rows[i] = server[i]
        PROVE  Fresh(i)
    <3>1. /\ currentList' \notin DOMAIN heap /\ heap'[currentList'].list = l
          /\ \A j \in ItemsOf(l) :
                Looks(Shown(j)', rows[j].done, rows[j].quantity, rows[j].there, FALSE)
      BY <1>0, <2>2, DrawnNew
    <3>2. \A t \in toasts : i \notin t.ids  BY <2>2 DEF InToasts
    <3> QED  BY <1>1, <2>1, <2>2, <3>1, <3>2 DEF Fresh
  <2>3. ASSUME NEW q \in requests', q.item = i PROVE \E p \in requests : p.item = i
    <3>1. CASE Paint(r)
      <4>1. \E s : From(s, r) /\ requests' = (requests \ {r}) \cup {s}
        BY <1>0, <3>1, PaintGoesOn
      <4> QED  BY <2>3, <4>1 DEF From
    <3>2. CASE OpenSettles(r) \/ RefreshSettles(r)
      BY <1>0, <2>3, <3>2, LoadSettles
    <3> QED  BY <1>3, <3>1, <3>2
  <2>4. CASE \E l \in Lists :
                /\ mirror[l] # None /\ Draws(l, mirror[l])
                /\ astray' = astray \cup InToasts \cup CrossedBy(l) /\ dropped' = dropped
    <3>1. PICK l \in Lists :
                /\ mirror[l] # None /\ Draws(l, mirror[l])
                /\ astray' = astray \cup InToasts \cup CrossedBy(l) /\ dropped' = dropped
      BY <2>4
    <3>2. mirror[l] \in [ItemsOf(l) -> Row]  BY <1>0, <3>1, DrawnRows
    <3>3. heap'[currentList'].list = l  BY <1>0, <3>1, <3>2, DrawnNew
    <3>4. i \in ItemsOf(l) /\ i \notin astray /\ i \notin InToasts /\ i \notin CrossedBy(l)
      BY <1>1, <3>1, <3>3
    <3>5. \A q \in requests' : q.item # i  BY <2>3, <3>4 DEF CrossedBy
    <3>6. mirror[l][i] = server[i]  BY <3>1, <3>4 DEF MirrorInv
    <3> QED  BY <2>2, <3>1, <3>2, <3>4, <3>5, <3>6
  <2>5. CASE /\ r.pc = "answered" /\ requests' = requests \ {r}
             /\ Draws(r.list, r.answer) /\ astray' = Reloaded(r)
    <3>1. r.answer \in [ItemsOf(r.list) -> Row]  BY <1>0, <2>1, <2>5, DrawnRows
    <3>2. heap'[currentList'].list = r.list  BY <1>0, <2>1, <2>5, <3>1, DrawnNew
    <3>3. i \in ItemsOf(r.list) /\ i \notin InToasts /\ (i \in astray => r.alone)
      BY <1>1, <2>5, <3>2 DEF Reloaded
    <3>4. i # None /\ ListOf[i] = r.list  BY <3>3, ListPageAssumption DEF ItemsOf
    <3>5. r.answer[i] = server[i]
      <4>1. CASE r.alone
        <5>1. r.answer = ServerList(r.list)  BY <2>5, <4>1 DEF AloneInv
        <5> QED  BY <3>3, <5>1, ServerRows
      <4>2. CASE ~r.alone  BY <2>1, <2>5, <3>3, <4>2 DEF AnswerInv
      <4> QED  BY <4>1, <4>2
    <3>6. \A q \in requests' : q.item # i
      <4>1. CASE r.alone
        <5>1. requests = {r}  BY <4>1 DEF AloneInv
        <5> QED  BY <2>5, <5>1
      <4>2. CASE ~r.alone  BY <2>1, <2>3, <3>3, <3>4, <4>2 DEF CrossInv
      <4> QED  BY <4>1, <4>2
    <3> QED  BY <2>1, <2>2, <2>5, <3>1, <3>3, <3>5, <3>6
  <2>6. CASE heap' = heap /\ dropped' = dropped /\ astray \subseteq astray'
             /\ currentList' \in {0, currentList}
    BY <1>1, <1>2, <2>6
  <2>7. CASE /\ heap' = heap /\ r.kind = "open" /\ r.at # 0 /\ currentList' = r.at
             /\ ItemsOf(r.list) \subseteq astray'
    <3>1. heap[r.at].list = r.list  BY <2>7 DEF OpenInv
    <3> QED  BY <1>1, <2>7, <3>1
  <2>8. \/ \E l \in Lists :
                /\ mirror[l] # None /\ Draws(l, mirror[l])
                /\ astray' = astray \cup InToasts \cup CrossedBy(l) /\ dropped' = dropped
        \/ /\ r.pc = "answered" /\ requests' = requests \ {r}
           /\ Draws(r.list, r.answer) /\ astray' = Reloaded(r)
        \/ /\ heap' = heap /\ dropped' = dropped /\ astray \subseteq astray'
           /\ currentList' \in {0, currentList}
        \/ /\ heap' = heap /\ r.kind = "open" /\ r.at # 0 /\ currentList' = r.at
           /\ ItemsOf(r.list) \subseteq astray'
    BY <1>0, <1>3, LoadCases
  <2> QED  BY <2>4, <2>5, <2>6, <2>7, <2>8
<1>4. CASE \A r \in requests : ~(Paint(r) \/ OpenSettles(r) \/ RefreshSettles(r))
  <2>1. /\ currentList' \in {0, currentList} /\ astray \subseteq astray'
        /\ dropped \subseteq dropped'
    BY <1>4, OpenListStays
  <2> QED  BY <1>1, <1>2, <2>1
<1> QED  BY <1>1, <1>3, <1>4

\* A new toast is of the open list.
LEMMA ToastsNext ==
    ASSUME KnownInv, [Next]_vars
    PROVE  \A t \in toasts' : t \in toasts \/ t.at = currentList
<1>0. TypeInv  BY DEF KnownInv
<1>1. ASSUME NEW S \in SUBSET Items, NEW bulk \in BOOLEAN, Toggle(S, bulk)
      PROVE  \A t \in toasts' : t \in toasts \/ t.at = currentList
  <2>1. \E value \in BOOLEAN : \E before, toast :
          toast.at = currentList /\ toasts' \subseteq toasts \cup {toast}
    BY <1>0, <1>1, ToggleMarks
  <2> QED  BY <2>1
<1>2. ASSUME NEW S \in SUBSET Items, NEW bulk \in BOOLEAN, Remove(S, bulk)
      PROVE  \A t \in toasts' : t \in toasts \/ t.at = currentList
  <2>1. \E toast : toast.at = currentList /\ toasts' = (toasts \ Superseded(S)) \cup {toast}
    BY <1>0, <1>2, RemoveHides
  <2> QED  BY <2>1
<1>3. CASE \E i \in Items : Toggle({i}, FALSE) \/ Remove({i}, FALSE)
  BY <1>1, <1>2, <1>3
<1>4. CASE \E S \in Selections : Toggle(S, TRUE) \/ Remove(S, TRUE)
  BY <1>1, <1>2, <1>4, ListPageAssumption
<1>5. CASE \E t \in toasts : Undo(t) \/ Commit(t)
  BY <1>5 DEF Undo, Commit, Closed
<1>6. CASE \/ (\E l \in Lists : SelectList(l)) \/ Refresh \/ ShowDashboard \/ OtherDevice
           \/ (\E r \in requests : Serve(r) \/ Fail(r) \/ Paint(r)) \/ UNCHANGED vars
           \/ \E i \in Items, quantity \in 1 .. MaxQuantity : ChangeQuantity(i, quantity)
  BY <1>6 DEF SelectList, Refresh, ShowDashboard, OtherDevice, Serve, Fail, Paint, vars,
     pendings, ChangeQuantity
<1>7. CASE \E r \in requests : Settles(r)
  BY <1>7 DEF Settles, ToggleSettles, QuantitySettles, DeleteSettles, OpenSettles,
     RefreshSettles, pendings
<1> QED  BY <1>3, <1>4, <1>5, <1>6, <1>7 DEF Next

\* What waits and what is in progress of a drawn item is of the object drawn.
LEMMA PlaceNext ==
    ASSUME KnownInv, AloneInv, MirrorInv, AnswerInv, CrossInv, OpenInv, PlaceInv, [Next]_vars
    PROVE  PlaceInv'
<1> SUFFICES ASSUME NEW i \in Items, Drawn(i)'
             PROVE  /\ \A t \in toasts' : i \in t.ids => t.at = currentList'
                    /\ \A r \in requests' : r.item = i => r.at = currentList'
  BY DEF PlaceInv
<1>1. CASE currentList' = currentList /\ Drawn(i)
  <2>0. i # None  BY ListPageAssumption
  <2>1. /\ \A t \in toasts : i \in t.ids => t.at = currentList
        /\ \A r \in requests : r.item = i => r.at = currentList
    BY <1>1 DEF PlaceInv
  <2>2. ASSUME NEW r \in requests', r.item = i PROVE r.at = currentList
    <3>1. ASSUME NEW q \in requests, From(r, q) PROVE r.at = currentList
      <4>1. q.item = i /\ r.at = q.at  BY <2>0, <2>2, <3>1 DEF From
      <4> QED  BY <2>1, <4>1
    <3>2. CASE Made(r)  BY <2>0, <2>1, <2>2, <3>2 DEF Made
    <3> QED  BY <3>1, <3>2, RequestsNext DEF Like
  <2>3. \A t \in toasts' : i \in t.ids => t.at = currentList  BY <2>1, ToastsNext
  <2> QED  BY <1>1, <2>2, <2>3
<1>2. CASE Fresh(i)  BY <1>2 DEF Fresh
<1> QED  BY <1>1, <1>2, DrawnCases

-----------------------------------------------------------------------------
(* What is drawn stays right *)

\* The requests of the next state go on, or are new.
LEMMA SoleKept ==
    ASSUME SoleInv, NEW N, \A r \in requests' : r \in N \/ \E q \in requests : From(r, q),
           \A r \in N : \A q \in requests : q.id # r.id,
           \A r, q \in N : r.kind = "quantity" => r.item = q.item
    PROVE  SoleInv'
<1> SUFFICES ASSUME NEW r \in requests', NEW q \in requests', r.kind = "quantity", r.id = q.id
             PROVE  r.item = q.item
  BY DEF SoleInv
<1>1. CASE r \in N /\ q \in N  BY <1>1
<1>2. ASSUME NEW a \in requests, From(r, a), NEW b \in requests, From(q, b)
      PROVE  r.item = q.item
  <2>1. a.kind = r.kind /\ a.id = r.id /\ a.item = r.item  BY <1>2 DEF From
  <2>2. b.id = q.id /\ b.item = q.item  BY <1>2 DEF From
  <2>3. a.item = b.item  BY <2>1, <2>2 DEF SoleInv
  <2> QED  BY <2>1, <2>2, <2>3
<1>3. ASSUME NEW n \in N, NEW s, NEW a \in requests, From(s, a) PROVE n.id # s.id
  BY <1>3 DEF From
<1> QED  BY <1>1, <1>2, <1>3

\* One request is made, with a new identity.
LEMMA SoleOne ==
    ASSUME TypeInv, IdInv, SoleInv, NEW R \in SUBSET requests, NEW n, n.id = seq + 1,
           requests' = NotAlone(R) \cup {n}
    PROVE  SoleInv'
<1>1. PICK N : N = {n}  OBVIOUS
<1>2. requests' = NotAlone(R) \cup N  BY <1>1
<1>3. \A r \in requests' : r \in N \/ \E q \in requests : From(r, q)
  BY <1>2, MarkedFrom
<1>4. seq \in Nat /\ \A q \in requests : q.id # seq + 1
  BY DEF TypeInv, PageInv, IdInv
<1>5. /\ \A r \in N : \A q \in requests : q.id # r.id
      /\ \A r, q \in N : r.kind = "quantity" => r.item = q.item
  BY <1>1, <1>4
<1> QED  BY <1>3, <1>5, SoleKept

\* Every step keeps the identities of quantity requests their own.
LEMMA SoleNext ==
    ASSUME KnownInv, SoleInv, [Next]_vars
    PROVE  SoleInv'
<1>0. TypeInv /\ IdInv  BY DEF KnownInv
<1>1. CASE \A r \in requests' : \E q \in requests : From(r, q)
  <2>1. PICK N : N = {}  OBVIOUS
  <2>2. \A r \in N : FALSE  BY <2>1
  <2> QED  BY <1>1, <2>2, SoleKept
<1>2. ASSUME NEW t \in toasts, Commit(t) PROVE SoleInv'
  <2>1. requests' = NotAlone(requests) \cup Sent(t)  BY <1>2, CommitSends
  <2>2. \A r \in requests' : r \in Sent(t) \/ \E q \in requests : From(r, q)
    <3>1. requests \in SUBSET requests  OBVIOUS
    <3> QED  BY <1>0, <2>1, <3>1, MarkedFrom
  <2>3. t.kind # "quantity"  BY <1>0 DEF TypeInv, WaitingInv, ToastShape, Toast
  <2>4. \A r \in Sent(t) : r.id = t.id /\ r.kind # "quantity"  BY <2>3, SentRequests
  <2>5. \A r \in Sent(t) : \A q \in requests : q.id # r.id  BY <1>0, <2>4 DEF IdInv
  <2> QED  BY <2>2, <2>4, <2>5, SoleKept
<1>3. ASSUME NEW i, NEW quantity, ChangeQuantity(i, quantity) PROVE SoleInv'
  <2>1. PICK before : requests' = NotAlone(requests) \cup
          {Request(seq + 1, "quantity", currentList, ListOf[i], i, quantity, before)}
    BY <1>3 DEF ChangeQuantity
  <2>2. PICK q : q = Request(seq + 1, "quantity", currentList, ListOf[i], i, quantity, before)
    OBVIOUS
  <2>3. q.id = seq + 1  BY <2>2 DEF Request
  <2>4. requests' = NotAlone(requests) \cup {q} /\ requests \in SUBSET requests  BY <2>1, <2>2
  <2> QED  BY <1>0, <2>3, <2>4, SoleOne
<1>4. ASSUME NEW kind, NEW l, NEW at, NEW pc, NEW alone, Start(Load(kind, l, at, pc, alone))
      PROVE  SoleInv'
  <2>1. requests \in SUBSET requests  OBVIOUS
  <2> QED  BY <1>0, <1>4, <2>1, SoleOne, NewLoads DEF Start
<1>5. ASSUME NEW r \in requests, Paint(r) \/ Serve(r) \/ Fail(r) PROVE SoleInv'
  <2>1. \E s : From(s, r) /\ requests' = (requests \ {r}) \cup {s}
    BY <1>0, <1>5, PaintGoesOn, LoadServed, ItemServed, FailGoesOn
  <2> QED  BY <1>1, <2>1 DEF From
<1>6. \A q : From(q, q)  BY DEF From
<1>7. ASSUME NEW r \in requests, Settles(r) PROVE SoleInv'
  <2>1. CASE requests' = requests \ {r}  BY <1>1, <1>6, <2>1
  <2>2. CASE DeleteSettles(r)
    <3>1. CASE \E q : /\ q = Load("refresh", currentListId, currentList, "sent",
                                  requests = {r} /\ toasts = {})
                      /\ requests' = NotAlone(requests \ {r}) \cup {q}
      <4>1. requests \ {r} \in SUBSET requests  OBVIOUS
      <4> QED  BY <1>0, <3>1, <4>1, SoleOne, NewLoads
    <3> QED  BY <1>0, <2>1, <2>2, <3>1, DeleteLoads
  <2>3. CASE ~DeleteSettles(r)
    <3>1. requests' = requests \ {r}
      BY <1>7, <2>3 DEF Settles, ToggleSettles, QuantitySettles, OpenSettles, RefreshSettles
    <3> QED  BY <2>1, <3>1
  <2> QED  BY <2>2, <2>3
<1>8. CASE UNCHANGED requests  BY <1>1, <1>6, <1>8
<1>9. CASE requests' = NotAlone(requests)
  <2>1. requests \in SUBSET requests  OBVIOUS
  <2> QED  BY <1>0, <1>1, <1>9, <2>1, MarkedLike DEF Like
<1>10. ASSUME NEW S, NEW bulk, Toggle(S, bulk) \/ Remove(S, bulk) PROVE SoleInv'
  BY <1>9, <1>10 DEF Toggle, Remove
<1>11. CASE OtherDevice  BY <1>9, <1>11 DEF OtherDevice
<1>12. CASE Refresh \/ \E l \in Lists : SelectList(l)
  BY <1>4, <1>12 DEF Refresh, SelectList
<1>13. CASE ShowDashboard \/ (\E t \in toasts : Undo(t)) \/ UNCHANGED vars
  BY <1>8, <1>13 DEF ShowDashboard, Undo, vars
<1> QED  BY <1>2, <1>3, <1>5, <1>7, <1>10, <1>11, <1>12, <1>13 DEF Next

\* The requests about an item go on as they are, and no other is made.
RequestsKeep(i) ==
    /\ \A r \in requests' : r.item = i => \E q \in requests : Like(r, q)
    /\ \A q \in requests : q.item = i => \E r \in requests' : From(r, q)

\* Marking the requests, and making some about other items.
LEMMA KeepMarked ==
    ASSUME TypeInv, NEW i, NEW R \in SUBSET requests, NEW N, requests' = NotAlone(R) \cup N,
           \A n \in N : n.item # i, \A q \in requests \ R : q.item # i
    PROVE  RequestsKeep(i)
<1>1. \A r \in requests' : r.item = i => \E q \in requests : Like(r, q)  BY MarkedLike
<1>2. \A q \in requests : q.item = i => \E r \in requests' : From(r, q)
  BY MarkedLike DEF Like
<1> QED  BY <1>1, <1>2 DEF RequestsKeep

\* Marking the requests, and making one about another item.
LEMMA KeepOne ==
    ASSUME TypeInv, NEW i, NEW R \in SUBSET requests, NEW n, requests' = NotAlone(R) \cup {n},
           n.item # i, \A q \in requests \ R : q.item # i
    PROVE  RequestsKeep(i)
<1>1. PICK N : N = {n}  OBVIOUS
<1>2. requests' = NotAlone(R) \cup N /\ \A m \in N : m.item # i  BY <1>1
<1> QED  BY <1>2, KeepMarked

\* Marking the requests.
LEMMA KeepAll ==
    ASSUME TypeInv, NEW i, requests' = NotAlone(requests)
    PROVE  RequestsKeep(i)
<1>1. PICK N : N = {}  OBVIOUS
<1>2. requests' = NotAlone(requests) \cup N /\ \A n \in N : n.item # i  BY <1>1
<1>3. \A q \in requests \ requests : q.item # i  OBVIOUS
<1>4. requests \in SUBSET requests  OBVIOUS
<1> QED  BY <1>2, <1>3, <1>4, KeepMarked

\* One about another item goes on, or settles.
LEMMA KeepLeft ==
    ASSUME NEW i, NEW r,
           \/ requests' = requests
           \/ r.item # i /\ requests' = requests \ {r}
           \/ r.item # i /\ \E s : From(s, r) /\ requests' = (requests \ {r}) \cup {s}
    PROVE  RequestsKeep(i)
<1>1. \A q \in requests : Like(q, q) /\ From(q, q)  BY DEF Like, From
<1>2. CASE requests' = requests  BY <1>1, <1>2 DEF RequestsKeep
<1>3. CASE r.item # i /\ requests' = requests \ {r}  BY <1>1, <1>3 DEF RequestsKeep
<1>4. ASSUME NEW s, r.item # i, From(s, r), requests' = (requests \ {r}) \cup {s}
      PROVE  RequestsKeep(i)
  <2>1. s.item # i  BY <1>4 DEF From
  <2> QED  BY <1>1, <1>4, <2>1 DEF RequestsKeep
<1> QED  BY <1>2, <1>3, <1>4

\* An item is drawn as the server has it, while what it shows and waits for stays.
LEMMA AgreesShown ==
    ASSUME NEW i, ItemAgrees(i), server'[i] = server[i],
           \A r \in requests' : r.item = i => RequestAgrees(r)',
           \A k : Sending(i, k) => Sending(i, k)',
           Shown(i)'.there = Shown(i).there, Shown(i)'.quantity = Shown(i).quantity,
           \A v : DoneIs(i, v) => DoneIs(i, v)',
           \/ Shown(i).hidden /\ \A t \in toasts : ~Deletes(t, currentList, i)
           \/ ~Shown(i)'.hidden
           \/ \E t \in toasts' : Deletes(t, currentList', i)
    PROVE  ItemAgrees(i)'
BY DEF ItemAgrees

\* So is one whose requests go on.
LEMMA AgreesKept ==
    ASSUME NEW i, ItemAgrees(i), server'[i] = server[i],
           RequestsKeep(i),
           Shown(i)'.there = Shown(i).there, Shown(i)'.quantity = Shown(i).quantity,
           \A v : DoneIs(i, v) => DoneIs(i, v)',
           \/ Shown(i).hidden /\ \A t \in toasts : ~Deletes(t, currentList, i)
           \/ ~Shown(i)'.hidden
           \/ \E t \in toasts' : Deletes(t, currentList', i),
           \A q \in requests : q.item = i /\ q.kind = "quantity" =>
             \A m \in pendingQuantityUpdates : m.request = q.id =>
                 \E n \in pendingQuantityUpdates' : n.request = q.id
    PROVE  ItemAgrees(i)'
<1>1. \A k : Sending(i, k) => Sending(i, k)'  BY DEF RequestsKeep, Sending, From
<1>2. ASSUME NEW r \in requests', r.item = i PROVE RequestAgrees(r)'
  <2>1. PICK q \in requests : Like(r, q)  BY <1>2 DEF RequestsKeep
  <2>2. /\ r.id = q.id /\ r.kind = q.kind /\ q.item = i /\ r.before = q.before
        /\ r.pc = q.pc /\ r.answer = q.answer
    BY <1>2, <2>1 DEF Like, From
  <2>3. RequestAgrees(q)  BY <2>2 DEF ItemAgrees
  <2>4. q.kind = "quantity" /\ (\E m \in pendingQuantityUpdates : m.request = q.id) =>
            \E m \in pendingQuantityUpdates' : m.request = r.id
    BY <1>2, <2>2
  <2> QED  BY <1>2, <2>2, <2>3, <2>4 DEF RequestAgrees
<1> QED  BY <1>1, <1>2, AgreesShown

\* Item i is drawn where it was, and the page goes on being right about it.
Steady(i) ==
    /\ i \in Items /\ currentList' = currentList /\ currentList \in DOMAIN heap
    /\ i \in ItemsOf(heap[currentList].list)
    /\ i \notin astray /\ i \notin astray' /\ i \notin dropped' /\ ItemAgrees(i)
    /\ \A t \in toasts : i \in t.ids => t.at = currentList
    /\ \A r \in requests : r.item = i => r.at = currentList

\* Nothing happens to item i.
LEMMA AgreesSame ==
    ASSUME NEW i, Steady(i), server'[i] = server[i], RequestsKeep(i),
           Shown(i)' = Shown(i), Pending(currentList, i)' = Pending(currentList, i),
           \A t \in toasts : Deletes(t, currentList, i) => t \in toasts',
           \A q \in requests : q.item = i /\ q.kind = "quantity" =>
             \A m \in pendingQuantityUpdates : m.request = q.id =>
                 \E n \in pendingQuantityUpdates' : n.request = q.id
    PROVE  ItemAgrees(i)'
<1>1. currentList' = currentList /\ ItemAgrees(i)  BY DEF Steady
<1>3. \A v : DoneIs(i, v) => DoneIs(i, v)'  BY DEF DoneIs
<1>4. \/ Shown(i).hidden /\ \A t \in toasts : ~Deletes(t, currentList, i)
      \/ ~Shown(i)'.hidden
      \/ \E t \in toasts' : Deletes(t, currentList', i)
  BY <1>1
<1> QED  BY <1>1, <1>3, <1>4, AgreesKept

\* The object of item i is not among those a step changes.
LEMMA SameShown ==
    ASSUME NEW i, Steady(i), NEW at, NEW ids, Edited(at, ids), at # currentList \/ i \notin ids
    PROVE  Shown(i)' = Shown(i)
BY DEF Steady, Edited, Shown

\* Of an item the page is right about, one request is in progress.
LEMMA OneRequest ==
    ASSUME CrossInv, NEW i, Steady(i), NEW r \in requests, r.item = i
    PROVE  /\ \A q \in requests : q.item = i => q = r
           /\ \A k : Sending(i, k) => k = r.kind
BY ListPageAssumption DEF CrossInv, Steady, Sending

\* An item that is drawn afresh.
LEMMA AgreesFresh ==
    ASSUME KnownInv, NEW i \in Items, Fresh(i)
    PROVE  ItemAgrees(i)'
<1>1. \A p \in pendingToggles' : p.at \in DOMAIN heap
  BY DEF Fresh, KnownInv, TypeInv, WaitingInv, ToggleShape
<1>2. Pending(currentList, i)' = {}  BY <1>1 DEF Fresh, Pending
<1>3. DoneIs(i, server[i].done)'  BY <1>2 DEF DoneIs, Fresh, Looks
<1> QED  BY <1>3 DEF ItemAgrees, Fresh, Looks

\* A toggle that waits puts back what its toast has.
LEMMA WaitingToast ==
    ASSUME KnownInv, NEW t \in toasts, NEW p \in pendingToggles, p.toast = t.id
    PROVE  t.kind = "done" /\ t.before[p.item] = p.before
BY ToastOf DEF KnownInv, Waits

\* No deletion is superseded.
LEMMA SupersededKind ==
    ASSUME KnownInv, NEW S, NEW t \in Superseded(S)
    PROVE  t.kind = "done"
<1>1. PICK i \in S : \E p \in Pending(currentList, i) : p.toast = t.id  BY DEF Superseded
<1> QED  BY <1>1, WaitingToast DEF Superseded, Pending

\* Item i waits as it did when neither is it taken out of what waits nor put into it.
LEMMA SamePending ==
    ASSUME NEW i, Steady(i), NEW at, NEW ids, NEW new,
           pendingToggles' = Without(pendingToggles, at, ids) \cup new,
           at # currentList \/ i \notin ids, \A p \in new : p.at # currentList \/ p.item # i
    PROVE  Pending(currentList, i)' = Pending(currentList, i)
BY DEF Pending, Without, Steady

\* Checking off: the item waits with what it had before, which is the server's.
LEMMA AgreesToggle ==
    ASSUME KnownInv, NEW i, Steady(i), NEW S \in SUBSET Items, NEW bulk \in BOOLEAN,
           Toggle(S, bulk)
    PROVE  ItemAgrees(i)'
<1>0. TypeInv  BY DEF KnownInv
<1>1. /\ requests' = NotAlone(requests)
      /\ UNCHANGED <<server, currentList, pendingQuantityUpdates>>
  BY DEF Toggle
<1>2. RequestsKeep(i)  BY <1>0, <1>1, KeepAll
<1>3. PICK value \in BOOLEAN : \E before, toast :
        /\ currentList \in DOMAIN heap /\ S \subseteq ItemsOf(heap[currentList].list)
        /\ \A j \in S :
             /\ Shown(j).there /\ ~Shown(j).hidden /\ before[j] \in BOOLEAN
             /\ Pending(currentList, j) = {} => before[j] = Shown(j).done
             /\ Pending(currentList, j) # {} =>
                    \E p \in Pending(currentList, j) : before[j] = p.before
        /\ Edited(currentList, S)
        /\ \A j \in S : Looks(heap'[currentList].items[j], value, Shown(j).quantity,
                              Shown(j).there, Shown(j).hidden)
        /\ toast.id = seq + 1 /\ toast.kind = "done" /\ toast.at = currentList
        /\ toast.list = currentListId /\ toast.ids = {j \in S : before[j] # value}
        /\ toasts' \subseteq toasts \cup {toast}
        /\ \A t \in toasts \ toasts' : t \in Superseded(S)
        /\ pendingToggles' = Without(pendingToggles, currentList, S) \cup
             {[at |-> currentList, item |-> j, toast |-> seq + 1, before |-> before[j]] :
                 j \in toast.ids}
  BY <1>0, ToggleMarks
<1>4. PICK before, toast :
        /\ currentList \in DOMAIN heap /\ S \subseteq ItemsOf(heap[currentList].list)
        /\ \A j \in S :
             /\ Shown(j).there /\ ~Shown(j).hidden /\ before[j] \in BOOLEAN
             /\ Pending(currentList, j) = {} => before[j] = Shown(j).done
             /\ Pending(currentList, j) # {} =>
                    \E p \in Pending(currentList, j) : before[j] = p.before
        /\ Edited(currentList, S)
        /\ \A j \in S : Looks(heap'[currentList].items[j], value, Shown(j).quantity,
                              Shown(j).there, Shown(j).hidden)
        /\ toast.id = seq + 1 /\ toast.kind = "done" /\ toast.at = currentList
        /\ toast.list = currentListId /\ toast.ids = {j \in S : before[j] # value}
        /\ toasts' \subseteq toasts \cup {toast}
        /\ \A t \in toasts \ toasts' : t \in Superseded(S)
        /\ pendingToggles' = Without(pendingToggles, currentList, S) \cup
             {[at |-> currentList, item |-> j, toast |-> seq + 1, before |-> before[j]] :
                 j \in toast.ids}
  BY <1>3
<1>5. PICK new : new =
        {[at |-> currentList, item |-> j, toast |-> seq + 1, before |-> before[j]] :
            j \in toast.ids}
  OBVIOUS
<1>6. \A p \in new : p.at = currentList /\ p.item \in toast.ids /\ p.before = before[p.item]
  BY <1>5
<1>7. pendingToggles' = Without(pendingToggles, currentList, S) \cup new  BY <1>4, <1>5
<1>8. ASSUME NEW t \in toasts, Deletes(t, currentList, i) PROVE t \in toasts'
  <2>1. t.kind # "done"  BY <1>8 DEF Deletes
  <2> QED  BY <1>4, <2>1, SupersededKind
<1>9. CASE i \notin S
  <2>1. Shown(i)' = Shown(i)  BY <1>4, <1>9, SameShown
  <2>2. \A p \in new : p.at # currentList \/ p.item # i  BY <1>4, <1>6, <1>9
  <2>3. Pending(currentList, i)' = Pending(currentList, i)
    BY <1>7, <1>9, <2>2, SamePending
  <2> QED  BY <1>1, <1>2, <1>8, <2>1, <2>3, AgreesSame
<1>10. CASE i \in S
  <2>1. Looks(Shown(i)', value, Shown(i).quantity, Shown(i).there, Shown(i).hidden)
    BY <1>1, <1>4, <1>10 DEF Shown
  <2>2. /\ Shown(i)'.done = value /\ Shown(i)'.quantity = Shown(i).quantity
        /\ Shown(i)'.there = Shown(i).there /\ ~Shown(i)'.hidden
    BY <1>4, <1>10, <2>1 DEF Looks
  <2>3. ASSUME NEW v, DoneIs(i, v) PROVE DoneIs(i, v)'
    <3>1. before[i] = v  BY <1>4, <1>10, <2>3 DEF DoneIs
    <3>2. \A p \in Pending(currentList, i)' : p \in new /\ p.item = i
      BY <1>1, <1>7, <1>10 DEF Pending, Without
    <3>3. \A p \in Pending(currentList, i)' : p.before = v  BY <1>6, <3>1, <3>2
    <3>4. ASSUME Pending(currentList, i)' = {} PROVE value = v
      <4>1. CASE before[i] = value  BY <3>1, <4>1
      <4>2. CASE before[i] # value
        <5>1. PICK p : p = [at |-> currentList, item |-> i, toast |-> seq + 1,
                            before |-> before[i]]
          OBVIOUS
        <5>2. i \in toast.ids  BY <1>4, <1>10, <4>2
        <5>3. p \in new /\ p.at = currentList /\ p.item = i  BY <1>5, <5>1, <5>2
        <5>4. p \in Pending(currentList, i)'  BY <1>1, <1>7, <5>3 DEF Pending
        <5> QED  BY <3>4, <5>4
      <4> QED  BY <4>1, <4>2
    <3> QED  BY <2>2, <3>3, <3>4 DEF DoneIs
  <2>4. ItemAgrees(i) /\ server'[i] = server[i]  BY <1>1 DEF Steady
  <2> QED  BY <1>1, <1>2, <2>2, <2>3, <2>4, AgreesKept
<1> QED  BY <1>9, <1>10

\* Deleting: the item is hidden by its toast, and waits for nothing else.
LEMMA AgreesRemove ==
    ASSUME KnownInv, NEW i, Steady(i), NEW S \in SUBSET Items, NEW bulk \in BOOLEAN,
           Remove(S, bulk)
    PROVE  ItemAgrees(i)'
<1>0. TypeInv  BY DEF KnownInv
<1>1. /\ requests' = NotAlone(requests)
      /\ UNCHANGED <<server, currentList, pendingQuantityUpdates>>
      /\ pendingToggles' = Without(pendingToggles, currentList, S)
      /\ dropped' = dropped \cup {j \in S : Pending(currentList, j) # {}}
  BY DEF Remove
<1>2. RequestsKeep(i)  BY <1>0, <1>1, KeepAll
<1>3. PICK toast :
        /\ currentList \in DOMAIN heap /\ S \subseteq ItemsOf(heap[currentList].list)
        /\ \A j \in S : Shown(j).there /\ ~Shown(j).hidden
        /\ Edited(currentList, S)
        /\ \A j \in S : Looks(heap'[currentList].items[j], Shown(j).done, Shown(j).quantity,
                              Shown(j).there, TRUE)
        /\ toast.id = seq + 1 /\ toast.kind = "delete" /\ toast.at = currentList
        /\ toast.ids = S
        /\ toasts' = (toasts \ Superseded(S)) \cup {toast}
  BY <1>0, RemoveHides
<1>4. ASSUME NEW t \in toasts, Deletes(t, currentList, i) PROVE t \in toasts'
  <2>1. t.kind # "done"  BY <1>4 DEF Deletes
  <2> QED  BY <1>3, <2>1, SupersededKind
<1>5. CASE i \notin S
  <2>1. Shown(i)' = Shown(i)  BY <1>3, <1>5, SameShown
  <2>2. Pending(currentList, i)' = Pending(currentList, i)
    BY <1>1, <1>5 DEF Pending, Without
  <2> QED  BY <1>1, <1>2, <1>4, <2>1, <2>2, AgreesSame
<1>6. CASE i \in S
  <2>1. Looks(Shown(i)', Shown(i).done, Shown(i).quantity, Shown(i).there, TRUE)
    BY <1>1, <1>3, <1>6 DEF Shown
  <2>2. Pending(currentList, i) = {}  BY <1>1, <1>6 DEF Steady
  <2>3. Pending(currentList, i)' = {}  BY <1>1, <2>2 DEF Pending, Without
  <2>4. \A v : DoneIs(i, v) => DoneIs(i, v)'  BY <2>1, <2>2, <2>3 DEF DoneIs, Looks
  <2>5. \E t \in toasts' : Deletes(t, currentList', i)  BY <1>1, <1>3, <1>6 DEF Deletes
  <2>6. ItemAgrees(i) /\ server'[i] = server[i]  BY <1>1 DEF Steady
  <2>7. Shown(i)'.there = Shown(i).there /\ Shown(i)'.quantity = Shown(i).quantity
    BY <2>1 DEF Looks
  <2> QED  BY <1>1, <1>2, <2>4, <2>5, <2>6, <2>7, AgreesKept
<1> QED  BY <1>5, <1>6

\* A toast that marks an item it still owns puts back what the item had before.
LEMMA OwnedBefore ==
    ASSUME KnownInv, NEW t \in toasts, t.kind = "done", NEW i \in Owned(t),
           t.at = currentList, NEW v, DoneIs(i, v)
    PROVE  t.before[i] = v
<1>1. \E p \in Pending(t.at, i) : p.toast = t.id
  <2>1. CASE t.bulk  BY <2>1 DEF Owned
  <2>2. CASE ~t.bulk
    <3>1. i \in t.ids  BY <2>2 DEF Owned
    <3>2. {p.toast : p \in Pending(t.at, i)} = {t.id}
      BY <2>2, <3>1 DEF KnownInv, ToastInv, OwnerInv
    <3> QED  BY <3>2
  <2> QED  BY <2>1, <2>2
<1>2. PICK p \in Pending(t.at, i) : p.toast = t.id  BY <1>1
<1>3. p \in pendingToggles /\ p.item = i  BY <1>2 DEF Pending
<1>4. t.before[i] = p.before  BY <1>2, <1>3, WaitingToast
<1> QED  BY <1>2, <1>4 DEF DoneIs

\* Undoing: what is put back is what the item had before it waited, the server's.
LEMMA AgreesUndo ==
    ASSUME KnownInv, NEW i, Steady(i), NEW t \in toasts, Undo(t)
    PROVE  ItemAgrees(i)'
<1>0. TypeInv  BY DEF KnownInv
<1>1. /\ UNCHANGED <<server, currentList, requests, pendingQuantityUpdates>>
      /\ toasts' = toasts \ {t}
      /\ pendingToggles' = IF t.kind = "delete" THEN pendingToggles
                           ELSE Without(pendingToggles, t.at, Owned(t))
  BY DEF Undo, Closed
<1>2. RequestsKeep(i)  BY <1>1 DEF RequestsKeep, Like, From
<1>3. /\ Edited(t.at, Owned(t)) /\ Owned(t) \subseteq t.ids
      /\ \A j \in Owned(t) :
            Looks(heap'[t.at].items[j],
                  IF t.kind = "delete" THEN ObjectAt(t.at, j).done ELSE t.before[j],
                  ObjectAt(t.at, j).quantity, ObjectAt(t.at, j).there,
                  IF t.kind = "delete" THEN FALSE ELSE ObjectAt(t.at, j).hidden)
  BY <1>0, UndoRestores, OwnedItems
<1>4. CASE i \notin Owned(t)
  <2>1. Shown(i)' = Shown(i)  BY <1>3, <1>4, SameShown
  <2>2. Pending(currentList, i)' = Pending(currentList, i)
    BY <1>1, <1>4 DEF Pending, Without
  <2>3. \A u \in toasts : Deletes(u, currentList, i) => u \in toasts'
    BY <1>1, <1>4 DEF Deletes, Owned
  <2> QED  BY <1>1, <1>2, <2>1, <2>2, <2>3, AgreesSame
<1>5. CASE i \in Owned(t)
  <2>1. t.at = currentList  BY <1>3, <1>5 DEF Steady
  <2>2. Looks(Shown(i)', IF t.kind = "delete" THEN Shown(i).done ELSE t.before[i],
              Shown(i).quantity, Shown(i).there,
              IF t.kind = "delete" THEN FALSE ELSE Shown(i).hidden)
    BY <1>1, <1>3, <1>5, <2>1 DEF Shown, ObjectAt
  <2>3. ItemAgrees(i) /\ server'[i] = server[i]  BY <1>1 DEF Steady
  <2>4. Shown(i)'.there = Shown(i).there /\ Shown(i)'.quantity = Shown(i).quantity
    BY <2>2 DEF Looks
  <2>5. CASE t.kind = "delete"
    <3>1. Shown(i)'.done = Shown(i).done /\ ~Shown(i)'.hidden  BY <2>2, <2>5 DEF Looks
    <3>2. Pending(currentList, i)' = Pending(currentList, i)  BY <1>1, <2>5 DEF Pending
    <3>3. \A v : DoneIs(i, v) => DoneIs(i, v)'  BY <3>1, <3>2 DEF DoneIs
    <3> QED  BY <1>1, <1>2, <2>3, <2>4, <3>1, <3>3, AgreesKept
  <2>6. CASE t.kind # "delete"
    <3>1. t.kind = "done"  BY <1>0, <2>6 DEF TypeInv, WaitingInv, ToastShape, Toast
    <3>2. Shown(i)'.done = t.before[i] /\ Shown(i)'.hidden = Shown(i).hidden
      BY <2>2, <2>6 DEF Looks
    <3>3. Pending(currentList, i)' = {}  BY <1>1, <1>5, <2>1, <2>6 DEF Pending, Without
    <3>4. ASSUME NEW v, DoneIs(i, v) PROVE DoneIs(i, v)'
      <4>1. t.before[i] = v  BY <1>5, <2>1, <3>1, <3>4, OwnedBefore
      <4> QED  BY <3>2, <3>3, <4>1 DEF DoneIs
    <3>5. \/ Shown(i).hidden /\ \A u \in toasts : ~Deletes(u, currentList, i)
          \/ ~Shown(i)'.hidden
          \/ \E u \in toasts' : Deletes(u, currentList', i)
      BY <1>1, <2>6, <3>2 DEF Deletes
    <3> QED  BY <1>1, <1>2, <2>3, <2>4, <3>4, <3>5, AgreesKept
  <2> QED  BY <2>5, <2>6
<1> QED  BY <1>4, <1>5

\* A new quantity: it is put back, if refused, to what the server has.
LEMMA AgreesQuantity ==
    ASSUME KnownInv, QuantityInv, SoleInv, NEW i, Steady(i), NEW j \in Items,
           NEW quantity \in 1 .. MaxQuantity, ChangeQuantity(j, quantity)
    PROVE  ItemAgrees(i)'
<1>0. TypeInv  BY DEF KnownInv
<1>1. /\ UNCHANGED <<server, currentList, toasts, pendingToggles>>
      /\ astray' = astray \cup Crossed({j}) /\ j \in Visible
  BY DEF ChangeQuantity
<1>2. /\ Edited(currentList, {j})
      /\ Looks(heap'[currentList].items[j], Shown(j).done, quantity, Shown(j).there,
               Shown(j).hidden)
      /\ \E before, r :
           /\ r = Request(seq + 1, "quantity", currentList, ListOf[j], j, quantity, before)
           /\ requests' = NotAlone(requests) \cup {r}
           /\ \A m \in pendingQuantityUpdates' :
                m \in pendingQuantityUpdates \/
                (m.at = currentList /\ m.item = j /\ m.request = seq + 1)
           /\ \E m \in pendingQuantityUpdates' : m.request = seq + 1
           /\ \A m \in pendingQuantityUpdates :
                m \in pendingQuantityUpdates' \/ (m.at = currentList /\ m.item = j)
           /\ \/ before = Shown(j).quantity
              \/ \E m \in pendingQuantityUpdates : m.at = currentList /\ m.item = j
  BY <1>0, QuantityShows
<1>3. PICK before, r :
           /\ r = Request(seq + 1, "quantity", currentList, ListOf[j], j, quantity, before)
           /\ requests' = NotAlone(requests) \cup {r}
           /\ \A m \in pendingQuantityUpdates' :
                m \in pendingQuantityUpdates \/
                (m.at = currentList /\ m.item = j /\ m.request = seq + 1)
           /\ \E m \in pendingQuantityUpdates' : m.request = seq + 1
           /\ \A m \in pendingQuantityUpdates :
                m \in pendingQuantityUpdates' \/ (m.at = currentList /\ m.item = j)
           /\ \/ before = Shown(j).quantity
              \/ \E m \in pendingQuantityUpdates : m.at = currentList /\ m.item = j
  BY <1>2
<1>4. /\ r.id = seq + 1 /\ r.kind = "quantity" /\ r.at = currentList /\ r.item = j
      /\ r.before = before /\ r.pc = "sent"
  BY <1>3 DEF Request
<1>5. Pending(currentList, i)' = Pending(currentList, i)  BY <1>1 DEF Pending
<1>6. requests \in SUBSET requests /\ \A q \in requests \ requests : FALSE  OBVIOUS
<1>7. CASE i # j
  <2>1. RequestsKeep(i)  BY <1>0, <1>3, <1>4, <1>6, <1>7, KeepOne
  <2>2. Shown(i)' = Shown(i)  BY <1>2, <1>7, SameShown
  <2>3. ASSUME NEW q \in requests, q.item = i, NEW m \in pendingQuantityUpdates,
               m.request = q.id
        PROVE  m \in pendingQuantityUpdates'
    <3>1. PICK s \in requests : s.id = m.request /\ s.item = m.item /\ s.kind = "quantity"
      BY DEF QuantityInv
    <3>2. m.item = i  BY <2>3, <3>1 DEF SoleInv
    <3> QED  BY <1>3, <1>7, <3>2
  <2> QED  BY <1>1, <1>5, <2>1, <2>2, <2>3, AgreesSame
<1>8. CASE i = j
  <2>1. \A q \in requests : q.item # i  BY <1>1, <1>8 DEF Steady, Crossed
  <2>2. \A q \in requests' : q.item = i => q = r
    <3>1. \A q \in NotAlone(requests) : \E s \in requests : Like(q, s)
      BY <1>0, <1>6, MarkedLike
    <3> QED  BY <1>3, <2>1, <3>1 DEF Like, From
  <2>3. before = Shown(i).quantity  BY <1>3, <1>8, <2>1 DEF QuantityInv
  <2>4. Looks(Shown(i)', Shown(i).done, quantity, Shown(i).there, Shown(i).hidden)
    BY <1>1, <1>2, <1>8 DEF Shown
  <2>5. /\ Shown(i)'.done = Shown(i).done /\ Shown(i)'.there = Shown(i).there
        /\ Shown(i)'.hidden = Shown(i).hidden
    BY <2>4 DEF Looks
  <2>6. Shown(i).there  BY <1>1, <1>8 DEF Visible, Shown
  <2>7. /\ server[i].there /\ DoneIs(i, server[i].done)
        /\ Shown(i).quantity = server[i].quantity
        /\ ~Shown(i).hidden \/ \E t \in toasts : Deletes(t, currentList, i)
    BY <2>1, <2>6 DEF Steady, ItemAgrees, Sending
  <2>8. RequestAgrees(r)'
    BY <1>1, <1>3, <1>4, <1>8, <2>3, <2>7 DEF RequestAgrees
  <2>9. Sending(i, "quantity")'  BY <1>3, <1>4, <1>8 DEF Sending
  <2>10. DoneIs(i, server[i].done)'  BY <1>1, <1>5, <2>5, <2>7 DEF DoneIs
  <2> QED  BY <1>1, <2>2, <2>5, <2>6, <2>7, <2>8, <2>9, <2>10 DEF ItemAgrees
<1> QED  BY <1>7, <1>8

\* Sending: the request puts back what its toast had, which the server still has.
LEMMA AgreesCommit ==
    ASSUME KnownInv, HiddenInv, NEW i, Steady(i), NEW t \in toasts, Commit(t)
    PROVE  ItemAgrees(i)'
<1>0. TypeInv  BY DEF KnownInv
<1>1. /\ UNCHANGED <<server, currentList, pendingQuantityUpdates>>
      /\ toasts' = toasts \ {t} /\ astray' = astray \cup Crossed(Owned(t))
      /\ pendingToggles' = IF t.kind = "delete" THEN pendingToggles
                           ELSE Without(pendingToggles, t.at, Owned(t))
  BY DEF Commit, Closed
<1>2. requests' = NotAlone(requests) \cup Sent(t)  BY CommitSends
<1>3. /\ Edited(t.at, Owned(t)) /\ Owned(t) \subseteq t.ids
      /\ \A j \in Owned(t) :
            /\ heap'[t.at].items[j].done = ObjectAt(t.at, j).done
            /\ heap'[t.at].items[j].quantity = ObjectAt(t.at, j).quantity
            /\ heap'[t.at].items[j].hidden = ObjectAt(t.at, j).hidden
      /\ t.kind = "done" => heap' = heap
  BY <1>0, CommitKeeps, OwnedItems
<1>4. requests \in SUBSET requests /\ \A q \in requests \ requests : FALSE  OBVIOUS
<1>5. \A r \in Sent(t) : r.item \in Owned(t)  BY SentRequests
<1>6. CASE i \notin Owned(t)
  <2>1. Shown(i)' = Shown(i)  BY <1>3, <1>6, SameShown
  <2>2. Pending(currentList, i)' = Pending(currentList, i)
    BY <1>1, <1>6 DEF Pending, Without
  <2>3. \A u \in toasts : Deletes(u, currentList, i) => u \in toasts'
    BY <1>1, <1>6 DEF Deletes, Owned
  <2>4. RequestsKeep(i)
    <3>1. \A r \in Sent(t) : r.item # i  BY <1>5, <1>6
    <3> QED  BY <1>0, <1>2, <1>4, <3>1, KeepMarked
  <2> QED  BY <1>1, <2>1, <2>2, <2>3, <2>4, AgreesSame
<1>7. CASE i \in Owned(t)
  <2>1. t.at = currentList  BY <1>3, <1>7 DEF Steady
  <2>2. \A q \in requests : q.item # i  BY <1>1, <1>7 DEF Steady, Crossed
  <2>3. PICK r : r = Request(t.id, t.kind, t.at, t.list, i, t.value, t.before[i])  OBVIOUS
  <2>4. /\ r.kind = t.kind /\ r.item = i /\ r.before = t.before[i] /\ r.pc = "sent"
    BY <2>3 DEF Request
  <2>5. r \in requests'  BY <1>2, <1>7, <2>3 DEF Sent
  <2>6. ASSUME NEW q \in requests', q.item = i PROVE q = r
    <3>1. \A s \in NotAlone(requests) : \E p \in requests : Like(s, p)
      BY <1>0, <1>4, MarkedLike
    <3>2. q \in Sent(t)  BY <1>2, <2>2, <2>6, <3>1 DEF Like, From
    <3>3. q = Request(t.id, t.kind, t.at, t.list, q.item, t.value, t.before[q.item])
      BY <3>2, SentRequests
    <3> QED  BY <2>3, <2>6, <3>3
  <2>7. /\ ~server[i].there => ~Shown(i).there
        /\ server[i].there =>
             /\ DoneIs(i, server[i].done) /\ Shown(i).quantity = server[i].quantity
             /\ Shown(i).there
             /\ ~Shown(i).hidden \/ \E u \in toasts : Deletes(u, currentList, i)
    BY <2>2 DEF Steady, ItemAgrees, Sending
  <2>8. /\ Shown(i)'.done = Shown(i).done /\ Shown(i)'.quantity = Shown(i).quantity
        /\ Shown(i)'.hidden = Shown(i).hidden
    BY <1>1, <1>3, <1>7, <2>1 DEF Shown, ObjectAt
  <2>9. server'[i] = server[i]  BY <1>1
  <2>10. CASE t.kind = "delete"
    <3>1. Shown(i).there
      BY <1>3, <1>7, <2>1, <2>10 DEF HiddenInv, ToastHides, Shown, ObjectAt
    <3>2. server[i].there
      <4>1. server[i].there \in BOOLEAN  BY <1>0 DEF Steady, TypeInv, ServerInv, Row
      <4> QED  BY <2>7, <3>1, <4>1
    <3>3. RequestAgrees(r)'  BY <2>4, <2>9, <2>10, <3>2 DEF RequestAgrees
    <3>4. Sending(i, "delete")'  BY <2>4, <2>5, <2>10 DEF Sending
    <3>5. Pending(currentList, i)' = Pending(currentList, i)  BY <1>1, <2>10 DEF Pending
    <3>6. DoneIs(i, server[i].done)'  BY <1>1, <2>7, <2>8, <3>2, <3>5 DEF DoneIs
    <3>7. Shown(i)'.quantity = server'[i].quantity  BY <2>7, <2>8, <2>9, <3>2
    <3> QED  BY <2>6, <2>9, <3>2, <3>3, <3>4, <3>6, <3>7 DEF ItemAgrees
  <2>11. CASE t.kind # "delete"
    <3>1. t.kind = "done"  BY <1>0, <2>11 DEF TypeInv, WaitingInv, ToastShape, Toast
    <3>2. Shown(i)'.there = Shown(i).there  BY <1>1, <1>3, <3>1 DEF Shown
    <3>3. server[i].there => t.before[i] = server[i].done
      BY <1>7, <2>1, <2>7, <3>1, OwnedBefore
    <3>4. RequestAgrees(r)'  BY <2>4, <2>9, <3>1, <3>3 DEF RequestAgrees
    <3>5. Sending(i, "done")'  BY <2>4, <2>5, <3>1 DEF Sending
    <3>6. server[i].there => ~Shown(i)'.hidden \/ \E u \in toasts' : Deletes(u, currentList', i)
      BY <1>1, <2>7, <2>8, <2>11 DEF Deletes
    <3>7. /\ server[i].there => Shown(i)'.quantity = server'[i].quantity /\ Shown(i)'.there
          /\ ~server[i].there => ~Shown(i)'.there
      BY <2>7, <2>8, <2>9, <3>2
    <3> QED  BY <2>6, <2>9, <3>4, <3>5, <3>6, <3>7 DEF ItemAgrees
  <2> QED  BY <2>10, <2>11
<1> QED  BY <1>6, <1>7

\* The steps that leave the page as it is, and the requests of item i.
LEMMA AgreesIdle ==
    ASSUME NEW i, Steady(i), server'[i] = server[i], RequestsKeep(i), heap' = heap,
           UNCHANGED <<toasts, pendingToggles, pendingQuantityUpdates>>
    PROVE  ItemAgrees(i)'
<1>1. currentList' = currentList  BY DEF Steady
<1>2. Shown(i)' = Shown(i)  BY <1>1 DEF Shown
<1>3. Pending(currentList, i)' = Pending(currentList, i)  BY <1>1 DEF Pending
<1> QED  BY <1>2, <1>3, AgreesSame

\* A load starts.
LEMMA AgreesStart ==
    ASSUME KnownInv, NEW i, Steady(i), Refresh \/ \E l \in Lists : SelectList(l)
    PROVE  ItemAgrees(i)'
<1>0. TypeInv /\ i # None  BY ListPageAssumption DEF KnownInv, Steady
<1>1. /\ UNCHANGED <<server, heap, toasts, pendingToggles, pendingQuantityUpdates>>
      /\ \E kind, l, at, pc, alone : Start(Load(kind, l, at, pc, alone))
  BY DEF Refresh, SelectList, page, pendings
<1>2. PICK kind, l, at, pc, alone : Start(Load(kind, l, at, pc, alone))  BY <1>1
<1>3. PICK n : n = Load(kind, l, at, pc, alone)  OBVIOUS
<1>4. n.item # i  BY <1>0, <1>3, NewLoads
<1>5. requests' = NotAlone(requests) \cup {n}  BY <1>2, <1>3 DEF Start
<1>6. requests \in SUBSET requests /\ \A q \in requests \ requests : FALSE  OBVIOUS
<1>7. RequestsKeep(i)  BY <1>0, <1>4, <1>5, <1>6, KeepOne
<1> QED  BY <1>1, <1>7, AgreesIdle

\* Another device changes another item.
LEMMA AgreesOtherDevice ==
    ASSUME KnownInv, NEW i, Steady(i), OtherDevice
    PROVE  ItemAgrees(i)'
<1>0. TypeInv  BY DEF KnownInv
<1>1. /\ UNCHANGED <<heap, toasts, pendingToggles, pendingQuantityUpdates>>
      /\ requests' = NotAlone(requests)
  BY DEF OtherDevice, page, pendings
<1>2. PICK j \in Items : /\ server' = [server EXCEPT ![j].done = ~@]
                         /\ astray' = astray \cup {j}
  BY DEF OtherDevice
<1>3. i # j  BY <1>2 DEF Steady
<1>4. server'[i] = server[i]  BY <1>0, <1>2, <1>3 DEF Steady, TypeInv, ServerInv
<1>5. RequestsKeep(i)  BY <1>0, <1>1, KeepAll
<1> QED  BY <1>1, <1>4, <1>5, AgreesIdle

\* A load draws nothing.
LEMMA AgreesLoad ==
    ASSUME KnownInv, NEW i, Steady(i), NEW r \in requests,
           Paint(r) \/ OpenSettles(r) \/ RefreshSettles(r)
    PROVE  ItemAgrees(i)'
<1>0. TypeInv /\ PageInv /\ i # None
  BY ListPageAssumption DEF KnownInv, Steady, TypeInv
<1>1. /\ UNCHANGED <<server, mirror, toasts, pendingToggles, pendingQuantityUpdates>>
      /\ r.item = None /\ r.list \in Lists
      /\ \/ \E l \in Lists : mirror[l] # None /\ Draws(l, mirror[l])
         \/ r.pc = "answered" /\ Draws(r.list, r.answer)
         \/ heap' = heap
  BY <1>0, LoadCases
<1>2. currentList' \in DOMAIN heap  BY DEF Steady
<1>3. \A l \in Lists : \A rows \in [ItemsOf(l) -> Row] : ~Draws(l, rows)
  BY <1>0, <1>2, DrawnNew
<1>4. heap' = heap
  BY <1>0, <1>1, <1>3, DrawnRows
<1>5. RequestsKeep(i)
  <2>1. CASE Paint(r)
    <3>1. \E s : From(s, r) /\ requests' = (requests \ {r}) \cup {s}
      BY <1>0, <2>1, PaintGoesOn
    <3> QED  BY <1>0, <1>1, <3>1, KeepLeft
  <2>2. CASE OpenSettles(r) \/ RefreshSettles(r)
    <3>1. requests' = requests \ {r}  BY <1>0, <2>2, LoadSettles
    <3> QED  BY <1>0, <1>1, <3>1, KeepLeft
  <2> QED  BY <2>1, <2>2
<1> QED  BY <1>1, <1>4, <1>5, AgreesIdle

\* What the server writes for an item.
LEMMA WrittenRow ==
    ASSUME TypeInv, NEW r \in requests, r.item \in Items
    PROVE  LET row == server[r.item] IN
           /\ r.kind = "done" => /\ Written(r).quantity = row.quantity
                                 /\ Written(r).there = row.there
           /\ r.kind = "quantity" => /\ Written(r).done = row.done
                                     /\ Written(r).there = row.there
           /\ r.kind = "delete" => Written(r).there = FALSE
BY DEF TypeInv, ServerInv, Row, Written

\* The server changes the item: its answer is what it has of it now.
LEMMA AgreesServe ==
    ASSUME KnownInv, CrossInv, NEW i, Steady(i), NEW r \in requests, Serve(r)
    PROVE  ItemAgrees(i)'
<1>0. TypeInv /\ i \in Items /\ i # None
  BY ListPageAssumption DEF KnownInv, Steady
<1>1. /\ UNCHANGED <<heap, currentList, toasts, pendingToggles, pendingQuantityUpdates>>
  BY DEF Serve, page, pendings
<1>2. CASE r.item # i
  <2>1. server'[i] = server[i]
    <3>1. CASE r.item = None  BY <1>0, <3>1, LoadServed
    <3>2. CASE r.item # None
      BY <1>0, <1>2, <3>2, ItemServed DEF TypeInv, ServerInv
    <3> QED  BY <3>1, <3>2
  <2>2. \E s : From(s, r) /\ requests' = (requests \ {r}) \cup {s}
    BY <1>0, LoadServed, ItemServed
  <2>3. RequestsKeep(i)  BY <1>2, <2>2, KeepLeft
  <2> QED  BY <1>1, <2>1, <2>3, AgreesIdle
<1>3. CASE r.item = i
  <2>1. r.pc = "sent" /\ r.kind \in {"done", "quantity", "delete"}
    BY <1>0, <1>3, ItemServed
  <2>2. PICK s :
          /\ From(s, r) /\ s.at = r.at /\ s.alone = r.alone
          /\ requests' = (requests \ {r}) \cup {s}
          /\ \/ /\ ~server[r.item].there /\ s.pc = "failed"
                /\ UNCHANGED <<server, mirror>>
             \/ /\ server[r.item].there /\ s.pc = "answered" /\ s.answer = Written(r)
                /\ server' = [server EXCEPT ![r.item] = Written(r)]
                /\ mirror' = [mirror EXCEPT ![ListOf[r.item]] =
                      IF @ = None THEN None ELSE [@ EXCEPT ![r.item] = Written(r)]]
    BY <1>0, <1>3, ItemServed
  <2>3. s.id = r.id /\ s.kind = r.kind /\ s.item = i /\ s.before = r.before
    BY <1>3, <2>2 DEF From
  <2>4. \A q \in requests' : q.item = i => q = s  BY <1>3, <2>2, OneRequest
  <2>5. /\ \A k : Sending(i, k) => k = r.kind
        /\ Sending(i, r.kind)' /\ RequestAgrees(r)
    BY <1>3, <2>2, <2>3, OneRequest DEF Sending, Steady, ItemAgrees
  <2>6. /\ Shown(i)' = Shown(i) /\ Pending(currentList, i)' = Pending(currentList, i)
        /\ \A v : DoneIs(i, v) => DoneIs(i, v)'
    BY <1>1 DEF Shown, Pending, DoneIs
  <2>7. ItemAgrees(i)  BY DEF Steady
  <2>8. CASE ~server[i].there /\ s.pc = "failed" /\ server' = server
    <3>1. r.kind # "delete"  BY <1>3, <2>1, <2>5, <2>8 DEF RequestAgrees
    <3>2. RequestAgrees(s)'  BY <2>3, <2>8, <3>1 DEF RequestAgrees
    <3>3. ~Shown(i)'.there  BY <2>5, <2>6, <2>7, <2>8, <3>1 DEF ItemAgrees
    <3> QED  BY <2>4, <2>8, <3>2, <3>3 DEF ItemAgrees
  <2>9. CASE server[i].there /\ s.pc = "answered" /\ s.answer = Written(r)
             /\ server' = [server EXCEPT ![i] = Written(r)]
    <3>1. server'[i] = Written(r)  BY <1>0, <2>9 DEF TypeInv, ServerInv
    <3>2. /\ r.kind = "done" => /\ server'[i].quantity = server[i].quantity
                                /\ server'[i].there
          /\ r.kind = "quantity" => /\ server'[i].done = server[i].done
                                    /\ server'[i].there
          /\ r.kind = "delete" => server'[i].there = FALSE
      BY <1>0, <1>3, <2>9, <3>1, WrittenRow
    <3>3. RequestAgrees(s)'
      <4>1. r.kind = "quantity" => \E m \in pendingQuantityUpdates : m.request = r.id
        BY <1>3, <2>5, <2>9 DEF RequestAgrees
      <4> QED  BY <1>1, <2>3, <2>9, <3>1, <3>2, <4>1 DEF RequestAgrees
    <3>4. CASE r.kind = "delete"
      BY <2>4, <2>5, <3>2, <3>3, <3>4 DEF ItemAgrees
    <3>5. CASE r.kind # "delete"
      <4>1. /\ r.kind = "done" \/ DoneIs(i, server[i].done)
            /\ r.kind = "quantity" \/ Shown(i).quantity = server[i].quantity
            /\ Shown(i).there
            /\ ~Shown(i).hidden \/ \E t \in toasts : Deletes(t, currentList, i)
        BY <2>5, <2>7, <2>9, <3>5 DEF ItemAgrees
      <4>2. /\ r.kind = "done" \/ DoneIs(i, server[i].done)'
            /\ r.kind = "quantity" \/ Shown(i)'.quantity = server'[i].quantity
            /\ r.kind = "done" \/ server'[i].done = server[i].done
            /\ Shown(i)'.there /\ server'[i].there
            /\ ~Shown(i)'.hidden \/ \E t \in toasts' : Deletes(t, currentList', i)
        <5>1. PICK v : v = server[i].done  OBVIOUS
        <5>2. r.kind = "quantity" => DoneIs(i, v)' /\ server'[i].done = v
          BY <2>6, <3>2, <4>1, <5>1
        <5>3. r.kind = "done" \/ DoneIs(i, server[i].done)'  BY <2>1, <3>5, <5>2 DEF DoneIs
        <5> QED  BY <1>1, <2>1, <2>6, <3>2, <3>5, <4>1, <5>3
      <4> QED  BY <2>4, <2>5, <3>3, <4>2 DEF ItemAgrees
    <3> QED  BY <3>4, <3>5
  <2> QED  BY <1>3, <2>2, <2>8, <2>9
<1> QED  BY <1>2, <1>3

\* A request that is refused has changed nothing on the server.
LEMMA AgreesFail ==
    ASSUME KnownInv, CrossInv, NEW i, Steady(i), NEW r \in requests, Fail(r)
    PROVE  ItemAgrees(i)'
<1>0. TypeInv  BY DEF KnownInv
<1>1. UNCHANGED <<server, heap, currentList, toasts, pendingToggles, pendingQuantityUpdates>>
  BY DEF Fail, page, pendings
<1>2. r.pc = "sent"  BY DEF Fail
<1>3. PICK s : /\ From(s, r) /\ s.pc = "failed" /\ requests' = (requests \ {r}) \cup {s}
  BY <1>0, FailGoesOn
<1>4. CASE r.item # i
  <2>1. RequestsKeep(i)  BY <1>3, <1>4, KeepLeft
  <2> QED  BY <1>1, <2>1, AgreesIdle
<1>5. CASE r.item = i
  <2>1. /\ s.id = r.id /\ s.kind = r.kind /\ s.item = i /\ s.before = r.before
    BY <1>3, <1>5 DEF From
  <2>2. ItemAgrees(i) /\ RequestAgrees(r)  BY <1>5 DEF Steady, ItemAgrees
  <2>3. RequestAgrees(s)'  BY <1>1, <1>2, <1>3, <1>5, <2>1, <2>2 DEF RequestAgrees
  <2>4. \A q \in requests' : q.item = i => RequestAgrees(q)'
    BY <1>3, <1>5, <2>3, OneRequest
  <2>5. \A k : Sending(i, k) => Sending(i, k)'
    BY <1>3, <1>5, <2>1, OneRequest DEF Sending
  <2>6. /\ Shown(i)' = Shown(i) /\ \A v : DoneIs(i, v) => DoneIs(i, v)'
    BY <1>1 DEF Shown, Pending, DoneIs
  <2> QED  BY <1>1, <2>2, <2>4, <2>5, <2>6, AgreesShown
<1> QED  BY <1>4, <1>5

\* A request about another item settles.
LEMMA AgreesBeside ==
    ASSUME NEW i, Steady(i), NEW r \in requests, r.item # i, server' = server,
           Edited(r.at, {r.item}), UNCHANGED <<toasts, pendingToggles>>, RequestsKeep(i),
           \A q \in requests : q.item = i /\ q.kind = "quantity" =>
             \A m \in pendingQuantityUpdates : m.request = q.id =>
                 \E n \in pendingQuantityUpdates' : n.request = q.id
    PROVE  ItemAgrees(i)'
<1>1. Shown(i)' = Shown(i)  BY SameShown
<1>2. Pending(currentList, i)' = Pending(currentList, i)  BY DEF Steady, Pending
<1> QED  BY <1>1, <1>2, AgreesSame

\* The only request about item i settles, and leaves it as the server has it.
LEMMA AgreesSettled ==
    ASSUME NEW i, Steady(i), server' = server, \A q \in requests' : q.item # i,
           ~server[i].there => ~Shown(i)'.there,
           server[i].there =>
             /\ DoneIs(i, server[i].done)'
             /\ Shown(i)'.quantity = server[i].quantity
             /\ Shown(i)'.there
             /\ ~Shown(i)'.hidden \/ \E t \in toasts' : Deletes(t, currentList', i)
    PROVE  ItemAgrees(i)'
BY DEF ItemAgrees

\* The answer to a check-off is drawn, or what it had before is put back.
LEMMA AgreesToggleSettles ==
    ASSUME KnownInv, CrossInv, NEW i, Steady(i), NEW r \in requests, ToggleSettles(r)
    PROVE  ItemAgrees(i)'
<1>0. TypeInv  BY DEF KnownInv
<1>1. /\ UNCHANGED <<server, currentList, toasts, pendingToggles, pendingQuantityUpdates>>
      /\ requests' = requests \ {r} /\ r.kind = "done" /\ astray' = Overwritten(r)
  BY DEF ToggleSettles, pendings
<1>2. /\ r.item \in Items /\ r.at \in DOMAIN heap /\ r.item \in ItemsOf(heap[r.at].list)
      /\ r.pc \in {"answered", "failed"} /\ Edited(r.at, {r.item})
      /\ Looks(heap'[r.at].items[r.item],
               IF r.pc = "failed" THEN r.before ELSE r.answer.done,
               IF r.pc = "failed" THEN ObjectAt(r.at, r.item).quantity ELSE r.answer.quantity,
               ObjectAt(r.at, r.item).there, ObjectAt(r.at, r.item).hidden)
  BY <1>0, ToggleAnswered
<1>3. CASE r.item # i
  <2>1. RequestsKeep(i)  BY <1>1, <1>3, KeepLeft
  <2> QED  BY <1>1, <1>2, <1>3, <2>1, AgreesBeside
<1>4. CASE r.item = i
  <2>1. r.at = currentList /\ ItemAgrees(i)  BY <1>4 DEF Steady
  <2>2. /\ \A q \in requests' : q.item # i
        /\ ~Sending(i, "quantity") /\ ~Sending(i, "delete")
    BY <1>1, <1>4, OneRequest
  <2>3. Looks(Shown(i)', IF r.pc = "failed" THEN r.before ELSE r.answer.done,
              IF r.pc = "failed" THEN Shown(i).quantity ELSE r.answer.quantity,
              Shown(i).there, Shown(i).hidden)
    BY <1>1, <1>2, <1>4, <2>1 DEF Shown, ObjectAt
  <2>4. Pending(currentList, i)' = {}
    BY <1>1, <1>4, <2>1 DEF Overwritten, Steady, Pending
  <2>5. RequestAgrees(r)  BY <1>4, <2>1 DEF ItemAgrees
  <2>6. server[i].there =>
          /\ Shown(i)'.done = server[i].done /\ Shown(i)'.quantity = server[i].quantity
    BY <1>1, <1>2, <1>4, <2>1, <2>2, <2>3, <2>5 DEF RequestAgrees, ItemAgrees, Looks
  <2>7. server[i].there => DoneIs(i, server[i].done)'  BY <1>1, <2>4, <2>6 DEF DoneIs
  <2>8. /\ ~server[i].there => ~Shown(i)'.there
        /\ server[i].there =>
             /\ Shown(i)'.there
             /\ ~Shown(i)'.hidden \/ \E t \in toasts' : Deletes(t, currentList', i)
    BY <1>1, <2>1, <2>2, <2>3 DEF ItemAgrees, Looks
  <2> QED  BY <1>1, <2>2, <2>6, <2>7, <2>8, AgreesSettled
<1> QED  BY <1>3, <1>4

\* The answer to a quantity that is still the last one.
LEMMA AgreesQuantitySettles ==
    ASSUME KnownInv, CrossInv, SoleInv, NEW i, Steady(i), NEW r \in requests,
           QuantitySettles(r)
    PROVE  ItemAgrees(i)'
<1>0. TypeInv  BY DEF KnownInv
<1>1. /\ UNCHANGED <<server, currentList, toasts, pendingToggles>>
      /\ requests' = requests \ {r} /\ r.kind = "quantity" /\ r.pc \in {"answered", "failed"}
      /\ pendingQuantityUpdates' =
            pendingQuantityUpdates \ {p \in pendingQuantityUpdates : p.request = r.id}
  BY DEF QuantitySettles, Answered
<1>2. ASSUME \E m \in pendingQuantityUpdates : m.request = r.id
      PROVE  /\ Edited(r.at, {r.item})
             /\ Looks(heap'[r.at].items[r.item],
                      IF r.pc = "failed" THEN ObjectAt(r.at, r.item).done ELSE r.answer.done,
                      IF r.pc = "failed" THEN r.before ELSE r.answer.quantity,
                      ObjectAt(r.at, r.item).there, ObjectAt(r.at, r.item).hidden)
             /\ astray' = Overwritten(r)
  BY <1>0, <1>2, QuantityAnswered
<1>3. ASSUME \A m \in pendingQuantityUpdates : m.request # r.id
      PROVE  heap' = heap
  BY <1>3 DEF QuantitySettles
<1>4. CASE r.item # i
  <2>1. RequestsKeep(i)  BY <1>1, <1>4, KeepLeft
  <2>2. Edited(r.at, {r.item})  BY <1>2, <1>3 DEF Edited
  <2>3. ASSUME NEW q \in requests, q.item = i, q.kind = "quantity",
               NEW m \in pendingQuantityUpdates, m.request = q.id
        PROVE  m \in pendingQuantityUpdates'
    <3>1. q.id # r.id  BY <1>1, <1>4, <2>3 DEF SoleInv
    <3> QED  BY <1>1, <2>3, <3>1
  <2> QED  BY <1>1, <1>4, <2>1, <2>2, <2>3, AgreesBeside
<1>5. CASE r.item = i
  <2>1. r.at = currentList /\ ItemAgrees(i)  BY <1>5 DEF Steady
  <2>2. /\ \A q \in requests' : q.item # i
        /\ ~Sending(i, "done") /\ ~Sending(i, "delete")
    BY <1>1, <1>5, OneRequest
  <2>3. RequestAgrees(r)  BY <1>5, <2>1 DEF ItemAgrees
  <2>4. CASE \E m \in pendingQuantityUpdates : m.request = r.id
    <3>1. Looks(Shown(i)', IF r.pc = "failed" THEN Shown(i).done ELSE r.answer.done,
                IF r.pc = "failed" THEN r.before ELSE r.answer.quantity,
                Shown(i).there, Shown(i).hidden)
      BY <1>1, <1>2, <1>5, <2>1, <2>4 DEF Shown, ObjectAt
    <3>2. Pending(currentList, i) = {} /\ Pending(currentList, i)' = {}
      BY <1>1, <1>2, <1>5, <2>1, <2>4 DEF Overwritten, Steady, Pending
    <3>3. server[i].there =>
            /\ Shown(i)'.done = server[i].done /\ Shown(i)'.quantity = server[i].quantity
      BY <1>1, <1>5, <2>1, <2>2, <2>3, <3>1, <3>2 DEF RequestAgrees, ItemAgrees, Looks, DoneIs
    <3>4. server[i].there => DoneIs(i, server[i].done)'  BY <1>1, <3>2, <3>3 DEF DoneIs
    <3>5. /\ ~server[i].there => ~Shown(i)'.there
          /\ server[i].there =>
               /\ Shown(i)'.there
               /\ ~Shown(i)'.hidden \/ \E t \in toasts' : Deletes(t, currentList', i)
      BY <1>1, <2>1, <2>2, <3>1 DEF ItemAgrees, Looks
    <3> QED  BY <1>1, <2>2, <3>3, <3>4, <3>5, AgreesSettled
  <2>5. CASE \A m \in pendingQuantityUpdates : m.request # r.id
    <3>1. ~server[i].there  BY <1>1, <1>5, <2>3, <2>5 DEF RequestAgrees
    <3>2. ~Shown(i)'.there  BY <1>1, <1>3, <2>1, <2>2, <2>5, <3>1 DEF ItemAgrees, Shown
    <3> QED  BY <1>1, <2>2, <3>1, <3>2, AgreesSettled
  <2> QED  BY <2>4, <2>5
<1> QED  BY <1>4, <1>5

\* The answer to a deletion: the item is gone, or drawn again.
LEMMA AgreesDeleteSettles ==
    ASSUME KnownInv, CrossInv, NEW i, Steady(i), NEW r \in requests, DeleteSettles(r)
    PROVE  ItemAgrees(i)'
<1>0. TypeInv /\ i # None  BY ListPageAssumption DEF KnownInv, Steady
<1>1. /\ UNCHANGED <<server, currentList, toasts, pendingToggles, pendingQuantityUpdates>>
      /\ r.kind = "delete"
  BY DEF DeleteSettles, pendings
<1>2. /\ r.item \in Items /\ r.at \in DOMAIN heap /\ r.item \in ItemsOf(heap[r.at].list)
      /\ r.pc \in {"answered", "failed"} /\ Edited(r.at, {r.item})
      /\ Looks(heap'[r.at].items[r.item], ObjectAt(r.at, r.item).done,
               ObjectAt(r.at, r.item).quantity, r.pc = "failed",
               r.pc # "failed" /\ ObjectAt(r.at, r.item).hidden)
  BY <1>0, DeleteAnswered
<1>3. \/ requests' = requests \ {r}
      \/ \E q : q.item # i /\ requests' = NotAlone(requests \ {r}) \cup {q}
  BY <1>0, DeleteLoads, NewLoads
<1>4. requests \ {r} \in SUBSET requests /\ \A q \in requests \ (requests \ {r}) : q = r
  OBVIOUS
<1>5. CASE r.item # i
  <2>1. RequestsKeep(i)  BY <1>0, <1>3, <1>4, <1>5, KeepLeft, KeepOne
  <2> QED  BY <1>1, <1>2, <1>5, <2>1, AgreesBeside
<1>6. CASE r.item = i
  <2>1. r.at = currentList /\ ItemAgrees(i)  BY <1>6 DEF Steady
  <2>2. /\ \A q \in requests \ {r} : q.item # i
        /\ ~Sending(i, "done") /\ ~Sending(i, "quantity")
    BY <1>1, <1>6, OneRequest
  <2>3. \A q \in requests' : q.item # i
    <3>1. \A s \in NotAlone(requests \ {r}) : \E p \in requests \ {r} : Like(s, p)
      BY <1>0, <1>4, MarkedLike
    <3>2. \A s \in NotAlone(requests \ {r}) : s.item # i
      BY <2>2, <3>1 DEF Like, From
    <3> QED  BY <1>3, <2>2, <3>2
  <2>4. RequestAgrees(r)  BY <1>6, <2>1 DEF ItemAgrees
  <2>5. Looks(Shown(i)', Shown(i).done, Shown(i).quantity, r.pc = "failed",
              r.pc # "failed" /\ Shown(i).hidden)
    BY <1>1, <1>2, <1>6, <2>1 DEF Shown, ObjectAt
  <2>6. server[i].there = (r.pc = "failed")
    BY <1>1, <1>2, <1>6, <2>4 DEF RequestAgrees
  <2>7. /\ Shown(i)'.there = (r.pc = "failed")
        /\ Shown(i)'.done = Shown(i).done /\ Shown(i)'.quantity = Shown(i).quantity
        /\ r.pc = "failed" => ~Shown(i)'.hidden
    BY <2>5 DEF Looks
  <2>8. server[i].there =>
          /\ DoneIs(i, server[i].done) /\ Shown(i).quantity = server[i].quantity
    BY <2>1, <2>2 DEF ItemAgrees
  <2>9. server[i].there => DoneIs(i, server[i].done)'
    BY <1>1, <2>7, <2>8 DEF DoneIs, Pending
  <2> QED  BY <1>1, <2>3, <2>6, <2>7, <2>8, <2>9, AgreesSettled
<1> QED  BY <1>5, <1>6

\* Every step keeps what is drawn and the server in agreement.
LEMMA AgreeNext ==
    ASSUME KnownInv, KeyInv, CrossInv, AloneInv, MirrorInv, AnswerInv, OpenInv, HiddenInv,
           QuantityInv, SoleInv, PlaceInv, AgreeInv, [Next]_vars
    PROVE  AgreeInv'
<1>0. TypeInv /\ PageInv  BY DEF KnownInv, TypeInv
<1> SUFFICES ASSUME NEW i \in Items, Drawn(i)', i \notin dropped'
             PROVE  ItemAgrees(i)'
  BY DEF AgreeInv
<1>1. CASE Fresh(i)  BY <1>1, AgreesFresh
<1>2. CASE /\ currentList' = currentList /\ Drawn(i) /\ i \notin astray
           /\ i \notin dropped
  <2>1. currentList # 0 /\ i \in ItemsOf(heap[currentList].list)  BY <1>2 DEF Drawn
  <2>2. currentList \in DOMAIN heap  BY <1>0, <2>1, LenProperties DEF PageInv
  <2>3. i \notin astray'  BY DEF Drawn
  <2>4. Steady(i)  BY <1>2, <2>1, <2>2, <2>3 DEF Steady, AgreeInv, PlaceInv
  <2>5. ASSUME NEW S \in SUBSET Items, NEW bulk \in BOOLEAN, Toggle(S, bulk) \/ Remove(S, bulk)
        PROVE  ItemAgrees(i)'
    BY <2>4, <2>5, AgreesToggle, AgreesRemove
  <2>6. CASE \E j \in Items : Toggle({j}, FALSE) \/ Remove({j}, FALSE)  BY <2>5, <2>6
  <2>7. CASE \E S \in Selections : Toggle(S, TRUE) \/ Remove(S, TRUE)
    BY <2>5, <2>7, ListPageAssumption
  <2>8. CASE \E j \in Items, quantity \in 1 .. MaxQuantity : ChangeQuantity(j, quantity)
    BY <2>4, <2>8, AgreesQuantity
  <2>9. CASE \E t \in toasts : Undo(t) \/ Commit(t)
    BY <2>4, <2>9, AgreesUndo, AgreesCommit
  <2>10. CASE (\E l \in Lists : SelectList(l)) \/ Refresh  BY <2>4, <2>10, AgreesStart
  <2>11. CASE ShowDashboard  BY <1>2, <2>1, <2>11 DEF ShowDashboard
  <2>12. CASE OtherDevice  BY <2>4, <2>12, AgreesOtherDevice
  <2>13. CASE \E r \in requests : Paint(r) \/ OpenSettles(r) \/ RefreshSettles(r)
    BY <2>4, <2>13, AgreesLoad
  <2>14. CASE \E r \in requests : Serve(r) \/ Fail(r)
    BY <2>4, <2>14, AgreesServe, AgreesFail
  <2>15. CASE \E r \in requests : ToggleSettles(r) \/ QuantitySettles(r) \/ DeleteSettles(r)
    BY <2>4, <2>15, AgreesToggleSettles, AgreesQuantitySettles, AgreesDeleteSettles
  <2>16. CASE UNCHANGED vars
    <3>1. /\ server' = server /\ heap' = heap
          /\ UNCHANGED <<toasts, pendingToggles, pendingQuantityUpdates>>
          /\ requests' = requests
      BY <2>16 DEF vars, page, pendings
    <3>2. RequestsKeep(i)  BY <3>1 DEF RequestsKeep, Like, From
    <3> QED  BY <2>4, <3>1, <3>2, AgreesIdle
  <2> QED  BY <2>6, <2>7, <2>8, <2>9, <2>10, <2>11, <2>12, <2>13, <2>14, <2>15, <2>16
          DEF Next, Settles
<1> QED  BY <1>1, <1>2, DrawnCases

-----------------------------------------------------------------------------
(* The dashboard's cards *)

\* What becomes of the card of list l: it stays, its snapshot goes, or a new one is taken.
CardStays(l) == overrides'[l] = overrides[l] \/ overrides'[l] = None
CardTaken(l) == \E at, all : overrides'[l] = SnapshotOf(heap', at, all)

\* A change that is reported is on the card of its list; the others stay.
LEMMA NotifiedCards ==
    ASSUME CardsInv, NEW l, l = None \/ l \in Lists, NEW at, NEW all,
           overrides' = Notified(l, heap', at, all)
    PROVE  /\ CardsInv'
           /\ \A m \in Lists : IF m = l THEN CardTaken(m) ELSE CardStays(m)
<1>1. PICK card : card = SnapshotOf(heap', at, all)  OBVIOUS
<1>2. overrides' = IF l = None THEN overrides ELSE [overrides EXCEPT ![l] = card]
  BY <1>1 DEF Notified
<1>3. \A m \in Lists : m # None  BY ListPageAssumption
<1> QED  BY <1>1, <1>2, <1>3 DEF CardsInv, CardTaken, CardStays

\* Once every request has settled the card is cleared; the others stay.
LEMMA ClearedCards ==
    ASSUME CardsInv, NEW l, l = None \/ l \in Lists,
           overrides' = overrides \/ overrides' = Cleared(l)
    PROVE  CardsInv' /\ \A m \in Lists : CardStays(m)
BY DEF CardsInv, CardStays, Cleared

\* A toggle that waits is seen in a snapshot of its list object that is taken now.
LEMMA CardNow ==
    ASSUME KnownInv', HiddenInv', OppositeInv', NEW p \in pendingToggles', p.item \notin astray',
           NEW at, NEW all, at = p.at
    PROVE  (p.item \in SnapshotOf(heap', at, all).done) = ~p.before
<1>1. /\ p.at \in DOMAIN heap' /\ p.item \in ItemsOf(heap'[p.at].list) /\ p.before \in BOOLEAN
      /\ PageInv'
  BY DEF KnownInv, TypeInv, WaitingInv, ToggleShape
<1>2. DOMAIN heap'[p.at].items = ItemsOf(heap'[p.at].list)
  BY <1>1 DEF PageInv, ListObjects
<1>3. /\ heap'[p.at].items[p.item].there /\ ~heap'[p.at].items[p.item].hidden
      /\ heap'[p.at].items[p.item].done = ~p.before
  BY DEF HiddenInv, ToggleSeen, OppositeInv, ObjectAt
<1>4. PICK S : S = {i \in DOMAIN heap'[p.at].items :
                      heap'[p.at].items[i].there /\ (all \/ ~heap'[p.at].items[i].hidden)
                      /\ heap'[p.at].items[i].done}
  OBVIOUS
<1>5. SnapshotOf(heap', at, all).done = S  BY <1>4 DEF SnapshotOf
<1>6. CASE p.before
  <2>1. heap'[p.at].items[p.item].done = FALSE  BY <1>3, <1>6
  <2>2. p.item \notin S  BY <1>4, <2>1
  <2> QED  BY <1>5, <1>6, <2>2
<1>7. CASE ~p.before
  <2>1. heap'[p.at].items[p.item].done = TRUE  BY <1>3, <1>7
  <2>2. p.item \in S  BY <1>1, <1>2, <1>3, <1>4, <2>1
  <2> QED  BY <1>5, <1>7, <2>2
<1> QED  BY <1>6, <1>7

\* The toast of a toggle that waits, in the next state, is the one it waited with, or the
\* card of its list is new.
LEMMA CardsKept ==
    ASSUME KnownInv', HiddenInv', OppositeInv', CardShowsPending, astray \subseteq astray',
           \A t \in toasts', p \in pendingToggles' : p.toast = t.id /\ t.list \in Lists =>
               \/ t \in toasts /\ p \in pendingToggles /\ CardStays(t.list)
               \/ CardTaken(t.list)
    PROVE  CardShowsPending'
<1> SUFFICES ASSUME NEW t \in toasts', NEW p \in pendingToggles',
                    p.toast = t.id, t.list # None, p.item \notin astray'
             PROVE  \/ overrides'[t.list] = None \/ overrides'[t.list].at # p.at
                    \/ (p.item \in overrides'[t.list].done) = ~p.before
  BY DEF CardShowsPending
<1>1. t.list \in Lists
  BY DEF KnownInv, TypeInv, WaitingInv, ToastShape, Toast
<1>2. CASE t \in toasts /\ p \in pendingToggles /\ CardStays(t.list)
  BY <1>2 DEF CardShowsPending, CardStays
<1>3. CASE CardTaken(t.list)
  <2>1. PICK at, all : overrides'[t.list] = SnapshotOf(heap', at, all)  BY <1>3 DEF CardTaken
  <2>2. overrides'[t.list].at = at  BY <2>1 DEF SnapshotOf
  <2>3. at = p.at => (p.item \in SnapshotOf(heap', at, all).done) = ~p.before  BY CardNow
  <2> QED  BY <2>1, <2>2, <2>3
<1> QED  BY <1>1, <1>2, <1>3

\* No toggle waits with a toast still to be made.
LEMMA OldToggles ==
    ASSUME KnownInv, NEW p \in pendingToggles
    PROVE  p.toast # seq + 1
<1>1. PICK t \in toasts : Waits(p, t)  BY DEF KnownInv, ToastInv, WaitsInv
<1>2. t.id \in 1 .. seq /\ seq \in Nat  BY DEF KnownInv, IdInv, TypeInv, PageInv
<1> QED  BY <1>1, <1>2 DEF Waits

\* Every step keeps what waits on the card it was reported to.
LEMMA CardsNext ==
    ASSUME KnownInv, KnownInv', HiddenInv', OppositeInv', AloneInv, CardsInv, CardShowsPending,
           [Next]_vars
    PROVE  CardsInv' /\ CardShowsPending'
<1>0. TypeInv  BY DEF KnownInv
<1>1. currentListId = None \/ currentListId \in Lists  BY <1>0 DEF TypeInv, PageInv
<1>2. ASSUME astray \subseteq astray', toasts' \subseteq toasts,
             pendingToggles' \subseteq pendingToggles, CardsInv',
             \A l \in Lists : CardStays(l) \/ CardTaken(l)
      PROVE  CardsInv' /\ CardShowsPending'
  BY <1>2, CardsKept
<1>3. ASSUME astray \subseteq astray', toasts' \subseteq toasts,
             pendingToggles' \subseteq pendingToggles,
             \E l : (l = None \/ l \in Lists) /\ (overrides' = overrides \/ overrides' = Cleared(l))
      PROVE  CardsInv' /\ CardShowsPending'
  BY <1>2, <1>3, ClearedCards
<1>4. ASSUME NEW S \in SUBSET Items, NEW bulk \in BOOLEAN, Toggle(S, bulk)
      PROVE  CardsInv' /\ CardShowsPending'
  <2>1. overrides' = Notified(currentListId, heap', currentList, TRUE) /\ astray' = astray
    BY <1>4 DEF Toggle
  <2>2. PICK ids, toast :
          /\ toast.id = seq + 1 /\ toast.list = currentListId
          /\ toasts' \subseteq toasts \cup {toast}
          /\ pendingToggles' \subseteq pendingToggles \cup ids
          /\ \A p \in ids : p.toast = seq + 1
    <3>1. PICK value \in BOOLEAN : \E before, toast :
        /\ currentList \in DOMAIN heap /\ S \subseteq ItemsOf(heap[currentList].list)
        /\ \A i \in S :
             /\ Shown(i).there /\ ~Shown(i).hidden /\ before[i] \in BOOLEAN
             /\ Pending(currentList, i) = {} => before[i] = Shown(i).done
             /\ Pending(currentList, i) # {} =>
                    \E p \in Pending(currentList, i) : before[i] = p.before
        /\ Edited(currentList, S)
        /\ \A i \in S : Looks(heap'[currentList].items[i], value, Shown(i).quantity,
                              Shown(i).there, Shown(i).hidden)
        /\ toast.id = seq + 1 /\ toast.kind = "done" /\ toast.at = currentList
        /\ toast.list = currentListId /\ toast.ids = {i \in S : before[i] # value}
        /\ toasts' \subseteq toasts \cup {toast}
        /\ \A t \in toasts \ toasts' : t \in Superseded(S)
        /\ pendingToggles' = Without(pendingToggles, currentList, S) \cup
             {[at |-> currentList, item |-> i, toast |-> seq + 1, before |-> before[i]] :
                 i \in toast.ids}
      BY <1>0, <1>4, ToggleMarks
    <3>2. PICK before, toast :
        /\ currentList \in DOMAIN heap /\ S \subseteq ItemsOf(heap[currentList].list)
        /\ \A i \in S :
             /\ Shown(i).there /\ ~Shown(i).hidden /\ before[i] \in BOOLEAN
             /\ Pending(currentList, i) = {} => before[i] = Shown(i).done
             /\ Pending(currentList, i) # {} =>
                    \E p \in Pending(currentList, i) : before[i] = p.before
        /\ Edited(currentList, S)
        /\ \A i \in S : Looks(heap'[currentList].items[i], value, Shown(i).quantity,
                              Shown(i).there, Shown(i).hidden)
        /\ toast.id = seq + 1 /\ toast.kind = "done" /\ toast.at = currentList
        /\ toast.list = currentListId /\ toast.ids = {i \in S : before[i] # value}
        /\ toasts' \subseteq toasts \cup {toast}
        /\ \A t \in toasts \ toasts' : t \in Superseded(S)
        /\ pendingToggles' = Without(pendingToggles, currentList, S) \cup
             {[at |-> currentList, item |-> i, toast |-> seq + 1, before |-> before[i]] :
                 i \in toast.ids}
      BY <3>1
    <3>3. PICK ids : ids =
             {[at |-> currentList, item |-> i, toast |-> seq + 1, before |-> before[i]] :
                 i \in toast.ids}
      OBVIOUS
    <3>4. \A p \in ids : p.toast = seq + 1  BY <3>3
    <3>5. pendingToggles' \subseteq pendingToggles \cup ids  BY <3>2, <3>3 DEF Without
    <3> QED  BY <3>2, <3>4, <3>5
  <2>3. CardsInv' /\ \A m \in Lists : IF m = currentListId THEN CardTaken(m) ELSE CardStays(m)
    BY <1>1, <2>1, NotifiedCards
  <2>4. ASSUME NEW t \in toasts', NEW p \in pendingToggles', p.toast = t.id, t.list \in Lists
        PROVE  \/ t \in toasts /\ p \in pendingToggles /\ CardStays(t.list)
               \/ CardTaken(t.list)
    <3>1. CASE t = toast  BY <2>2, <2>3, <2>4, <3>1
    <3>2. CASE t # toast
      <4>1. t \in toasts /\ t.id # seq + 1
        BY <2>2, <3>2 DEF KnownInv, IdInv, TypeInv, PageInv
      <4>2. p \in pendingToggles  BY <2>2, <2>4, <4>1
      <4> QED  BY <2>3, <2>4, <4>1, <4>2
    <3> QED  BY <3>1, <3>2
  <2> QED  BY <2>1, <2>3, <2>4, CardsKept
<1>5. ASSUME NEW S \in SUBSET Items, NEW bulk \in BOOLEAN, Remove(S, bulk)
      PROVE  CardsInv' /\ CardShowsPending'
  <2>1. /\ overrides' = Notified(heap[currentList].list, heap', currentList, FALSE)
        /\ astray' = astray /\ pendingToggles' \subseteq pendingToggles
    BY <1>5 DEF Remove, Without
  <2>2. PICK toast :
        /\ currentList \in DOMAIN heap /\ S \subseteq ItemsOf(heap[currentList].list)
        /\ \A i \in S : Shown(i).there /\ ~Shown(i).hidden
        /\ Edited(currentList, S)
        /\ \A i \in S : Looks(heap'[currentList].items[i], Shown(i).done, Shown(i).quantity,
                              Shown(i).there, TRUE)
        /\ toast.id = seq + 1 /\ toast.kind = "delete" /\ toast.at = currentList
        /\ toast.ids = S
        /\ toasts' = (toasts \ Superseded(S)) \cup {toast}
    BY <1>0, <1>5, RemoveHides
  <2>3. heap[currentList].list \in Lists  BY <1>0, <2>2, HeapObjects DEF TypeInv
  <2>4. CardsInv' /\ \A m \in Lists : CardTaken(m) \/ CardStays(m)
    BY <2>1, <2>3, NotifiedCards
  <2>5. \A t \in toasts', p \in pendingToggles' : p.toast = t.id =>
          t \in toasts /\ p \in pendingToggles
    BY <2>1, <2>2, OldToggles
  <2> QED  BY <2>1, <2>4, <2>5, CardsKept
<1>6. ASSUME NEW t \in toasts, Undo(t) PROVE CardsInv' /\ CardShowsPending'
  <2>1. /\ overrides' = Notified(t.list, heap', t.at, t.kind = "done")
        /\ astray' = astray /\ pendingToggles' \subseteq pendingToggles
        /\ toasts' \subseteq toasts
    BY <1>6 DEF Undo, Without, Closed
  <2>2. t.list = None \/ t.list \in Lists
    BY <1>0 DEF TypeInv, WaitingInv, ToastShape, Toast
  <2>3. CardsInv' /\ \A m \in Lists : CardTaken(m) \/ CardStays(m)
    BY <2>1, <2>2, NotifiedCards
  <2> QED  BY <1>2, <2>1, <2>3
<1>7. ASSUME NEW t \in toasts, Commit(t) PROVE CardsInv' /\ CardShowsPending'
  <2>1. /\ overrides' = overrides \/ overrides' = Cleared(t.list)
        /\ astray \subseteq astray' /\ pendingToggles' \subseteq pendingToggles
        /\ toasts' \subseteq toasts
    BY <1>7 DEF Commit, Without, Closed
  <2>2. t.list = None \/ t.list \in Lists
    BY <1>0 DEF TypeInv, WaitingInv, ToastShape, Toast
  <2> QED  BY <1>3, <2>1, <2>2
<1>8. ASSUME NEW r \in requests, ToggleSettles(r) \/ DeleteSettles(r)
      PROVE  CardsInv' /\ CardShowsPending'
  <2>1. /\ overrides' = overrides \/ overrides' = Cleared(r.list)
        /\ astray \subseteq astray' /\ UNCHANGED <<toasts, pendingToggles>>
    BY <1>8 DEF ToggleSettles, DeleteSettles, Overwritten, pendings
  <2>2. r.list = None \/ r.list \in Lists
    BY <1>0 DEF TypeInv, RequestsInv, RequestShape, Requests
  <2> QED  BY <1>3, <2>1, <2>2
<1>9. ASSUME overrides' = overrides, UNCHANGED <<toasts, pendingToggles>>,
             astray \subseteq astray' \/ toasts = {}
      PROVE  CardsInv' /\ CardShowsPending'
  <2>1. CASE astray \subseteq astray'  BY <1>3, <1>9, <2>1
  <2>2. CASE toasts = {}  BY <1>9, <2>2 DEF CardShowsPending, CardsInv
  <2> QED  BY <1>9, <2>1, <2>2
<1>10. CASE \/ (\E i \in Items, quantity \in 1 .. MaxQuantity : ChangeQuantity(i, quantity))
            \/ (\E l \in Lists : SelectList(l)) \/ Refresh \/ ShowDashboard \/ OtherDevice
            \/ (\E r \in requests : Paint(r) \/ Serve(r) \/ Fail(r) \/ QuantitySettles(r))
            \/ UNCHANGED vars
  BY <1>9, <1>10 DEF ChangeQuantity, SelectList, Refresh, Start, ShowDashboard, OtherDevice,
     Paint, Serve, Fail, QuantitySettles, Overwritten, pendings, vars
<1>11. ASSUME NEW r \in requests, OpenSettles(r) \/ RefreshSettles(r)
       PROVE  CardsInv' /\ CardShowsPending'
  <2>1. UNCHANGED <<toasts, pendingToggles, overrides>> /\ (r.alone \/ astray \subseteq astray')
    BY <1>0, <1>11, LoadSettles
  <2>2. r.alone => toasts = {}  BY DEF AloneInv
  <2> QED  BY <1>9, <2>1, <2>2
<1>12. CASE \E i \in Items : Toggle({i}, FALSE) \/ Remove({i}, FALSE)  BY <1>4, <1>5, <1>12
<1>13. CASE \E S \in Selections : Toggle(S, TRUE) \/ Remove(S, TRUE)
  BY <1>4, <1>5, <1>13, ListPageAssumption
<1> QED  BY <1>6, <1>7, <1>8, <1>10, <1>11, <1>12, <1>13 DEF Next, Settles

-----------------------------------------------------------------------------
(* The page *)

\* At first nothing waits, and what is drawn is the server's.
LEMMA PagesInit ==
    ASSUME Init
    PROVE  PagesInv
<1>1. /\ requests = {} /\ toasts = {} /\ pendingToggles = {} /\ pendingQuantityUpdates = {}
      /\ overrides = [l \in Lists |-> None] /\ server = [i \in Items |-> NewRow]
      /\ \A l \in Lists : mirror[l] # None => mirror[l] = ServerList(l)
  BY DEF Init
<1>2. KeyInv /\ SoleInv /\ CrossInv /\ ShownInv /\ CardsInv /\ CardShowsPending
  BY <1>1 DEF KeyInv, SoleInv, CrossInv, ShownInv, HiddenInv, ToastHides, ToastDeletes,
     RequestHides, RequestDeletes, ToggleSeen, OppositeInv, QuantityInv, CardsInv,
     CardShowsPending
<1>3. LoadsInv
  <2>1. MirrorInv  BY <1>1, ServerRows DEF MirrorInv
  <2> QED  BY <1>1, <2>1 DEF LoadsInv, AloneInv, AnswerInv, OpenInv
<1>4. PlaceInv  BY <1>1 DEF PlaceInv
<1>5. ASSUME NEW i \in Items, Drawn(i) PROVE ItemAgrees(i)
  <2>1. currentList # 0  BY <1>5 DEF Drawn
  <2>2. PICK l \in Lists : heap = <<ListObject(l, ServerList(l))>> /\ currentList = 1
    BY <2>1 DEF Init
  <2>3. heap[1] = ListObject(l, ServerList(l))  BY <2>2
  <2>4. heap[1].list = l /\ i \in ItemsOf(l)  BY <1>5, <2>2, <2>3 DEF Drawn, ListObject
  <2>5. heap[1].items = [j \in ItemsOf(l) |-> ObjectOf(ServerList(l)[j])]
    <3>1. DOMAIN ServerList(l) = ItemsOf(l)  BY DEF ServerList
    <3> QED  BY <2>3, <3>1 DEF ListObject
  <2>6. ServerList(l)[i] = NewRow /\ server[i] = NewRow  BY <1>1, <2>4, ServerRows
  <2>7. Shown(i) = ObjectOf(NewRow)  BY <2>2, <2>4, <2>5, <2>6 DEF Shown
  <2>8. /\ Shown(i).done = FALSE /\ Shown(i).quantity = 1 /\ Shown(i).there = TRUE
        /\ Shown(i).hidden = FALSE
        /\ server[i].done = FALSE /\ server[i].quantity = 1 /\ server[i].there = TRUE
    BY <2>6, <2>7 DEF ObjectOf, NewRow
  <2>9. DoneIs(i, FALSE)  BY <1>1, <2>8 DEF DoneIs, Pending
  <2> QED  BY <1>1, <2>8, <2>9 DEF ItemAgrees
<1>6. AgreeInv  BY <1>5 DEF AgreeInv
<1> QED  BY <1>2, <1>3, <1>4, <1>6 DEF PagesInv

\* Every step keeps the page's agreement with the server.
LEMMA PagesNext ==
    ASSUME KnownInv, KnownInv', PagesInv, [Next]_vars
    PROVE  PagesInv'
<1>0. /\ KeyInv /\ SoleInv /\ CrossInv /\ PlaceInv /\ AgreeInv /\ CardsInv /\ CardShowsPending
      /\ AloneInv /\ MirrorInv /\ AnswerInv /\ OpenInv
      /\ HiddenInv /\ OppositeInv /\ QuantityInv
  BY DEF PagesInv, LoadsInv, ShownInv
<1>1. KeyInv' /\ SoleInv'  BY <1>0, KeyNext, SoleNext
<1>2. CrossInv' /\ AloneInv' /\ MirrorInv' /\ AnswerInv' /\ OpenInv'
  BY <1>0, <1>1, CrossNext, AloneNext, MirrorNext, AnswerNext, OpenNext
<1>3. HiddenInv' /\ OppositeInv' /\ QuantityInv' /\ PlaceInv'
  BY <1>0, <1>1, HiddenNext, OppositeNext, QuantityNext, PlaceNext
<1>4. AgreeInv'  BY <1>0, AgreeNext
<1>5. CardsInv' /\ CardShowsPending'  BY <1>0, <1>3, CardsNext
<1> QED  BY <1>1, <1>2, <1>3, <1>4, <1>5 DEF PagesInv, LoadsInv, ShownInv

\* Once nothing waits and nothing is in progress, what the page draws of a list is what the
\* server has of it, however changes were undone, refused, answered late or overtaken by
\* loads, but for the items it is known to be wrong about; and the card a check-off was
\* reported to shows it while it waits.
THEOREM PageStaysRight == Spec => []PageAgrees
<1>1. Init => KnownInv /\ PagesInv
  <2>1. Init => IdInv /\ ToastInv
    BY DEF Init, IdInv, ToastInv, SingleInv, OwnerInv, WaitsOnce, WaitsInv
  <2> QED  BY <2>1, TypeInit, PagesInit DEF KnownInv
<1>2. KnownInv /\ PagesInv /\ [Next]_vars => KnownInv' /\ PagesInv'
  <2>1. KnownInv /\ [Next]_vars => KnownInv'  BY TypeNext, IdNext, ToastNext DEF KnownInv
  <2> QED  BY <2>1, PagesNext
<1>3. KnownInv /\ PagesInv => PageAgrees  BY AgreesWhenQuiet
<1> QED  BY <1>1, <1>2, <1>3, PTL DEF Spec

=============================================================================
