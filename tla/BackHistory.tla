---------------------------- MODULE BackHistory ----------------------------
(***************************************************************************)
(* The browser's history of the single-page app (static/js/gestures.js):   *)
(* one entry per open level (the list, then each modal above it), so that  *)
(* the system's back closes one level instead of leaving the app.          *)
(*                                                                         *)
(* A traversal is asynchronous: it is queued, lands, and only then is      *)
(* history.state another and popstate fired; the user goes on meanwhile.   *)
(***************************************************************************)
EXTENDS Integers, Sequences

CONSTANTS
    Overlays,       \* the modals and sheets
    Stubborn,       \* those that do not close at once when clicked beside
    MaxActs,        \* bound: what the user and the page's own timers do
    MaxTraversals   \* bound: traversals in the queue

ASSUME BackHistoryAssumption ==
    /\ Stubborn \subseteq Overlays
    /\ MaxActs \in Nat /\ MaxTraversals \in Nat \ {0}

VARIABLES
    openOverlays,   \* in the order they were opened
    listOpen,       \* is the items section on screen?
    entries,        \* trakkaDepth of the document's entries
    at,             \* the current one
    traversals,     \* the browser's queue: [by, delta, and was it queued behind another?]
    historyTraversalPending, activationHonored, dropEntriesTimer,
    honored,        \* does the browser count an activation for the next entry?
    skippable,      \* did it mark the document's entries as skipped by back?
    left,           \* has the app been left?
    acts

flags == <<historyTraversalPending, activationHonored, dropEntriesTimer, honored, skippable>>
vars == <<openOverlays, listOpen, entries, at, traversals, flags, left, acts>>

Init ==
    /\ openOverlays = <<>> /\ listOpen = FALSE
    /\ entries = <<0>> /\ at = 1 /\ traversals = <<>>
    /\ historyTraversalPending = FALSE /\ dropEntriesTimer = FALSE
    /\ activationHonored \in BOOLEAN /\ honored = activationHonored
    /\ skippable = FALSE /\ left = FALSE /\ acts = 0

-----------------------------------------------------------------------------
historyDepth == entries[at]
Depth(overlays, list) == Len(overlays) + IF list THEN 1 ELSE 0
uiDepth == Depth(openOverlays, listOpen)

\* Mutant: an entry that is already there is pushed again.
Pushed_Twice(have, want) == [k \in 1 .. want - have + 1 |-> have + k - 1]
\* Mutant: one entry for the levels opened at once.
Pushed_One(have, want) == <<want>>
\* The entries that are pushed.
Pushed(have, want) == [k \in 1 .. want - have |-> have + k]

\* Mutant: no entry is dropped.
Extra_Never(have, want) == FALSE
Extra(have, want) == want < have

\* syncHistory, at entry p, when the levels are those of the next state.  The
\* MutationObserver calls it at the end of the task that opened or closed one.
syncHistory(p, pending, count) ==
    LET have == entries[p]  want == uiDepth'
        push == ~pending /\ want > have /\ count
    IN  /\ entries' = IF push THEN SubSeq(entries, 1, p) \o Pushed(have, want) ELSE entries
        /\ at' = IF push THEN p + want - have ELSE p
        /\ skippable' = (skippable \/ (push /\ ~honored'))
        /\ dropEntriesTimer' = (dropEntriesTimer \/ (~pending /\ Extra(have, want)))
        /\ historyTraversalPending' = pending /\ activationHonored' = count

Act == ~left /\ acts < MaxActs /\ acts' = acts + 1

\* Levels are opened and closed by taps, by Escape, and by what the page awaits.
Change(overlays, list) ==
    /\ Act /\ openOverlays' = overlays /\ listOpen' = list /\ honored' = honored
    /\ syncHistory(at, historyTraversalPending, activationHonored)
    /\ UNCHANGED <<traversals, left>>

IsOpen(o) == \E n \in DOMAIN openOverlays : openOverlays[n] = o
Open(o) == ~IsOpen(o) /\ Change(Append(openOverlays, o), listOpen)
Close(o) == \E n \in DOMAIN openOverlays :
    /\ openOverlays[n] = o
    /\ Change(SubSeq(openOverlays, 1, n - 1) \o SubSeq(openOverlays, n + 1, Len(openOverlays)), listOpen)
OpenList == ~listOpen /\ Change(openOverlays, TRUE)
CloseList == listOpen /\ Change(openOverlays, FALSE)

\* onActivation.
Activate ==
    /\ Act /\ honored' = TRUE /\ UNCHANGED <<openOverlays, listOpen>>
    /\ syncHistory(at, historyTraversalPending, TRUE)
    /\ UNCHANGED <<traversals, left>>

-----------------------------------------------------------------------------
\* goBack, until the UI is no deeper than `depth`, or an overlay does not close.
GoBack(depth) ==
    \E kept \in 0 .. Len(openOverlays) :
        /\ \A n \in DOMAIN openOverlays : n > kept =>
                Depth(SubSeq(openOverlays, 1, n), listOpen) > depth /\ openOverlays[n] \notin Stubborn
        /\ kept > 0 => \/ Depth(SubSeq(openOverlays, 1, kept), listOpen) <= depth
                       \/ openOverlays[kept] \in Stubborn
        /\ openOverlays' = SubSeq(openOverlays, 1, kept)
        /\ listOpen' = (listOpen /\ (depth > 0 \/ kept > 0))

Queue(by, delta) ==
    /\ Len(traversals) < MaxTraversals
    /\ traversals' = Append(traversals, [by |-> by, delta |-> delta,
                                         behind |-> traversals # <<>>])

\* The system's back, and forward where there is one.
SystemBack(delta) ==
    /\ Act /\ Queue("user", delta)
    /\ UNCHANGED <<openOverlays, listOpen, entries, at, flags, left>>

\* requestBack, of the swipe from the edge.
requestBack ==
    /\ Act
    /\ IF ~historyTraversalPending /\ historyDepth > 0 /\ historyDepth = uiDepth
       THEN /\ Queue("swipe", -1)
            /\ UNCHANGED <<openOverlays, listOpen, entries, at, flags>>
       ELSE /\ GoBack(uiDepth - 1) /\ honored' = honored
            /\ syncHistory(at, historyTraversalPending, activationHonored)
            /\ UNCHANGED traversals
    /\ UNCHANGED left

dropExtraEntries ==
    /\ ~left /\ dropEntriesTimer /\ dropEntriesTimer' = FALSE
    /\ IF historyTraversalPending \/ ~Extra(historyDepth, uiDepth)
       THEN UNCHANGED <<traversals, historyTraversalPending>>
       ELSE Queue("page", uiDepth - historyDepth) /\ historyTraversalPending' = TRUE
    /\ UNCHANGED <<openOverlays, listOpen, entries, at, activationHonored, honored, skippable,
                   left, acts>>

PendingAfterLand == FALSE

\* Mutant: an activation from before a back still counts.
HonoredAfterBack_Kept == activationHonored
HonoredAfterBack == FALSE

\* The popstate listener: a traversal of its own, as far as it can tell, closes nothing.
Lands(p) ==
    /\ honored' = FALSE
    /\ IF historyTraversalPending THEN UNCHANGED <<openOverlays, listOpen>>
       ELSE GoBack(entries[p])
    /\ syncHistory(p, PendingAfterLand, HonoredAfterBack)
    /\ UNCHANGED left

\* The browser: a traversal lands, beyond the first entry it leaves the document; one
\* of the page's own may find nothing there, as one forward does.
Land ==
    /\ ~left /\ traversals # <<>> /\ traversals' = Tail(traversals)
    /\ LET t == Head(traversals)
           p == at + t.delta
       IN  \/ /\ p \in DOMAIN entries /\ ~(t.by = "user" /\ skippable /\ t.delta < 0)
              /\ Lands(p)
           \/ /\ t.delta < 0 /\ (p < 1 \/ (t.by = "user" /\ skippable)) /\ left' = TRUE
              /\ UNCHANGED <<openOverlays, listOpen, entries, at, flags>>
           \/ /\ p \notin DOMAIN entries /\ ~(t.by = "user" /\ t.delta < 0)
              /\ UNCHANGED <<openOverlays, listOpen, entries, at, flags, left>>
    /\ UNCHANGED acts

Next ==
    \/ \E o \in Overlays : Open(o) \/ Close(o)
    \/ OpenList \/ CloseList \/ Activate
    \/ SystemBack(-1) \/ SystemBack(1) \/ requestBack
    \/ dropExtraEntries \/ Land

\* Timers run and the browser traverses, whatever else goes on.
Fairness == WF_vars(dropExtraEntries) /\ WF_vars(Land)
Spec == Init /\ [][Next]_vars /\ Fairness

-----------------------------------------------------------------------------
TypeOK ==
    /\ openOverlays \in Seq(Overlays) /\ listOpen \in BOOLEAN
    /\ entries \in Seq(Nat) /\ at \in DOMAIN entries
    /\ traversals \in Seq([by : {"user", "swipe", "page"}, delta : Int, behind : BOOLEAN])
    /\ historyTraversalPending \in BOOLEAN /\ activationHonored \in BOOLEAN
    /\ dropEntriesTimer \in BOOLEAN /\ honored \in BOOLEAN /\ skippable \in BOOLEAN
    /\ left \in BOOLEAN /\ acts \in Nat

\* Entry n of the document is of depth n - 1, whatever was pushed after which back:
\* history.go(-n) drops n levels.
OneEntryPerLevel == \A n \in DOMAIN entries : entries[n] = n - 1

\* Unless a traversal of its own is under way, the history is out of step with the UI
\* only while a push waits for an activation, or the timer to drop entries runs.
InStep ==
    ~historyTraversalPending =>
        /\ uiDepth > historyDepth => ~activationHonored
        /\ uiDepth < historyDepth => dropEntriesTimer

\* "Set while a history.go() issued by syncHistory is still in flight": it never stays
\* set with nothing under way that would clear it.
PendingEnds == historyTraversalPending => traversals # <<>>

\* The history has one entry per level, or a step that makes it so is on its way.
EntriesFollowLevels == OneEntryPerLevel /\ InStep /\ PendingEnds

\* A back closes one level, and leaves the app only from the dashboard; and entries are
\* dropped without closing any: unless some could not be pushed for want of an
\* activation, or the drop was queued behind another traversal.
Crossed == Head(traversals).by = "page" /\ Head(traversals).behind
BackClosesOneLevel ==
    [][\/ uiDepth' < uiDepth - 1
       \/ left' /\ ~left /\ uiDepth > 0
       \/ traversals # <<>> /\ Head(traversals).by = "page" /\ uiDepth' < uiDepth
                           /\ traversals' = Tail(traversals)
       => ~activationHonored \/ Crossed]_vars

\* In the end no entry is left for a back press to hit with nothing to close.
NoOrphanedEntry == <>[](left \/ historyDepth <= uiDepth)
=============================================================================
