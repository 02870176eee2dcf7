-------------------------------- MODULE Tui --------------------------------
(***************************************************************************)
(* The terminal UI (internal/tui/tui.go): one loop applies keys and        *)
(* messages to the model; every load is a command, a goroutine whose       *)
(* message arrives when it is done, in any order.                          *)
(*                                                                         *)
(* Features, personas and retros are numbers here, and what a detail says  *)
(* is which of them it is about.  Layout, scrolling and help are left out. *)
(***************************************************************************)
EXTENDS Integers, Sequences

CONSTANTS
    Listing,   \* what the list of each tab may be: sequences of item numbers
    MaxLoads,  \* bound: how many times all is loaded
    MaxOpens,  \* bound: how many details are opened
    MaxChanges \* bound: how many times somebody changes what there is

ASSUME TuiAssumption ==
    /\ Listing \in [0..2 -> SUBSET Seq(Nat)]
    /\ MaxLoads \in Nat \ {0} /\ MaxOpens \in Nat /\ MaxChanges \in Nat

tabCount == 3

Tab    == 0..(tabCount - 1) \* features, personas, retros
LoadId == 1..MaxLoads
OpenId == 1..MaxOpens

VARIABLES
    world,     \* what there is, in the database and in the files
    tab,       \* the active tab
    lists,     \* Model.features, personas and retros
    cursor,    \* the index of the selected item
    detail,    \* what the loaded detail is about
    showing,   \* is the detail pane open
    err,       \* is the error page shown
    quit,      \* "no", "asked" while the message is under way, "gone"
    at,        \* the next list each load reads; Arrived: none is left
    read,      \* what each load has read
    failed,    \* the loads that have met an error
    loaded,    \* how many loads have been started
    inFlight,  \* the detail loads under way
    subject,   \* what each detail load is about
    opened,    \* how many detail loads have been started
    unread,    \* the detail loads that could not read their retro
    changes,   \* how many changes have been made to the world
    dirty,     \* the lists changed since the latest load was started
    newest,    \* the load and the detail load applied last
    overtaken  \* "load", "open": one was applied after a later one

model   == <<tab, lists, cursor, detail, showing, err>>
loads   == <<at, read, failed, loaded>>
opens   == <<inFlight, subject, opened, unread>>
outside == <<world, changes, dirty>>
history == <<newest, overtaken>>
vars    == <<model, quit, loads, opens, outside, history>>

\* Where a load stands that has not been started or has been applied.
Idle    == -1
Arrived == tabCount

Nothing == [t \in Tab |-> <<>>]

\* The detail's text is "".
Blank == <<0, 0>>

Init ==
    /\ world \in [Tab -> UNION {Listing[t] : t \in Tab}]
    /\ \A t \in Tab : world[t] \in Listing[t]
    /\ tab = 0 /\ lists = Nothing /\ cursor = 0
    /\ detail = Blank /\ showing = FALSE /\ err = FALSE
    /\ quit = "no"
    \* the command of Init is the first load
    /\ at = [i \in LoadId |-> IF i = 1 THEN 0 ELSE Idle]
    /\ read = [i \in LoadId |-> Nothing] /\ failed = {} /\ loaded = 1
    /\ inFlight = {} /\ subject = [o \in OpenId |-> Blank] /\ opened = 0
    /\ unread = {}
    /\ changes = 0 /\ dirty = {}
    /\ newest = [load |-> 0, open |-> 0] /\ overtaken = {}

itemCount == Len(lists[tab])

-----------------------------------------------------------------------------
(* The world, and the goroutine of loadAll.                                 *)

Change ==
    /\ changes < MaxChanges
    /\ changes' = changes + 1
    /\ \E t \in Tab : \E l \in Listing[t] :
          /\ world' = [world EXCEPT ![t] = l]
          /\ dirty' = dirty \cup {t}
    /\ UNCHANGED <<model, quit, loads, opens, history>>

ReadList(i) ==
    /\ at[i] \in Tab
    /\ read' = [read EXCEPT ![i][at[i]] = world[at[i]]]
    /\ at' = [at EXCEPT ![i] = @ + 1]
    /\ UNCHANGED <<model, quit, failed, loaded, opens, outside, history>>

\* The first error ends the load; its list and those behind it stay nil.  (The
\* rows read before an error are dropped here: the error page hides the lists.)
ReadFails(i) ==
    /\ at[i] \in Tab
    /\ failed' = failed \cup {i}
    /\ at' = [at EXCEPT ![i] = Arrived]
    /\ UNCHANGED <<model, quit, read, loaded, opens, outside, history>>

-----------------------------------------------------------------------------
(* Update.                                                                  *)

\* Mutation: the retros are not taken over.
ListsButRetros(i) == [read[i] EXCEPT ![2] = lists[2]]

ListsFrom(i) == read[i]

\* Mutation: the cursor is left where it was.
CursorKept(ls) == cursor

\* A cursor beyond the new list goes to its head.
CursorWithin(ls) == IF cursor >= Len(ls[tab]) THEN 0 ELSE cursor

DataArrives(i) ==
    /\ at[i] = Arrived
    /\ lists' = ListsFrom(i)
    /\ cursor' = CursorWithin(lists')
    /\ err' = (i \in failed)
    /\ at' = [at EXCEPT ![i] = Idle]
    /\ newest' = [newest EXCEPT !.load = i]
    /\ overtaken' = IF i < newest.load THEN overtaken \cup {"load"} ELSE overtaken
    /\ UNCHANGED <<tab, detail, showing, quit, read, failed, loaded, opens,
                   outside>>

Selected == IF cursor >= itemCount THEN Blank ELSE <<tab, lists[tab][cursor + 1]>>

\* Mutation: the command looks at the model of the time it ends.
SelectedByNow(o) == Selected

\* The command holds the model of the key press, by value.
DetailOf(o) == subject[o]

Deliver(o, what) ==
    /\ o \in inFlight
    /\ inFlight' = inFlight \ {o}
    /\ detail' = what
    /\ newest' = [newest EXCEPT !.open = o]
    /\ overtaken' = IF o < newest.open THEN overtaken \cup {"open"} ELSE overtaken
    /\ UNCHANGED <<tab, lists, cursor, showing, err, quit, loads, subject,
                   opened, outside>>

\* (A feature and a persona name themselves, whatever else could not be read.)
DetailArrives(o) == Deliver(o, DetailOf(o)) /\ UNCHANGED unread

IsRetro(item) == item[1] = 2

\* The retro is gone since it was listed, cannot be read or has a name that
\* ReadRetro refuses: its error is dropped and the body is "".
RetroUnread(o) ==
    /\ IsRetro(subject[o])
    /\ Deliver(o, Blank)
    /\ unread' = unread \cup {o}

\* Mutation: another tab keeps the cursor.
CursorOfOldTab == cursor

CursorOfNewTab == 0

GoToTab(t) ==
    /\ tab' = t
    /\ cursor' = CursorOfNewTab
    /\ showing' = FALSE
    /\ UNCHANGED <<lists, detail, err, quit, loads, opens, outside, history>>

NextTab == GoToTab((tab + 1) % tabCount)

PrevTab == GoToTab((tab + tabCount - 1) % tabCount)

MoveCursor(to) ==
    /\ cursor' = to
    /\ UNCHANGED <<tab, lists, detail, showing, err, quit, loads, opens,
                   outside, history>>

Down == cursor < itemCount - 1 /\ MoveCursor(cursor + 1)

Up == cursor > 0 /\ MoveCursor(cursor - 1)

\* The pane opens at once; the detail that was there stays until the new one
\* has arrived.
Open ==
    /\ opened < MaxOpens
    /\ opened' = opened + 1
    /\ subject' = [subject EXCEPT ![opened'] = Selected]
    /\ inFlight' = inFlight \cup {opened'}
    /\ showing' = TRUE
    /\ UNCHANGED <<tab, lists, cursor, detail, err, quit, loads, unread,
                   outside, history>>

Refresh ==
    /\ loaded < MaxLoads
    /\ loaded' = loaded + 1
    /\ at' = [at EXCEPT ![loaded'] = 0]
    /\ dirty' = {}
    /\ UNCHANGED <<model, quit, read, failed, opens, world, changes, history>>

\* q closes the pane, also under the error page, and asks to quit otherwise.
Quit ==
    /\ IF showing THEN showing' = FALSE /\ UNCHANGED quit
                  ELSE quit' = "asked" /\ UNCHANGED showing
    /\ UNCHANGED <<tab, lists, cursor, detail, err, loads, opens, outside,
                   history>>

\* The message of tea.Quit reaches the loop; until then it takes keys.
QuitArrives ==
    /\ quit = "asked"
    /\ quit' = "gone"
    /\ UNCHANGED <<model, loads, opens, outside, history>>

\* The loads end with the process.
Next ==
    /\ quit # "gone"
    /\ \/ Change
       \/ \E i \in LoadId : ReadList(i) \/ ReadFails(i) \/ DataArrives(i)
       \/ \E o \in OpenId : DetailArrives(o) \/ RetroUnread(o)
       \/ NextTab \/ PrevTab \/ Down \/ Up \/ Open \/ Refresh
       \/ Quit \/ QuitArrives

Spec == Init /\ [][Next]_vars

-----------------------------------------------------------------------------
(* Properties.                                                              *)

\* The cursor is on an item of the active tab, or at the head of an empty one,
\* whatever loads, tabs and moves come between: loadDetail's index is in range.
CursorOnItem == cursor = 0 \/ cursor < itemCount

\* When every detail has arrived, and none after a later one, the pane shows
\* the item that was selected when it was opened last; moves, loads and other
\* tabs in between do not mix another item in.  It is empty only if that item
\* is a retro that could not be read, never because an earlier one was.
PaneShowsOpened ==
    showing /\ inFlight = {} /\ "open" \notin overtaken =>
        /\ opened > 0
        /\ \/ detail = subject[opened]
           \/ detail = Blank /\ opened \in unread /\ IsRetro(subject[opened])

\* When every load has arrived, and none after a later one, the page shows an
\* error exactly if the latest load met one, and the lists are otherwise what
\* there is, but for what was changed since that load was asked for.
ListsAreCurrent ==
    (\A i \in LoadId : at[i] = Idle) /\ "load" \notin overtaken =>
        /\ err = (loaded \in failed)
        /\ ~err => \A t \in Tab \ dirty : lists[t] = world[t]

-----------------------------------------------------------------------------
(* The inductive invariant.                                                 *)

TypeOK ==
    /\ world \in [Tab -> Seq(Nat)]
    /\ tab \in Tab
    /\ lists \in [Tab -> Seq(Nat)]
    /\ cursor \in Nat
    /\ detail \in Tab \X Nat
    /\ showing \in BOOLEAN /\ err \in BOOLEAN
    /\ quit \in {"no", "asked", "gone"}
    /\ at \in [LoadId -> Idle..Arrived]
    /\ read \in [LoadId -> [Tab -> Seq(Nat)]]
    /\ failed \in SUBSET LoadId
    /\ loaded \in LoadId
    /\ inFlight \in SUBSET OpenId
    /\ subject \in [OpenId -> Tab \X Nat]
    /\ opened \in 0..MaxOpens
    /\ unread \in SUBSET OpenId
    /\ changes \in Nat
    /\ dirty \in SUBSET Tab
    /\ newest \in [load : 0..MaxLoads, open : 0..MaxOpens]
    /\ overtaken \in SUBSET {"load", "open"}

\* What detail load o left in the pane.
Left(o) == IF o \in unread THEN Blank ELSE subject[o]

\* The detail is the newest one, and older ones have arrived before it.
DetailIsNewest ==
    /\ showing => opened > 0
    /\ newest.open \in (0..opened) \ inFlight
    /\ inFlight \subseteq 1..opened
    /\ newest.open > 0 => detail = Left(newest.open)
    /\ \A o \in unread : o \in (1..opened) \ inFlight /\ IsRetro(subject[o])
    /\ "open" \notin overtaken =>
          \A o \in (1..opened) \ inFlight : o <= newest.open

\* The lists are those of the newest load, and older ones have arrived before.
ListsAreNewest ==
    /\ newest.load \in 0..loaded
    /\ newest.load > 0 => /\ at[newest.load] = Idle
                          /\ lists = read[newest.load]
                          /\ err = (newest.load \in failed)
    /\ \A i \in LoadId : i > loaded => at[i] = Idle /\ i \notin failed
    /\ "load" \notin overtaken =>
          \A i \in 1..loaded : at[i] = Idle => i <= newest.load

\* The latest load has read what there is, but for what was changed since.
LatestReadsWorld ==
    loaded \notin failed =>
        \A t \in Tab \ dirty :
            at[loaded] = Idle \/ t < at[loaded] => read[loaded][t] = world[t]

Consistent ==
    /\ TypeOK /\ DetailIsNewest /\ ListsAreNewest /\ LatestReadsWorld
    /\ CursorOnItem /\ PaneShowsOpened /\ ListsAreCurrent
=============================================================================
