----------------------------- MODULE TuiProofs -----------------------------
(***************************************************************************)
(* Tui for any lists and any number of loads, details and changes.         *)
(***************************************************************************)
EXTENDS Tui, TLAPS

LEMMA Initial == ASSUME TuiAssumption, Init PROVE Consistent
<1> USE DEF Init, Tab, tabCount, LoadId, OpenId, Idle, Arrived
<1>1. TypeOK
  <2>1. world \in [Tab -> Seq(Nat)]
    BY DEF TuiAssumption
  <2>2. Nothing \in [Tab -> Seq(Nat)]
    BY DEF Nothing
  <2>3. lists \in [Tab -> Seq(Nat)] /\ read \in [LoadId -> [Tab -> Seq(Nat)]]
    BY <2>2
  <2>4. at \in [LoadId -> Idle..Arrived]
    OBVIOUS
  <2>5. detail \in Tab \X Nat /\ subject \in [OpenId -> Tab \X Nat]
    BY DEF Blank
  <2>6. tab \in Tab /\ cursor \in Nat /\ changes \in Nat
    OBVIOUS
  <2>7. loaded \in LoadId /\ opened \in 0..MaxOpens /\ unread \in SUBSET OpenId
    BY DEF TuiAssumption
  <2>8. failed \in SUBSET LoadId /\ inFlight \in SUBSET OpenId /\ dirty \in SUBSET Tab
        /\ overtaken \in SUBSET {"load", "open"}
    OBVIOUS
  <2>9. newest \in [load : 0..MaxLoads, open : 0..MaxOpens]
    BY DEF TuiAssumption
  <2>10. showing \in BOOLEAN /\ err \in BOOLEAN /\ quit \in {"no", "asked", "gone"}
    OBVIOUS
  <2> HIDE DEF Init
  <2> QED
    BY <2>1, <2>3, <2>4, <2>5, <2>6, <2>7, <2>8, <2>9, <2>10 DEF TypeOK
<1>2. DetailIsNewest
  BY DEF DetailIsNewest
<1>3. ListsAreNewest
  BY DEF ListsAreNewest, TuiAssumption
<1>4. LatestReadsWorld
  BY DEF LatestReadsWorld, TuiAssumption
<1>5. CursorOnItem
  BY DEF CursorOnItem
<1>6. PaneShowsOpened
  BY DEF PaneShowsOpened
<1>7. ListsAreCurrent
  BY DEF ListsAreCurrent, TuiAssumption
<1> QED
  BY <1>1, <1>2, <1>3, <1>4, <1>5, <1>6, <1>7 DEF Consistent

\* The two properties about what has arrived follow from the invariant.
LEMMA PaneFollows ==
    ASSUME TypeOK, DetailIsNewest PROVE PaneShowsOpened
<1> SUFFICES ASSUME showing, inFlight = {}, "open" \notin overtaken
             PROVE  /\ opened > 0
                    /\ \/ detail = subject[opened]
                       \/ /\ detail = Blank /\ opened \in unread
                          /\ IsRetro(subject[opened])
  BY DEF PaneShowsOpened
<1>1. opened > 0 /\ opened \in Nat
  BY DEF DetailIsNewest, TypeOK
<1>2. opened \in (1..opened) \ inFlight
  BY <1>1
<1>3. opened <= newest.open /\ newest.open \in 0..opened
  BY <1>2 DEF DetailIsNewest
<1>4. newest.open = opened
  BY <1>1, <1>3
<1>5. detail = Left(opened) /\ \A o \in unread : IsRetro(subject[o])
  BY <1>1, <1>4 DEF DetailIsNewest
<1> QED
  BY <1>1, <1>5 DEF Left

LEMMA ListsFollow ==
    ASSUME TypeOK, ListsAreNewest, LatestReadsWorld PROVE ListsAreCurrent
<1> SUFFICES ASSUME \A i \in LoadId : at[i] = Idle, "load" \notin overtaken
             PROVE  /\ err = (loaded \in failed)
                    /\ ~err => \A t \in Tab \ dirty : lists[t] = world[t]
  BY DEF ListsAreCurrent
<1>1. loaded \in LoadId /\ loaded \in 1..loaded
  BY DEF TypeOK, LoadId
<1>2. loaded <= newest.load /\ newest.load \in 0..loaded
  BY <1>1 DEF ListsAreNewest
<1>3. newest.load = loaded /\ loaded > 0
  BY <1>1, <1>2 DEF LoadId
<1>4. lists = read[loaded] /\ err = (loaded \in failed)
  BY <1>3 DEF ListsAreNewest
<1> QED
  BY <1>1, <1>4 DEF LatestReadsWorld

-----------------------------------------------------------------------------
LEMMA ItemsInRange ==
    ASSUME TypeOK PROVE Selected \in Tab \X Nat /\ itemCount \in Nat
<1>1. lists[tab] \in Seq(Nat) /\ cursor \in Nat /\ tab \in Tab
  BY DEF TypeOK
<1>2. itemCount \in Nat
  BY <1>1 DEF itemCount
<1>3. Blank \in Tab \X Nat
  BY DEF Blank, Tab, tabCount
<1>4. CASE cursor >= itemCount
  BY <1>2, <1>3, <1>4 DEF Selected
<1>5. CASE ~(cursor >= itemCount)
  <2>1. cursor + 1 \in 1..Len(lists[tab])
    BY <1>1, <1>2, <1>5 DEF itemCount
  <2>2. lists[tab][cursor + 1] \in Nat
    BY <1>1, <2>1
  <2> QED
    BY <1>1, <1>2, <1>5, <2>2 DEF Selected
<1> QED
  BY <1>2, <1>4, <1>5

LEMMA TabsInRange ==
    ASSUME TypeOK
    PROVE  (tab + 1) % tabCount \in Tab /\ (tab + tabCount - 1) % tabCount \in Tab
<1>1. tab \in {0, 1, 2}
  BY DEF TypeOK, Tab, tabCount
<1>2. \A t \in {0, 1, 2} : (t + 1) % 3 \in 0..2 /\ (t + 3 - 1) % 3 \in 0..2
  OBVIOUS
<1> QED
  BY <1>1, <1>2 DEF Tab, tabCount

LEMMA TypeStep == ASSUME TuiAssumption, TypeOK, [Next]_vars PROVE TypeOK'
<1> USE DEF model, loads, opens, outside, history
<1>1. CASE Change
  <2>1. PICK t \in Tab : \E l \in Listing[t] :
            world' = [world EXCEPT ![t] = l] /\ dirty' = dirty \cup {t}
    BY <1>1 DEF Change
  <2>2. Listing[t] \subseteq Seq(Nat)
    BY DEF TuiAssumption, Tab, tabCount
  <2>3. world' \in [Tab -> Seq(Nat)] /\ dirty' \in SUBSET Tab
    BY <2>1, <2>2 DEF TypeOK
  <2>4. changes' \in Nat
    BY <1>1 DEF Change, TypeOK
  <2>5. UNCHANGED <<model, quit, loads, opens, history>>
    BY <1>1 DEF Change
  <2> QED
    BY <2>3, <2>4, <2>5 DEF TypeOK
<1>2. ASSUME NEW i \in LoadId, ReadList(i) PROVE TypeOK'
  <2>1. read' \in [LoadId -> [Tab -> Seq(Nat)]]
    BY <1>2 DEF ReadList, TypeOK
  <2>2. at[i] + 1 \in Idle..Arrived
    BY <1>2 DEF ReadList, Tab, tabCount, Idle, Arrived
  <2>3. at' \in [LoadId -> Idle..Arrived]
    BY <1>2, <2>2 DEF ReadList, TypeOK
  <2> QED
    BY <1>2, <2>1, <2>3 DEF ReadList, TypeOK
<1>3. ASSUME NEW i \in LoadId, ReadFails(i) PROVE TypeOK'
  <2>1. at' \in [LoadId -> Idle..Arrived] /\ failed' \in SUBSET LoadId
    BY <1>3 DEF ReadFails, TypeOK, tabCount, Idle, Arrived
  <2> QED
    BY <1>3, <2>1 DEF ReadFails, TypeOK
<1>4. ASSUME NEW i \in LoadId, DataArrives(i) PROVE TypeOK'
  <2>1. lists' \in [Tab -> Seq(Nat)] /\ cursor' \in Nat
    BY <1>4 DEF DataArrives, ListsFrom, CursorWithin, TypeOK
  <2>2. at' \in [LoadId -> Idle..Arrived]
    BY <1>4 DEF DataArrives, TypeOK, tabCount, Idle, Arrived
  <2>3. newest' \in [load : 0..MaxLoads, open : 0..MaxOpens]
    <3>1. newest \in [load : 0..MaxLoads, open : 0..MaxOpens] /\ i \in 0..MaxLoads
          /\ newest' = [newest EXCEPT !.load = i]
      BY <1>4 DEF DataArrives, TypeOK, LoadId, TuiAssumption
    <3> QED
      BY <3>1
  <2>4. err' \in BOOLEAN
    BY <1>4 DEF DataArrives
  <2>5. overtaken' \in SUBSET {"load", "open"}
    <3>1. overtaken \in SUBSET {"load", "open"}
          /\ overtaken' \in {overtaken, overtaken \cup {"load"}}
      BY <1>4 DEF DataArrives, TypeOK
    <3> QED
      BY <3>1
  <2> QED
    BY <1>4, <2>1, <2>2, <2>3, <2>4, <2>5 DEF DataArrives, TypeOK
<1>5. ASSUME NEW o \in OpenId, NEW what \in Tab \X Nat, Deliver(o, what),
             unread' \in SUBSET OpenId
      PROVE  TypeOK'
  <2>1. detail' \in Tab \X Nat /\ inFlight' \in SUBSET OpenId
    BY <1>5 DEF Deliver, TypeOK
  <2>2. newest' \in [load : 0..MaxLoads, open : 0..MaxOpens]
    <3>1. newest \in [load : 0..MaxLoads, open : 0..MaxOpens] /\ o \in 0..MaxOpens
          /\ newest' = [newest EXCEPT !.open = o]
      BY <1>5 DEF Deliver, TypeOK, OpenId, TuiAssumption
    <3> QED
      BY <3>1
  <2>3. overtaken' \in SUBSET {"load", "open"}
    BY <1>5 DEF Deliver, TypeOK
  <2> QED
    BY <1>5, <2>1, <2>2, <2>3 DEF Deliver, TypeOK
<1>6. ASSUME NEW t \in Tab, GoToTab(t) PROVE TypeOK'
  BY <1>6 DEF GoToTab, CursorOfNewTab, TypeOK
<1>7. ASSUME NEW to \in Nat, MoveCursor(to) PROVE TypeOK'
  BY <1>7 DEF MoveCursor, TypeOK
<1>8. CASE Open
  <2>1. opened' \in 0..MaxOpens /\ opened' \in OpenId
    BY <1>8 DEF Open, TypeOK, OpenId, TuiAssumption
  <2>2. subject' \in [OpenId -> Tab \X Nat] /\ inFlight' \in SUBSET OpenId
    BY <1>8, <2>1, ItemsInRange DEF Open, TypeOK
  <2> QED
    BY <1>8, <2>1, <2>2 DEF Open, TypeOK
<1>9. CASE Refresh
  <2>1. loaded' \in LoadId
    BY <1>9 DEF Refresh, TypeOK, LoadId, TuiAssumption
  <2>2. at' \in [LoadId -> Idle..Arrived]
    <3>1. 0 \in Idle..Arrived
      BY DEF tabCount, Idle, Arrived
    <3>2. at' = [at EXCEPT ![loaded'] = 0]
      BY <1>9 DEF Refresh
    <3> QED
      BY <3>1, <3>2 DEF TypeOK
  <2> QED
    BY <1>9, <2>1, <2>2 DEF Refresh, TypeOK
<1>10. CASE Quit
  BY <1>10 DEF Quit, TypeOK
<1>11. CASE QuitArrives
  BY <1>11 DEF QuitArrives, TypeOK
<1>12. CASE UNCHANGED vars
  BY <1>12 DEF vars, TypeOK
<1>13. CASE NextTab \/ PrevTab
  BY <1>6, <1>13, TabsInRange DEF NextTab, PrevTab
<1>14. CASE Down \/ Up
  <2>1. cursor + 1 \in Nat /\ (cursor > 0 => cursor - 1 \in Nat)
    BY DEF TypeOK
  <2> QED
    BY <1>7, <1>14, <2>1 DEF Down, Up
<1>15. ASSUME NEW o \in OpenId, DetailArrives(o) PROVE TypeOK'
  <2>1. subject[o] \in Tab \X Nat /\ unread' \in SUBSET OpenId
    BY <1>15 DEF DetailArrives, TypeOK
  <2> QED
    BY <1>5, <1>15, <2>1 DEF DetailArrives, DetailOf
<1>16. ASSUME NEW o \in OpenId, RetroUnread(o) PROVE TypeOK'
  <2>1. Blank \in Tab \X Nat
    BY DEF Blank, Tab, tabCount
  <2>2. unread' \in SUBSET OpenId
    BY <1>16 DEF RetroUnread, TypeOK
  <2> QED
    BY <1>5, <1>16, <2>1, <2>2 DEF RetroUnread
<1> QED
  BY <1>1, <1>2, <1>3, <1>4, <1>15, <1>16, <1>8, <1>9, <1>10, <1>11, <1>12, <1>13, <1>14
     DEF Next

LEMMA CursorStep ==
    ASSUME TypeOK, TypeOK', CursorOnItem, [Next]_vars PROVE CursorOnItem'
<1> USE DEF model, loads, opens, outside, history
<1>1. cursor \in Nat /\ itemCount \in Nat
  BY ItemsInRange DEF TypeOK
<1>2. ASSUME NEW i \in LoadId, DataArrives(i) PROVE CursorOnItem'
  <2>1. tab' = tab /\ cursor' = CursorWithin(lists')
    BY <1>2 DEF DataArrives
  <2>2. lists'[tab] \in Seq(Nat)
    BY DEF TypeOK
  <2> QED
    BY <1>1, <2>1, <2>2 DEF CursorWithin, CursorOnItem, itemCount
<1>3. ASSUME NEW t \in Tab, GoToTab(t) PROVE CursorOnItem'
  BY <1>3 DEF GoToTab, CursorOfNewTab, CursorOnItem
<1>4. CASE Down
  <2>1. lists' = lists /\ tab' = tab /\ cursor' = cursor + 1
        /\ cursor < itemCount - 1
    BY <1>4 DEF Down, MoveCursor
  <2>2. itemCount' = itemCount
    BY <2>1 DEF itemCount
  <2> QED
    BY <1>1, <2>1, <2>2 DEF CursorOnItem
<1>5. CASE Up
  <2>1. lists' = lists /\ tab' = tab /\ cursor' = cursor - 1 /\ cursor > 0
    BY <1>5 DEF Up, MoveCursor
  <2>2. itemCount' = itemCount
    BY <2>1 DEF itemCount
  <2> QED
    BY <1>1, <2>1, <2>2 DEF CursorOnItem
<1>6. ASSUME lists' = lists, tab' = tab, cursor' = cursor PROVE CursorOnItem'
  BY <1>6 DEF CursorOnItem, itemCount
<1>7. CASE NextTab \/ PrevTab
  BY <1>3, <1>7, TabsInRange DEF NextTab, PrevTab
<1>8. ASSUME NEW i \in LoadId, ReadList(i) \/ ReadFails(i) PROVE CursorOnItem'
  BY <1>6, <1>8 DEF ReadList, ReadFails
<1>9. ASSUME NEW o \in OpenId, DetailArrives(o) \/ RetroUnread(o)
      PROVE  CursorOnItem'
  BY <1>6, <1>9 DEF DetailArrives, RetroUnread, Deliver
<1>10. CASE Change \/ Open \/ Refresh \/ Quit \/ QuitArrives
  BY <1>6, <1>10 DEF Change, Open, Refresh, Quit, QuitArrives
<1>11. CASE UNCHANGED vars
  BY <1>6, <1>11 DEF vars
<1> QED
  BY <1>2, <1>4, <1>5, <1>7, <1>8, <1>9, <1>10, <1>11 DEF Next

LEMMA DetailStep ==
    ASSUME TuiAssumption, TypeOK, DetailIsNewest, [Next]_vars
    PROVE  DetailIsNewest'
<1> USE DEF model, loads, opens, outside, history
<1>1. ASSUME showing' => showing, newest'.open = newest.open, opened' = opened,
             inFlight' = inFlight, detail' = detail, subject' = subject,
             unread' = unread,
             "open" \in overtaken => "open" \in overtaken'
      PROVE  DetailIsNewest'
  BY <1>1 DEF DetailIsNewest, Left
<1>2. ASSUME NEW o \in OpenId, NEW what, Deliver(o, what),
             what = Left(o)',
             \A u \in unread' \ unread : u = o /\ IsRetro(subject[o])
      PROVE  DetailIsNewest'
  <2>1. /\ showing' = showing /\ opened' = opened /\ subject' = subject
        /\ o \in inFlight /\ inFlight' = inFlight \ {o} /\ detail' = Left(o)'
        /\ newest'.open = o
        /\ overtaken' = IF o < newest.open THEN overtaken \cup {"open"} ELSE overtaken
    BY <1>2 DEF Deliver, TypeOK
  <2>2. o \in 1..opened /\ opened \in Nat /\ newest.open \in 0..opened
    BY <2>1 DEF DetailIsNewest, TypeOK
  <2>3. ASSUME "open" \notin overtaken', NEW u \in (1..opened) \ inFlight'
        PROVE  u <= o
    <3>1. "open" \notin overtaken /\ ~(o < newest.open)
      BY <2>1, <2>3
    <3>2. u = o \/ u \in (1..opened) \ inFlight
      BY <2>1
    <3>3. u <= newest.open \/ u = o
      BY <3>1, <3>2 DEF DetailIsNewest
    <3> QED
      BY <2>2, <3>1, <3>3
  <2>4. \A u \in unread' : u \in (1..opened) \ inFlight' /\ IsRetro(subject[u])
    BY <1>2, <2>1, <2>2 DEF DetailIsNewest
  <2> QED
    BY <2>1, <2>2, <2>3, <2>4 DEF DetailIsNewest, Left
<1>3. CASE Open
  <2>1. /\ opened' = opened + 1 /\ inFlight' = inFlight \cup {opened + 1}
        /\ newest' = newest /\ overtaken' = overtaken /\ detail' = detail
        /\ unread' = unread /\ opened \in Nat /\ opened + 1 \in OpenId
        /\ subject' = [subject EXCEPT ![opened + 1] = Selected]
    BY <1>3 DEF Open, TypeOK, OpenId, TuiAssumption
  <2>2. newest.open \in (0..opened) \ inFlight /\ inFlight \subseteq 1..opened
    BY DEF DetailIsNewest
  <2>3. newest.open \in (0..(opened + 1)) \ inFlight'
        /\ inFlight' \subseteq 1..(opened + 1) /\ newest.open # opened + 1
    BY <2>1, <2>2
  <2>4. newest.open > 0 => subject'[newest.open] = subject[newest.open]
    BY <2>1, <2>3 DEF TypeOK
  <2>5. (1..(opened + 1)) \ inFlight' \subseteq (1..opened) \ inFlight
    BY <2>1
  <2>6. ASSUME NEW u \in unread
        PROVE  u \in (1..(opened + 1)) \ inFlight' /\ IsRetro(subject'[u])
    <3>1. u \in (1..opened) \ inFlight /\ IsRetro(subject[u]) /\ u # opened + 1
      BY <2>1, <2>6 DEF DetailIsNewest
    <3>2. subject'[u] = subject[u]
      BY <2>1, <2>6, <3>1 DEF TypeOK
    <3> QED
      BY <2>1, <3>1, <3>2 DEF IsRetro
  <2> QED
    BY <2>1, <2>3, <2>4, <2>5, <2>6 DEF DetailIsNewest, Left
<1>4. ASSUME NEW i \in LoadId, DataArrives(i) PROVE DetailIsNewest'
  BY <1>1, <1>4 DEF DataArrives, TypeOK
<1>5. ASSUME NEW i \in LoadId, ReadList(i) \/ ReadFails(i) PROVE DetailIsNewest'
  BY <1>1, <1>5 DEF ReadList, ReadFails
<1>6. CASE NextTab \/ PrevTab \/ Down \/ Up
  BY <1>1, <1>6 DEF NextTab, PrevTab, GoToTab, Down, Up, MoveCursor
<1>7. CASE Change \/ Refresh \/ Quit \/ QuitArrives
  BY <1>1, <1>7 DEF Change, Refresh, Quit, QuitArrives
<1>8. CASE UNCHANGED vars
  BY <1>1, <1>8 DEF vars
<1>9. ASSUME NEW o \in OpenId, DetailArrives(o) PROVE DetailIsNewest'
  <2>1. o \in inFlight /\ subject' = subject /\ unread' = unread
    BY <1>9 DEF DetailArrives, Deliver
  <2>2. o \notin unread
    BY <2>1 DEF DetailIsNewest
  <2>3. subject[o] = Left(o)' /\ Deliver(o, subject[o])
    BY <1>9, <2>1, <2>2 DEF DetailArrives, DetailOf, Left
  <2>4. \A u \in unread' \ unread : u = o /\ IsRetro(subject[o])
    BY <2>1
  <2> HIDE DEF model, loads, opens, outside, history
  <2> QED
    BY <1>2, <2>3, <2>4
<1>10. ASSUME NEW o \in OpenId, RetroUnread(o) PROVE DetailIsNewest'
  <2>1. Blank = Left(o)'
    BY <1>10 DEF RetroUnread, Left
  <2> QED
    BY <1>2, <1>10, <2>1 DEF RetroUnread
<1> QED
  BY <1>3, <1>4, <1>5, <1>6, <1>7, <1>8, <1>9, <1>10 DEF Next

LEMMA NewestStep ==
    ASSUME TuiAssumption, TypeOK, ListsAreNewest, [Next]_vars
    PROVE  ListsAreNewest'
<1> USE DEF model, loads, opens, outside, history
<1>0. /\ loaded \in LoadId /\ loaded \in Nat /\ newest.load \in 0..loaded
      /\ at \in [LoadId -> Idle..Arrived]
  <2>1. loaded \in LoadId /\ at \in [LoadId -> Idle..Arrived]
    BY DEF TypeOK
  <2>2. loaded \in Nat
    BY <2>1 DEF LoadId, TuiAssumption
  <2> QED
    BY <2>1, <2>2 DEF ListsAreNewest
<1>1. ASSUME newest'.load = newest.load, loaded' = loaded, at' = at, read' = read,
             lists' = lists, err' = err, failed' = failed,
             "load" \in overtaken => "load" \in overtaken'
      PROVE  ListsAreNewest'
  BY <1>1 DEF ListsAreNewest
<1>2. ASSUME NEW i \in LoadId, ReadList(i) \/ ReadFails(i) PROVE ListsAreNewest'
  <2>1. /\ newest' = newest /\ loaded' = loaded /\ lists' = lists /\ err' = err
        /\ overtaken' = overtaken
        /\ at[i] \in Tab /\ at[i] # Idle /\ at'[i] # Idle
        /\ \A j \in LoadId : j # i => at'[j] = at[j] /\ read'[j] = read[j]
                                      /\ (j \in failed' <=> j \in failed)
    <3>1. at[i] \in Tab /\ at[i] # Idle /\ at[i] + 1 # Idle /\ Arrived # Idle
      BY <1>2 DEF ReadList, ReadFails, Tab, tabCount, Idle, Arrived
    <3>2. CASE ReadList(i)
      BY <1>0, <3>1, <3>2 DEF ReadList, TypeOK
    <3>3. CASE ReadFails(i)
      BY <1>0, <3>1, <3>3 DEF ReadFails, TypeOK
    <3> QED
      BY <1>2, <3>2, <3>3
  <2>2. newest.load > 0 => newest.load \in LoadId /\ newest.load # i
    BY <1>0, <2>1 DEF ListsAreNewest, LoadId
  <2>3. i <= loaded
    BY <1>0, <2>1 DEF ListsAreNewest, LoadId
  <2>4. \A j \in LoadId : j > loaded => at'[j] = Idle /\ j \notin failed'
    BY <1>0, <2>1, <2>3 DEF ListsAreNewest, LoadId
  <2>5. newest.load > 0 => /\ at'[newest.load] = Idle
                           /\ lists = read'[newest.load]
                           /\ err = (newest.load \in failed')
    BY <2>1, <2>2 DEF ListsAreNewest
  <2>6. "load" \notin overtaken =>
            \A j \in 1..loaded : at'[j] = Idle => j <= newest.load
    BY <1>0, <2>1 DEF ListsAreNewest, LoadId
  <2> QED
    BY <1>0, <2>1, <2>4, <2>5, <2>6 DEF ListsAreNewest
<1>3. ASSUME NEW i \in LoadId, DataArrives(i) PROVE ListsAreNewest'
  <2>1. /\ newest'.load = i /\ loaded' = loaded /\ lists' = read[i]
        /\ err' = (i \in failed) /\ failed' = failed /\ read' = read
        /\ overtaken' = IF i < newest.load THEN overtaken \cup {"load"} ELSE overtaken
        /\ at[i] # Idle /\ at'[i] = Idle
        /\ \A j \in LoadId : j # i => at'[j] = at[j]
    BY <1>0, <1>3 DEF DataArrives, ListsFrom, TypeOK, tabCount, Idle, Arrived
  <2>2. i <= loaded /\ i \in 0..loaded
    BY <1>0, <2>1 DEF ListsAreNewest, LoadId
  <2>3. \A j \in LoadId : j > loaded => at'[j] = Idle /\ j \notin failed'
    BY <1>0, <2>1, <2>2 DEF ListsAreNewest, LoadId
  <2>4. ASSUME "load" \notin overtaken', NEW j \in 1..loaded, at'[j] = Idle
        PROVE  j <= i
    <3>1. "load" \notin overtaken /\ ~(i < newest.load)
      BY <2>1, <2>4
    <3>2. j = i \/ j <= newest.load
      BY <1>0, <2>1, <2>4, <3>1 DEF ListsAreNewest, LoadId
    <3> QED
      BY <1>0, <2>2, <3>1, <3>2
  <2> QED
    BY <2>1, <2>2, <2>3, <2>4 DEF ListsAreNewest
<1>4. CASE Refresh
  <2>1. /\ newest' = newest /\ loaded' = loaded + 1 /\ lists' = lists /\ err' = err
        /\ overtaken' = overtaken /\ read' = read /\ failed' = failed
        /\ loaded + 1 \in LoadId
        /\ at' = [at EXCEPT ![loaded + 1] = 0]
    BY <1>0, <1>4 DEF Refresh, LoadId, TuiAssumption
  <2>2. at'[loaded + 1] # Idle /\ \A j \in LoadId : j # loaded + 1 => at'[j] = at[j]
    BY <1>0, <2>1 DEF Idle
  <2>3. newest.load \in 0..(loaded + 1) /\ newest.load # loaded + 1
    BY <1>0
  <2>4. newest.load > 0 => at'[newest.load] = at[newest.load]
    BY <1>0, <2>2, <2>3 DEF LoadId
  <2>5. \A j \in LoadId : j > loaded + 1 => at'[j] = Idle /\ j \notin failed
    BY <1>0, <2>2 DEF ListsAreNewest, LoadId
  <2>6. "load" \notin overtaken =>
            \A j \in 1..(loaded + 1) : at'[j] = Idle => j <= newest.load
    BY <1>0, <2>2 DEF ListsAreNewest, LoadId
  <2> QED
    BY <2>1, <2>3, <2>4, <2>5, <2>6 DEF ListsAreNewest
<1>5. ASSUME NEW o \in OpenId, DetailArrives(o) \/ RetroUnread(o)
      PROVE  ListsAreNewest'
  BY <1>1, <1>5 DEF DetailArrives, RetroUnread, Deliver, TypeOK
<1>6. CASE NextTab \/ PrevTab \/ Down \/ Up
  BY <1>1, <1>6 DEF NextTab, PrevTab, GoToTab, Down, Up, MoveCursor
<1>7. CASE Change \/ Open \/ Quit \/ QuitArrives
  BY <1>1, <1>7 DEF Change, Open, Quit, QuitArrives
<1>8. CASE UNCHANGED vars
  BY <1>1, <1>8 DEF vars
<1> QED
  BY <1>2, <1>3, <1>4, <1>5, <1>6, <1>7, <1>8 DEF Next

LEMMA WorldStep ==
    ASSUME TypeOK, ListsAreNewest, LatestReadsWorld, [Next]_vars
    PROVE  LatestReadsWorld'
<1> USE DEF model, loads, opens, outside, history
<1>0. loaded \in LoadId /\ at \in [LoadId -> Idle..Arrived] /\ Tab \subseteq Int
      /\ \A i \in LoadId : at[i] \in Int
  <2>1. loaded \in LoadId /\ at \in [LoadId -> Idle..Arrived]
    BY DEF TypeOK
  <2>2. Tab \subseteq Int /\ Idle..Arrived \subseteq Int
    BY DEF Tab, tabCount, Idle, Arrived
  <2> QED
    BY <2>1, <2>2
<1>1. ASSUME loaded' = loaded, failed' = failed, at' = at, read' = read,
             world' = world, dirty' = dirty
      PROVE  LatestReadsWorld'
  BY <1>1 DEF LatestReadsWorld
<1>2. CASE Change
  <2>1. PICK t \in Tab : \E l \in Listing[t] :
            world' = [world EXCEPT ![t] = l] /\ dirty' = dirty \cup {t}
    BY <1>2 DEF Change
  <2>2. \A u \in Tab \ dirty' : u \in Tab \ dirty /\ world'[u] = world[u]
    BY <2>1 DEF TypeOK
  <2>3. UNCHANGED <<loaded, failed, at, read>>
    BY <1>2 DEF Change
  <2> QED
    BY <2>2, <2>3 DEF LatestReadsWorld
<1>3. ASSUME NEW i \in LoadId, ReadList(i) PROVE LatestReadsWorld'
  <2>1. /\ UNCHANGED <<loaded, failed, world, dirty>>
        /\ at[i] \in Tab
        /\ read' = [read EXCEPT ![i][at[i]] = world[at[i]]]
        /\ at' = [at EXCEPT ![i] = at[i] + 1]
    BY <1>3 DEF ReadList
  <2>2. CASE i # loaded
    <3>1. at'[loaded] = at[loaded] /\ read'[loaded] = read[loaded]
      BY <1>0, <2>1, <2>2 DEF TypeOK
    <3> QED
      BY <2>1, <3>1 DEF LatestReadsWorld
  <2>3. CASE i = loaded
    <3>1. at'[loaded] = at[loaded] + 1 /\ at[loaded] \in Tab
      BY <1>0, <2>1, <2>3
    <3>2. /\ read'[loaded][at[loaded]] = world[at[loaded]]
          /\ \A t \in Tab : t # at[loaded] => read'[loaded][t] = read[loaded][t]
      BY <1>0, <2>1, <2>3 DEF TypeOK
    <3>3. at'[loaded] # Idle
      BY <3>1 DEF Tab, tabCount, Idle
    <3>4. \A t \in Tab : t < at'[loaded] => t < at[loaded] \/ t = at[loaded]
      BY <1>0, <3>1
    <3> QED
      BY <2>1, <3>2, <3>3, <3>4 DEF LatestReadsWorld
  <2> QED
    BY <2>2, <2>3
<1>4. ASSUME NEW i \in LoadId, ReadFails(i) PROVE LatestReadsWorld'
  <2>1. /\ UNCHANGED <<loaded, read, world, dirty>> /\ failed' = failed \cup {i}
        /\ \A j \in LoadId : j # i => at'[j] = at[j]
    BY <1>0, <1>4 DEF ReadFails
  <2>2. i # loaded => at'[loaded] = at[loaded]
    BY <1>0, <2>1
  <2> QED
    BY <2>1, <2>2 DEF LatestReadsWorld
<1>5. ASSUME NEW i \in LoadId, DataArrives(i) PROVE LatestReadsWorld'
  <2>1. /\ UNCHANGED <<loaded, failed, read, world, dirty>>
        /\ at[i] = Arrived
        /\ \A j \in LoadId : j # i => at'[j] = at[j]
    BY <1>0, <1>5 DEF DataArrives
  <2>2. i = loaded => \A t \in Tab : t < at[loaded]
    BY <2>1 DEF Tab, tabCount, Arrived
  <2>3. i # loaded => at'[loaded] = at[loaded]
    BY <1>0, <2>1
  <2> QED
    BY <2>1, <2>2, <2>3 DEF LatestReadsWorld
<1>6. CASE Refresh
  <2>1. loaded' \in LoadId /\ at'[loaded'] = 0
    BY <1>0, <1>6, TypeStep, TuiAssumption DEF Refresh, TypeOK
  <2>2. \A t \in Tab : ~(t < 0)
    BY DEF Tab, tabCount
  <2> QED
    BY <2>1, <2>2 DEF LatestReadsWorld, Idle
<1>7. ASSUME NEW o \in OpenId, DetailArrives(o) \/ RetroUnread(o)
      PROVE  LatestReadsWorld'
  BY <1>1, <1>7 DEF DetailArrives, RetroUnread, Deliver
<1>8. CASE NextTab \/ PrevTab \/ Down \/ Up
  BY <1>1, <1>8 DEF NextTab, PrevTab, GoToTab, Down, Up, MoveCursor
<1>9. CASE Open \/ Quit \/ QuitArrives
  BY <1>1, <1>9 DEF Open, Quit, QuitArrives
<1>10. CASE UNCHANGED vars
  BY <1>1, <1>10 DEF vars
<1> QED
  BY <1>2, <1>3, <1>4, <1>5, <1>6, <1>7, <1>8, <1>9, <1>10 DEF Next

-----------------------------------------------------------------------------
\* The invariant holds for any lists, loads, details and changes.
THEOREM Inductive == Spec => []Consistent
<1> DEFINE I == TypeOK /\ DetailIsNewest /\ ListsAreNewest /\ LatestReadsWorld
                /\ CursorOnItem
<1>1. Init => I
  BY TuiAssumption, Initial DEF Consistent
<1>2. I /\ [Next]_vars => I'
  <2> SUFFICES ASSUME I, [Next]_vars PROVE I'
    OBVIOUS
  <2>1. TypeOK'
    BY TuiAssumption, TypeStep
  <2>2. CursorOnItem'
    BY <2>1, CursorStep
  <2>3. DetailIsNewest'
    BY TuiAssumption, DetailStep
  <2>4. ListsAreNewest'
    BY TuiAssumption, NewestStep
  <2>5. LatestReadsWorld'
    BY WorldStep
  <2> QED
    BY <2>1, <2>2, <2>3, <2>4, <2>5
<1>3. I => Consistent
  BY PaneFollows, ListsFollow DEF Consistent
<1> QED
  BY <1>1, <1>2, <1>3, PTL DEF Spec

\* The selected item exists, or the list is empty.
THEOREM SelectionIsThere == Spec => []CursorOnItem
<1>1. Consistent => CursorOnItem
  BY DEF Consistent
<1> QED
  BY <1>1, Inductive, PTL

\* The pane is about the item that was opened last, or empty because that is a
\* retro that could not be read.
THEOREM PaneIsRight == Spec => []PaneShowsOpened
<1>1. Consistent => PaneShowsOpened
  BY DEF Consistent
<1> QED
  BY <1>1, Inductive, PTL

\* What the lists show is the latest load, error or not.
THEOREM ListsAreRight == Spec => []ListsAreCurrent
<1>1. Consistent => ListsAreCurrent
  BY DEF Consistent
<1> QED
  BY <1>1, Inductive, PTL
=============================================================================
