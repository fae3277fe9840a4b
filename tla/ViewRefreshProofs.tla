-------------------------- MODULE ViewRefreshProofs --------------------------
(***************************************************************************)
(* ViewRefresh for any number of tabs, refreshes and scans.                *)
(***************************************************************************)
EXTENDS ViewRefresh, TLAPS

\* A refresh whose data is still due waits in the channel or has been taken
\* out of it by a worker about to make its first query, or the worker is gone.
DueInv == due => requests # <<>> \/ worker \in {"summary", "gone"}

\* A request that does not fit is dropped only because one is waiting.
LEMMA DueStep == DueInv /\ [Next]_vars => DueInv'
<1> SUFFICES ASSUME DueInv, [Next]_vars PROVE DueInv'
    OBVIOUS
<1> USE DEF DueInv, uiVars, workerVars, viewVars
<1>1. CASE ScanCommits
    BY <1>1 DEF ScanCommits
<1>2. CASE Select
  <2>1. ASSUME NEW s, RefreshView(s), UNCHANGED workerVars PROVE DueInv'
      BY <2>1 DEF RefreshView
  <2>2. CASE \E t \in Tab : SelectTab(t)
      BY <2>1, <2>2 DEF SelectTab
  <2>3. CASE \E p \in {"dashboard", "charts"} : SelectPage(p)
      BY <2>1, <2>3 DEF SelectPage
  <2>4. CASE \E r \in Preset \cup {Custom} : SelectChartRange(r)
      BY <2>1, <2>4 DEF SelectChartRange
  <2>5. CASE \E d \in Dates \cup {NoDates} : PickDates(d)
      BY <2>1, <2>5 DEF PickDates
  <2> QED
      BY <1>2, <2>2, <2>3, <2>4, <2>5 DEF Select
<1>3. CASE ScanCompleted
    BY <1>3 DEF ScanCompleted, RefreshView
<1>4. CASE ApplySnapshot
    BY <1>4 DEF ApplySnapshot
<1>5. CASE OpenBall
    BY <1>5 DEF OpenBall
<1>6. CASE Worker
    BY <1>6 DEF Worker, OpenRead, Receive, QuerySummary, QueryRest, Post
<1>7. CASE UNCHANGED vars
    BY <1>7 DEF vars
<1> QED
    BY <1>1, <1>2, <1>3, <1>4, <1>5, <1>6, <1>7 DEF Next

\* A refresh_view whose try_send fails loses no data: the request in its way
\* is taken, and its first query made, after the call.
THEOREM WorkerSawLastRefreshCorrect == Spec => []WorkerSawLastRefresh
<1>1. Init => DueInv
    BY DEF Init, DueInv
<1>2. DueInv => WorkerSawLastRefresh
    BY DEF DueInv, WorkerSawLastRefresh
<1> QED
    BY <1>1, <1>2, DueStep, PTL DEF Spec

-----------------------------------------------------------------------------
\* A snapshot's summary is over the snapshot's own tab.
Labelled(s) == s.summary # NoData => s.summary.over = s.tab

\* The worker's snapshot has the fields of a ViewSnapshot.
Shaped(s) ==
    s = [seq |-> s.seq, tab |-> s.tab, summary |-> s.summary, rest |-> s.rest,
         asked |-> s.asked, charts |-> s.charts]

\* Snapshots are labelled while they are computed and while they wait in the
\* channel, which holds one at most.
PairInv ==
    /\ worker \in {"summary", "rest", "post"} => Shaped(snap) /\ Labelled(snap)
    /\ \/ snapshots = <<>>
       \/ snapshots = <<Head(snapshots)>> /\ Labelled(Head(snapshots))
    /\ BallIsPaired

\* The label and the number travel together from the request to the ball.
LEMMA PairStep == PairInv /\ [Next]_vars => PairInv'
<1> SUFFICES ASSUME PairInv, [Next]_vars PROVE PairInv'
    OBVIOUS
<1> USE DEF PairInv, BallIsPaired, uiVars, workerVars, viewVars
<1>1. CASE ScanCommits
    BY <1>1 DEF ScanCommits, Shaped, Labelled
<1>2. CASE Select
  <2>1. UNCHANGED <<snapshots, worker, snap, ball>>
      BY <1>2 DEF Select, SelectTab, SelectPage, SelectChartRange, PickDates
  <2> QED
      BY <2>1 DEF Shaped, Labelled
<1>3. CASE ScanCompleted
    BY <1>3 DEF ScanCompleted, Shaped, Labelled
<1>4. CASE ApplySnapshot
  <2>1. snapshots = <<Head(snapshots)>> /\ Labelled(Head(snapshots))
      BY <1>4 DEF ApplySnapshot
  <2>2. snapshots' = <<>> /\ UNCHANGED <<worker, snap>>
      BY <1>4 DEF ApplySnapshot
  <2>3. \/ ball' = ball
        \/ /\ Head(snapshots).summary # NoData
           /\ ball' = [open |-> TRUE, label |-> Head(snapshots).tab,
                       usage |-> Head(snapshots).summary]
      BY <1>4 DEF ApplySnapshot
  <2>4. BallIsPaired'
      BY <2>1, <2>3 DEF Labelled
  <2>5. (worker \in {"summary", "rest", "post"} => Shaped(snap) /\ Labelled(snap))'
      BY <2>2 DEF Shaped, Labelled
  <2> QED
      BY <2>2, <2>4, <2>5, Zenon
<1>5. CASE OpenBall
  <2>1. UNCHANGED <<snapshots, worker, snap>>
      BY <1>5 DEF OpenBall
  <2>2. ball' = [open |-> TRUE, label |-> DefaultTab, usage |-> NoData]
      BY <1>5 DEF OpenBall
  <2>3. BallIsPaired'
      BY <2>2
  <2> QED
      BY <2>1, <2>3 DEF Shaped, Labelled
<1>6. CASE Worker
  <2>1. UNCHANGED ball
      BY <1>6 DEF Worker, OpenRead, Receive, QuerySummary, QueryRest, Post
  <2>2. CASE OpenRead
      BY <2>1, <2>2 DEF OpenRead, Shaped, Labelled
  <2>3. CASE Receive
    <3>1. UNCHANGED snapshots /\ Shaped(snap)' /\ Labelled(snap)'
        BY <2>3 DEF Receive, Shaped, Labelled
    <3> QED
        BY <2>1, <3>1 DEF Labelled
  <2>4. CASE QuerySummary
    <3>1. Shaped(snap) /\ Labelled(snap) /\ UNCHANGED snapshots
        BY <2>4 DEF QuerySummary
    <3>2. \/ snap' = snap
          \/ snap' = [snap EXCEPT !.summary = [over |-> snap.tab, db |-> db]]
        BY <2>4 DEF QuerySummary
    <3>3. Shaped(snap)' /\ Labelled(snap)'
        BY <3>1, <3>2 DEF Shaped, Labelled
    <3> QED
        BY <2>1, <3>1, <3>3 DEF Labelled
  <2>5. CASE QueryRest
    <3>1. Shaped(snap) /\ Labelled(snap) /\ UNCHANGED snapshots
        BY <2>5 DEF QueryRest
    <3>2. PICK rest, charts : snap' = [snap EXCEPT !.rest = rest, !.charts = charts]
        BY <2>5 DEF QueryRest
    <3>3. Shaped(snap)' /\ Labelled(snap)'
        BY <3>1, <3>2 DEF Shaped, Labelled
    <3> QED
        BY <2>1, <3>1, <3>3 DEF Labelled
  <2>6. CASE Post
    <3>1. snapshots' = <<snap>> \/ snapshots' = snapshots
        BY <2>6 DEF Post
    <3>2. worker' = "idle" /\ worker = "post"
        BY <2>6 DEF Post
    <3> QED
        BY <2>1, <3>1, <3>2 DEF Labelled
  <2> QED
      BY <1>6, <2>2, <2>3, <2>4, <2>5, <2>6 DEF Worker
<1>7. CASE UNCHANGED vars
    BY <1>7 DEF vars, Shaped, Labelled
<1> QED
    BY <1>1, <1>2, <1>3, <1>4, <1>5, <1>6, <1>7 DEF Next

\* Whatever is selected while a request is on its way, and whatever is dropped,
\* the ball's label names the period its number was summed over.
THEOREM BallIsPairedCorrect == Spec => []BallIsPaired
<1>1. ASSUME Init PROVE PairInv
  <2>1. worker = "opening" /\ snapshots = <<>>
      BY <1>1 DEF Init
  <2>2. ~ ball.open
      BY <1>1 DEF Init, Closed
  <2>3. worker \notin {"summary", "rest", "post"}
      BY <2>1
  <2>4. BallIsPaired
      BY <2>2 DEF BallIsPaired
  <2> QED
      BY <2>1, <2>3, <2>4, Zenon DEF PairInv
<1>2. PairInv => BallIsPaired
    BY DEF PairInv
<1> QED
    BY <1>1, <1>2, PairStep, PTL DEF Spec

-----------------------------------------------------------------------------
\* Typing.  There is a scan behind every event, and a snapshot that was asked for
\* charts carries the window they are over.
TypeInv ==
    /\ TypeOK /\ events <= db
    /\ worker \in {"summary", "rest"} => (snap.asked => snap.charts \in [over : Window, db : Version])

\* A channel of one is empty or holds its item.
LEMMA SlotHoldsOne ==
  ASSUME NEW S, NEW q \in Seq(S), Len(q) <= 1
  PROVE  q = <<>> \/ (q = <<Head(q)>> /\ Head(q) \in S)
<1>1. PICK n \in Nat : n = Len(q) /\ DOMAIN q = 1 .. n
    OBVIOUS
<1>2. CASE n = 0
    BY <1>1, <1>2
<1>3. CASE n = 1
  <2>1. q[1] \in S /\ Head(q) = q[1]
      BY <1>1, <1>3
  <2>2. q = <<q[1]>>
      BY <1>1, <1>3
  <2> QED
      BY <2>1, <2>2
<1> QED
    BY <1>1, <1>2, <1>3

\* A channel of one is typed by its item.
LEMMA OneIsTyped ==
  ASSUME NEW S, NEW e \in S
  PROVE  <<e>> \in Seq(S) /\ Len(<<e>>) = 1 /\ Head(<<e>>) = e /\ <<e>> # <<>>
    OBVIOUS

\* What the user has chosen is a selection.
LEMMA SelectionIsTyped ==
  ASSUME TypeOK
  PROVE  /\ \A t \in Tab : [sel EXCEPT !.tab = t] \in Selection
         /\ \A p \in {"dashboard", "charts"} : [sel EXCEPT !.page = p] \in Selection
         /\ \A r \in Preset \cup {Custom} : [sel EXCEPT !.range = r, !.custom = NoDates] \in Selection
         /\ \A d \in Dates \cup {NoDates} : [sel EXCEPT !.custom = d] \in Selection
    BY DEF TypeOK, Selection

\* A request for a selection is a request.
LEMMA RequestIsTyped ==
  ASSUME NEW s \in Selection, NEW n \in 1 .. MaxSeq
  PROVE  RequestFor(s, n) \in Request
<1>1. s.tab \in Tab /\ s.range \in Preset \cup {Custom} /\ s.custom \in Dates \cup {NoDates}
    BY DEF Selection
<1>2. ChartWindow(s) \in Window
    BY <1>1 DEF ChartWindow, Window
<1> QED
    BY <1>1, <1>2 DEF RequestFor, Request

\* A refresh keeps the types, accepted or refused.
LEMMA RefreshIsTyped ==
  ASSUME TypeOK, NEW s \in Selection, RefreshView(s)
  PROVE  /\ seq' \in 1 .. MaxSeq /\ requests' \in Seq(Request) /\ Len(requests') <= 1
         /\ lost' \in BOOLEAN /\ asked' \in Version /\ due' \in BOOLEAN /\ owed' \in BOOLEAN
<1> USE ConstantsAreTyped DEF ConstantsAreTyped
<1>1. seq' = seq + 1 /\ seq' \in 1 .. MaxSeq
    BY DEF RefreshView, TypeOK
<1>2. /\ requests' = requests \/ requests' = <<RequestFor(s, seq + 1)>>
      /\ lost' \in BOOLEAN /\ asked' = db /\ due' = TRUE /\ owed' = TRUE
    BY DEF RefreshView
<1>3. RequestFor(s, seq + 1) \in Request
    BY <1>1, RequestIsTyped
<1>4. <<RequestFor(s, seq + 1)>> \in Seq(Request) /\ Len(<<RequestFor(s, seq + 1)>>) <= 1
    BY <1>3, OneIsTyped
<1>5. requests' \in Seq(Request) /\ Len(requests') <= 1
    BY <1>2, <1>4 DEF TypeOK
<1> QED
    BY <1>1, <1>2, <1>5 DEF TypeOK

\* Every step keeps the types.
LEMMA TypeStep == TypeInv /\ [Next]_vars => TypeInv'
<1> SUFFICES ASSUME TypeInv, [Next]_vars PROVE TypeInv'
    OBVIOUS
<1> USE ConstantsAreTyped DEF ConstantsAreTyped, TypeInv
<1>1. CASE ScanCommits
  <2>1. db' \in Version /\ events' \in Version /\ events' <= db'
      BY <1>1 DEF ScanCommits, TypeOK, Version
  <2>2. UNCHANGED <<sel, seq, requests, lost, asked, due, owed, snapshots, worker, snap, errors>>
      BY <1>1 DEF ScanCommits, uiVars, workerVars
  <2>3. UNCHANGED <<applied, shown, ball>>
      BY <1>1 DEF ScanCommits, viewVars
  <2> QED
      BY <2>1, <2>2, <2>3 DEF TypeOK
<1>2. CASE Select \/ ScanCompleted
  <2>1. sel' \in Selection /\ (RefreshView(sel') \/ UNCHANGED uiVars)
    <3>1. CASE \E t \in Tab : SelectTab(t)
        BY <3>1, SelectionIsTyped DEF SelectTab
    <3>2. CASE \E p \in {"dashboard", "charts"} : SelectPage(p)
        BY <3>2, SelectionIsTyped DEF SelectPage
    <3>3. CASE \E r \in Preset \cup {Custom} : SelectChartRange(r)
      <4>1. PICK r \in Preset \cup {Custom} : SelectChartRange(r)
          BY <3>3
      <4>2. sel' \in Selection
          BY <4>1, SelectionIsTyped DEF SelectChartRange
      <4>3. RefreshView(sel') \/ UNCHANGED uiVars
          BY <4>1 DEF SelectChartRange
      <4> QED
          BY <4>2, <4>3
    <3>4. CASE \E d \in Dates \cup {NoDates} : PickDates(d)
      <4>1. PICK d \in Dates \cup {NoDates} : PickDates(d)
          BY <3>4
      <4>2. sel' \in Selection
          BY <4>1, SelectionIsTyped DEF PickDates
      <4>3. RefreshView(sel')
          BY <4>1 DEF PickDates
      <4> QED
          BY <4>2, <4>3
    <3>5. CASE ScanCompleted
        BY <3>5 DEF ScanCompleted, TypeOK
    <3> QED
        BY <1>2, <3>1, <3>2, <3>3, <3>4, <3>5 DEF Select
  <2>2. UNCHANGED <<db, snapshots, worker, snap, errors, applied, shown, ball>>
      BY <1>2 DEF Select, SelectTab, SelectPage, SelectChartRange, PickDates, ScanCompleted,
                  workerVars, viewVars
  <2>3. events' \in Version /\ events' <= db'
    <3>1. events' = events \/ (events > 0 /\ events' = events - 1)
        BY <1>2 DEF Select, SelectTab, SelectPage, SelectChartRange, PickDates, ScanCompleted
    <3> QED
        BY <2>2, <3>1 DEF TypeOK, Version
  <2>4. /\ seq' \in 1 .. MaxSeq /\ requests' \in Seq(Request) /\ Len(requests') <= 1
        /\ lost' \in BOOLEAN /\ asked' \in Version /\ due' \in BOOLEAN /\ owed' \in BOOLEAN
    <3>1. CASE RefreshView(sel')
        BY <2>1, <3>1, RefreshIsTyped
    <3>2. CASE UNCHANGED uiVars
        BY <3>2 DEF uiVars, TypeOK
    <3> QED
        BY <2>1, <3>1, <3>2
  <2> QED
      BY <2>1, <2>2, <2>3, <2>4 DEF TypeOK
<1>3. CASE ApplySnapshot
  <2>1. PICK s \in Snapshot : s = Head(snapshots)
    <3>1. snapshots # <<>> /\ snapshots \in Seq(Snapshot) /\ Len(snapshots) <= 1
        BY <1>3 DEF ApplySnapshot, TypeOK
    <3> QED
        BY <3>1, SlotHoldsOne
  <2>2. /\ s.seq \in 1 .. MaxSeq /\ s.tab \in Tab /\ s.summary \in Totals /\ s.rest \in Totals
        /\ s.charts \in Charts
      BY <2>1 DEF Snapshot
  <2>3. /\ snapshots' = <<>> /\ UNCHANGED <<db, events, sel, seq, requests, lost, asked, due>>
        /\ UNCHANGED <<worker, snap, errors>>
      BY <1>3 DEF ApplySnapshot, workerVars
  <2>8. \/ UNCHANGED <<applied, shown, ball, owed>>
        \/ /\ applied' = s.seq /\ owed' = FALSE
           /\ \E charts \in {s.charts, shown.charts} :
                shown' = [summary |-> s.summary, rest |-> s.rest, charts |-> charts]
           /\ ball' \in {ball, [open |-> TRUE, label |-> s.tab, usage |-> s.summary]}
      BY <1>3, <2>1 DEF ApplySnapshot, viewVars
  <2>4. applied' \in 0 .. MaxSeq /\ owed' \in BOOLEAN
    <3>1. s.seq \in 0 .. MaxSeq
        BY <2>2
    <3> QED
        BY <2>8, <3>1 DEF TypeOK
  <2>5. shown' \in [summary : Totals, rest : Totals, charts : Charts]
    <3>1. shown.charts \in Charts
        BY DEF TypeOK
    <3> QED
        BY <2>2, <2>8, <3>1 DEF TypeOK
  <2>6. ball' = Closed \/ ball' \in [open : {TRUE}, label : Tab, usage : Totals]
    <3>1. [open |-> TRUE, label |-> s.tab, usage |-> s.summary]
            \in [open : {TRUE}, label : Tab, usage : Totals]
        BY <2>2
    <3> QED
        BY <2>8, <3>1 DEF TypeOK
  <2>7. <<>> \in Seq(Snapshot) /\ Len(<<>>) <= 1
      OBVIOUS
  <2> QED
      BY <2>3, <2>4, <2>5, <2>6, <2>7 DEF TypeOK
<1>4. CASE OpenBall
  <2>1. ball' \in [open : {TRUE}, label : Tab, usage : Totals]
      BY <1>4 DEF OpenBall, Totals
  <2>2. UNCHANGED <<db, events, sel, seq, requests, lost, asked, due, owed, snapshots>>
      BY <1>4 DEF OpenBall, uiVars
  <2>3. UNCHANGED <<worker, snap, errors, applied, shown>>
      BY <1>4 DEF OpenBall, workerVars
  <2> QED
      BY <2>1, <2>2, <2>3 DEF TypeOK
<1>5. CASE OpenRead
  <2>1. <<>> \in Seq(Request) /\ Len(<<>>) <= 1
      OBVIOUS
  <2>2. worker' \in {"idle", "gone"} /\ (requests' = requests \/ requests' = <<>>)
      BY <1>5 DEF OpenRead
  <2>3. /\ UNCHANGED <<db, events, sel, seq, lost, asked, due, owed, snapshots, snap, errors>>
        /\ UNCHANGED <<applied, shown, ball>>
      BY <1>5 DEF OpenRead, viewVars
  <2> QED
      BY <2>1, <2>2, <2>3 DEF TypeOK
<1>6. CASE Receive
  <2>1. PICK r \in Request : r = Head(requests)
    <3>1. requests # <<>> /\ requests \in Seq(Request) /\ Len(requests) <= 1
        BY <1>6 DEF Receive, TypeOK
    <3> QED
        BY <3>1, SlotHoldsOne
  <2>2. r.seq \in 1 .. MaxSeq /\ r.tab \in Tab /\ r.charts \in Window \cup {NoCharts}
      BY <2>1 DEF Request
  <2>3. 0 \in Version
      BY DEF Version
  <2>4. /\ snap' \in Snapshot
        /\ snap'.asked => snap'.charts \in [over : Window, db : Version]
      BY <1>6, <2>1, <2>2, <2>3 DEF Receive, Snapshot, Totals, Charts
  <2>5. <<>> \in Seq(Request) /\ Len(<<>>) <= 1
      OBVIOUS
  <2>6. /\ requests' = <<>> /\ worker' = "summary"
        /\ UNCHANGED <<db, events, sel, seq, lost, asked, due, owed, snapshots, errors>>
        /\ UNCHANGED <<applied, shown, ball>>
      BY <1>6 DEF Receive, viewVars
  <2> QED
      BY <2>4, <2>5, <2>6 DEF TypeOK
<1>7. CASE QuerySummary
  <2>1. /\ snap \in Snapshot /\ (snap.asked => snap.charts \in [over : Window, db : Version])
        /\ db \in Version
      BY <1>7 DEF QuerySummary, TypeOK
  <2>2. snap' = snap \/ snap' = [snap EXCEPT !.summary = [over |-> snap.tab, db |-> db]]
      BY <1>7 DEF QuerySummary
  <2>3. snap' \in Snapshot /\ (snap'.asked => snap'.charts \in [over : Window, db : Version])
      BY <2>1, <2>2 DEF Snapshot, Totals
  <2>4. errors' \in 0 .. MaxErrors
      BY <1>7 DEF QuerySummary, Query, TypeOK
  <2>5. /\ worker' = "rest" /\ due' = FALSE
        /\ UNCHANGED <<db, events, sel, seq, requests, lost, asked, owed, snapshots>>
        /\ UNCHANGED <<applied, shown, ball>>
      BY <1>7 DEF QuerySummary, viewVars
  <2> QED
      BY <2>3, <2>4, <2>5 DEF TypeOK
<1>8. CASE QueryRest
  <2>1. /\ snap \in Snapshot /\ (snap.asked => snap.charts \in [over : Window, db : Version])
        /\ db \in Version
      BY <1>8 DEF QueryRest, TypeOK
  <2>2. PICK rest, charts : /\ snap' = [snap EXCEPT !.rest = rest, !.charts = charts]
                            /\ rest \in {[over |-> snap.tab, db |-> db], NoData}
                            /\ charts = IF snap.asked THEN [snap.charts EXCEPT !.db = db] ELSE NoData
      BY <1>8 DEF QueryRest
  <2>3. rest \in Totals
      BY <2>1, <2>2 DEF Snapshot, Totals
  <2>4. charts \in Charts
      BY <2>1, <2>2 DEF Charts
  <2>5. snap' \in Snapshot
      BY <2>1, <2>2, <2>3, <2>4 DEF Snapshot
  <2>6. errors' \in 0 .. MaxErrors
      BY <1>8 DEF QueryRest, Query, TypeOK
  <2>7. /\ worker' = "post"
        /\ UNCHANGED <<db, events, sel, seq, requests, lost, asked, due, owed, snapshots>>
        /\ UNCHANGED <<applied, shown, ball>>
      BY <1>8 DEF QueryRest, uiVars, viewVars
  <2> QED
      BY <2>5, <2>6, <2>7 DEF TypeOK
<1>9. CASE Post
  <2>1. snap \in Snapshot
      BY <1>9 DEF Post, TypeOK
  <2>2. <<snap>> \in Seq(Snapshot) /\ Len(<<snap>>) <= 1
      BY <2>1, OneIsTyped
  <2>3. /\ worker' = "idle" /\ (snapshots' = <<snap>> \/ snapshots' = snapshots)
        /\ lost' \in {lost, TRUE}
        /\ UNCHANGED <<db, events, sel, seq, requests, asked, due, owed, snap, errors>>
        /\ UNCHANGED <<applied, shown, ball>>
      BY <1>9 DEF Post, viewVars
  <2> QED
      BY <2>1, <2>2, <2>3 DEF TypeOK
<1>10. CASE UNCHANGED vars
    BY <1>10 DEF vars, uiVars, workerVars, viewVars, TypeOK
<1> QED
    BY <1>1, <1>2, <1>3, <1>4, <1>5, <1>6, <1>7, <1>8, <1>9, <1>10 DEF Next, Worker

\* The types at the start.
LEMMA TypeStart == Init => TypeInv
<1> SUFFICES ASSUME Init PROVE TypeInv
    OBVIOUS
<1> USE ConstantsAreTyped DEF ConstantsAreTyped
<1>1. FirstSelection \in Selection
    BY DEF FirstSelection, Selection
<1>2. RequestFor(FirstSelection, 1) \in Request
    BY <1>1, RequestIsTyped
<1>3. requests \in Seq(Request) /\ Len(requests) <= 1
    BY <1>2, OneIsTyped DEF Init
<1>4. snapshots \in Seq(Snapshot) /\ Len(snapshots) <= 1
  <2>1. <<>> \in Seq(Snapshot) /\ Len(<<>>) <= 1
      OBVIOUS
  <2> QED
      BY <2>1 DEF Init
<1> QED
  <2>1. /\ db \in Version /\ events \in Version /\ events <= db /\ asked \in Version
        /\ sel \in Selection /\ seq \in 1 .. MaxSeq /\ applied \in 0 .. MaxSeq
      BY <1>1 DEF Init, Version
  <2>2. worker = "opening" /\ errors \in 0 .. MaxErrors /\ ball = Closed
      BY DEF Init
  <2>3. lost \in BOOLEAN /\ due \in BOOLEAN /\ owed \in BOOLEAN
      BY DEF Init
  <2>4. shown \in [summary : Totals, rest : Totals, charts : Charts]
      BY DEF Init, Totals, Charts
  <2> QED
      BY <1>3, <1>4, <2>1, <2>2, <2>3, <2>4 DEF TypeInv, TypeOK

\* The window's channels hold one item at most, whatever the handlers do, and what
\* passes through them is of the period that was asked for.
THEOREM TypeCorrect == Spec => []TypeOK
<1>1. TypeInv => TypeOK
    BY DEF TypeInv
<1> QED
    BY <1>1, TypeStart, TypeStep, PTL DEF Spec

-----------------------------------------------------------------------------
\* The last refresh.  Where nothing has been dropped since it was accepted it is the
\* request with the newest number; it fits what is selected wherever it is: in the
\* channel, at the worker, in the snapshot channel or on screen.
Busy == {"summary", "rest", "post"}

\* A chart over the window w is the one the charts page wants.
ChartFits(w) == sel.page = "charts" => w # NoCharts /\ (ChartWindow(sel) # Custom => w = ChartWindow(sel))

TotalsFit(t) == errors = 0 => t # NoData /\ t.over = sel.tab /\ t.db >= asked

RequestFits(r) == r.seq = seq /\ r.tab = sel.tab /\ ChartFits(r.charts)

SnapFits(s) ==
    /\ s.seq = seq /\ s.tab = sel.tab
    /\ sel.page = "charts" => s.asked
    /\ s.asked => s.charts # NoData /\ ChartFits(s.charts.over)

ShownFits ==
    /\ TotalsFit(shown.summary) /\ TotalsFit(shown.rest)
    /\ sel.page = "charts" => shown.charts # NoData /\ ChartFits(shown.charts.over)

InChannel == requests # <<>> /\ RequestFits(Head(requests))
AtWorker ==
    /\ requests = <<>> /\ worker \in Busy /\ SnapFits(snap)
    /\ worker # "summary" => TotalsFit(snap.summary)
    /\ worker = "post" => TotalsFit(snap.rest)
Answered ==
    /\ requests = <<>> /\ worker = "idle" /\ snapshots # <<>> /\ SnapFits(Head(snapshots))
    /\ TotalsFit(Head(snapshots).summary) /\ TotalsFit(Head(snapshots).rest)
OnScreen == requests = <<>> /\ worker = "idle" /\ snapshots = <<>> /\ ShownFits

LastInv ==
    /\ asked <= db /\ applied <= seq
    /\ requests # <<>> => Head(requests).seq <= seq
    /\ worker \in Busy => snap.seq <= seq
    /\ snapshots # <<>> => Head(snapshots).seq <= seq
    /\ ~ lost /\ worker # "gone" => InChannel \/ AtWorker \/ Answered \/ OnScreen

\* No answer of a query looks like one that was not given.
LEMMA NoDataIsNoAnswer ==
  ASSUME NEW v \in Version
  PROVE  /\ \A t \in Tab : [over |-> t, db |-> v] # NoData
         /\ \A w \in Window : [over |-> w, db |-> v] # NoData /\ w # NoCharts
<1>1. Window = Preset \cup Dates \cup {Custom}
    BY DEF Window
<1> QED
    BY <1>1, ConstantsAreTyped DEF ConstantsAreTyped, Version

\* A refresh that is accepted is the last one, and one that is not leaves it dropped.
LEMMA LastRefresh ==
  ASSUME TypeInv, LastInv, sel' \in Selection, RefreshView(sel'),
         UNCHANGED <<db, snapshots, worker, snap, errors, applied, shown>>
  PROVE  LastInv'
<1> USE ConstantsAreTyped DEF ConstantsAreTyped
<1>0. seq \in 1 .. MaxSeq /\ db \in Version /\ applied \in 0 .. MaxSeq /\ seq' = seq + 1
    BY DEF TypeInv, TypeOK, RefreshView
<1>1. PICK r : r = RequestFor(sel', seq + 1)
    OBVIOUS
<1>2. asked' <= db'
    BY <1>0 DEF RefreshView, Version
<1>3. applied' <= seq'
    BY <1>0 DEF LastInv
<1>4. r.seq = seq' /\ r.tab = sel'.tab /\ r.charts = IF sel'.page = "charts" THEN ChartWindow(sel') ELSE NoCharts
    BY <1>0, <1>1 DEF RequestFor
<1>5. Head(<<r>>) = r /\ <<r>> # <<>>
    OBVIOUS
<1>6. requests' # <<>> => Head(requests').seq <= seq'
  <2>1. CASE requests' = <<r>>
      BY <1>0, <1>4, <1>5, <2>1
  <2>2. CASE requests' = requests
    <3>1. ASSUME requests # <<>> PROVE Head(requests).seq \in 1 .. MaxSeq
      <4>1. Head(requests) \in Request
          BY <3>1, SlotHoldsOne DEF TypeInv, TypeOK
      <4> QED
          BY <4>1 DEF Request
    <3> QED
        BY <1>0, <2>2, <3>1 DEF LastInv
  <2> QED
      BY <1>1, <2>1, <2>2 DEF RefreshView
<1>7. worker' \in Busy => snap'.seq <= seq'
  <2>1. worker \in Busy => snap.seq \in 1 .. MaxSeq
      BY DEF TypeInv, TypeOK, Busy, Snapshot
  <2> QED
      BY <1>0, <2>1 DEF LastInv
<1>8. snapshots' # <<>> => Head(snapshots').seq <= seq'
  <2>1. ASSUME snapshots # <<>> PROVE Head(snapshots).seq \in 1 .. MaxSeq
    <3>1. Head(snapshots) \in Snapshot
        BY <2>1, SlotHoldsOne DEF TypeInv, TypeOK
    <3> QED
        BY <3>1 DEF Snapshot
  <2> QED
      BY <1>0, <2>1 DEF LastInv
<1>9. ASSUME ~ lost' PROVE InChannel'
  <2>1. requests' = <<r>>
      BY <1>1, <1>9 DEF RefreshView
  <2>2. sel'.page = "charts" => ChartWindow(sel') # NoCharts
      BY DEF ChartWindow, Selection
  <2> QED
      BY <1>4, <1>5, <2>1, <2>2 DEF InChannel, RequestFits, ChartFits
<1> QED
    BY <1>2, <1>3, <1>6, <1>7, <1>8, <1>9 DEF LastInv

\* A selection that asks for no refresh asks for no other data.
LEMMA LastIsKept ==
  ASSUME LastInv, sel'.tab = sel.tab,
         \/ sel'.page # "charts"
         \/ sel'.page = sel.page /\ (ChartWindow(sel') = Custom \/ ChartWindow(sel') = ChartWindow(sel)),
         UNCHANGED <<seq, requests, lost, asked, snapshots, worker, snap, errors, applied, shown>>,
         db <= db', db \in Nat, db' \in Nat, asked \in Nat
  PROVE  LastInv'
<1>1. \A w : ChartFits(w) => ChartFits(w)'
    BY DEF ChartFits
<1>2. sel'.page = "charts" => sel.page = "charts"
    OBVIOUS
<1>3. \A t : TotalsFit(t) => TotalsFit(t)'
    BY DEF TotalsFit
<1>4. \A r : RequestFits(r) => RequestFits(r)'
    BY <1>1 DEF RequestFits
<1>5. \A s : SnapFits(s) => SnapFits(s)'
    BY <1>1, <1>2 DEF SnapFits
<1>6. ShownFits => ShownFits'
    BY <1>1, <1>2, <1>3 DEF ShownFits
<1>7. InChannel => InChannel'
    BY <1>4 DEF InChannel
<1>8. AtWorker => AtWorker'
    BY <1>3, <1>5 DEF AtWorker
<1>9. Answered => Answered'
    BY <1>3, <1>5 DEF Answered
<1>10. OnScreen => OnScreen'
    BY <1>6 DEF OnScreen
<1>11. asked' <= db'
    BY DEF LastInv
<1> QED
    BY <1>7, <1>8, <1>9, <1>10, <1>11 DEF LastInv

\* Every step keeps the last refresh where LastInv finds it.
LEMMA LastStep == TypeInv /\ LastInv /\ [Next]_vars => LastInv'
<1> SUFFICES ASSUME TypeInv, LastInv, [Next]_vars PROVE LastInv'
    OBVIOUS
<1> USE ConstantsAreTyped DEF ConstantsAreTyped
<1>0. /\ db \in Nat /\ asked \in Nat /\ seq \in 1 .. MaxSeq /\ applied \in 0 .. MaxSeq
      /\ sel \in Selection /\ errors \in 0 .. MaxErrors /\ asked <= db
    BY DEF TypeInv, TypeOK, Version, LastInv
<1>11. ASSUME requests # <<>> PROVE Head(requests) \in Request /\ requests = <<Head(requests)>>
    BY <1>11, SlotHoldsOne DEF TypeInv, TypeOK
<1>12. ASSUME snapshots # <<>> PROVE Head(snapshots) \in Snapshot /\ snapshots = <<Head(snapshots)>>
    BY <1>12, SlotHoldsOne DEF TypeInv, TypeOK
<1>13. ASSUME UNCHANGED <<db, sel, seq, requests, lost, asked, snapshots, worker, snap, errors, applied, shown>>
       PROVE  LastInv'
    BY <1>0, <1>13, LastIsKept
<1>1. CASE ScanCommits
  <2>1. /\ db' = db + 1
        /\ UNCHANGED <<sel, seq, requests, lost, asked, snapshots, worker, snap, errors, applied, shown>>
      BY <1>1 DEF ScanCommits, uiVars, workerVars, viewVars
  <2>2. db <= db' /\ db' \in Nat
      BY <1>0, <2>1
  <2>3. sel'.tab = sel.tab /\ sel'.page = sel.page /\ ChartWindow(sel') = ChartWindow(sel)
      BY <2>1
  <2> QED
      BY <1>0, <2>1, <2>2, <2>3, LastIsKept
<1>2. CASE Select \/ ScanCompleted
  <2>1. UNCHANGED <<db, snapshots, worker, snap, errors, applied, shown>>
      BY <1>2 DEF Select, SelectTab, SelectPage, SelectChartRange, PickDates, ScanCompleted,
                  workerVars, viewVars
  <2>2. sel' \in Selection
    <3>1. PICK f \in Selection : sel' = f
      <4>1. CASE \E t \in Tab : SelectTab(t)
          BY <4>1, SelectionIsTyped DEF SelectTab, TypeInv
      <4>2. CASE \E p \in {"dashboard", "charts"} : SelectPage(p)
          BY <4>2, SelectionIsTyped DEF SelectPage, TypeInv
      <4>3. CASE \E r \in Preset \cup {Custom} : SelectChartRange(r)
        <5>1. PICK r \in Preset \cup {Custom} : sel' = [sel EXCEPT !.range = r, !.custom = NoDates]
            BY <4>3 DEF SelectChartRange
        <5> QED
            BY <5>1, SelectionIsTyped DEF TypeInv
      <4>4. CASE \E d \in Dates \cup {NoDates} : PickDates(d)
        <5>1. PICK d \in Dates \cup {NoDates} : sel' = [sel EXCEPT !.custom = d]
            BY <4>4 DEF PickDates
        <5> QED
            BY <5>1, SelectionIsTyped DEF TypeInv
      <4>5. CASE ScanCompleted
          BY <1>0, <4>5 DEF ScanCompleted
      <4> QED
          BY <1>2, <4>1, <4>2, <4>3, <4>4, <4>5 DEF Select
    <3> QED
        BY <3>1
  <2>3. CASE RefreshView(sel')
      BY <2>1, <2>2, <2>3, LastRefresh
  <2>4. CASE \E p \in {"dashboard"} : SelectPage(p) /\ UNCHANGED uiVars
    <3>1. sel' = [sel EXCEPT !.page = "dashboard"] /\ UNCHANGED <<seq, requests, lost, asked>>
        BY <2>4 DEF SelectPage, uiVars
    <3>2. sel'.tab = sel.tab /\ sel'.page # "charts"
        BY <1>0, <3>1 DEF Selection
    <3> QED
        BY <1>0, <2>1, <3>1, <3>2, LastIsKept
  <2>5. CASE SelectChartRange(Custom) /\ UNCHANGED uiVars
    <3>1. /\ sel' = [sel EXCEPT !.range = Custom, !.custom = NoDates]
          /\ UNCHANGED <<seq, requests, lost, asked>>
        BY <2>5 DEF SelectChartRange, uiVars
    <3>2. sel'.tab = sel.tab /\ sel'.page = sel.page /\ ChartWindow(sel') = Custom
        BY <1>0, <3>1 DEF Selection, ChartWindow
    <3> QED
        BY <1>0, <2>1, <3>1, <3>2, LastIsKept
  <2>6. RefreshView(sel') \/ (\E p \in {"dashboard"} : SelectPage(p) /\ UNCHANGED uiVars)
        \/ (SelectChartRange(Custom) /\ UNCHANGED uiVars)
    <3>1. CASE \E t \in Tab : SelectTab(t)
        BY <3>1 DEF SelectTab
    <3>2. CASE \E p \in {"dashboard", "charts"} : SelectPage(p)
        BY <3>2 DEF SelectPage
    <3>3. CASE \E r \in Preset \cup {Custom} : SelectChartRange(r)
        BY <3>3 DEF SelectChartRange
    <3>4. CASE \E d \in Dates \cup {NoDates} : PickDates(d)
        BY <3>4 DEF PickDates
    <3>5. CASE ScanCompleted
      <4>1. sel' = sel /\ RefreshView(sel)
          BY <3>5 DEF ScanCompleted
      <4> QED
          BY <4>1
    <3> QED
        BY <1>2, <3>1, <3>2, <3>3, <3>4, <3>5 DEF Select
  <2> QED
      BY <2>3, <2>4, <2>5, <2>6
<1>3. CASE ApplySnapshot
  <2>1. PICK s \in Snapshot : s = Head(snapshots) /\ snapshots # <<>>
      BY <1>3, <1>12 DEF ApplySnapshot
  <2>2. /\ snapshots' = <<>>
        /\ UNCHANGED <<db, sel, seq, requests, lost, asked, worker, snap, errors>>
      BY <1>3 DEF ApplySnapshot, workerVars
  <2>3. \/ s.seq < applied /\ UNCHANGED <<applied, shown>>
        \/ /\ ~ s.seq < applied /\ applied' = s.seq
           /\ shown' = [summary |-> s.summary, rest |-> s.rest,
                        charts |-> IF s.charts # NoData THEN s.charts ELSE shown.charts]
      BY <1>3, <2>1 DEF ApplySnapshot, viewVars
  <2>4. applied' <= seq'
      BY <2>1, <2>2, <2>3 DEF LastInv
  <2>5. CASE Answered
    <3>1. SnapFits(s) /\ TotalsFit(s.summary) /\ TotalsFit(s.rest)
        BY <2>1, <2>5 DEF Answered
    <3>2. ~ s.seq < applied
        BY <1>0, <3>1 DEF SnapFits, LastInv
    <3>3. shown'.summary = s.summary /\ shown'.rest = s.rest
          /\ (s.charts # NoData => shown'.charts = s.charts)
        BY <2>3, <3>2
    <3>4. ShownFits'
        BY <2>2, <3>1, <3>3 DEF ShownFits, SnapFits, TotalsFit, ChartFits
    <3>5. OnScreen'
        BY <2>2, <2>5, <3>4 DEF OnScreen, Answered
    <3> QED
        BY <2>2, <2>4, <3>5 DEF LastInv
  <2>6. CASE ~ Answered
    <3>1. ~ OnScreen
        BY <2>1 DEF OnScreen
    <3>2. InChannel => InChannel'
        BY <2>2 DEF InChannel, RequestFits, ChartFits
    <3>3. AtWorker => AtWorker'
        BY <2>2 DEF AtWorker, SnapFits, TotalsFit, ChartFits
    <3> QED
        BY <2>2, <2>4, <2>6, <3>1, <3>2, <3>3 DEF LastInv
  <2> QED
      BY <2>5, <2>6
<1>4. CASE OpenBall
    BY <1>4, <1>13 DEF OpenBall, uiVars, workerVars
<1>5. CASE OpenRead
  <2>1. /\ UNCHANGED <<db, sel, seq, lost, asked, snapshots, snap, errors, applied, shown>>
        /\ worker = "opening"
      BY <1>5 DEF OpenRead, viewVars
  <2>2. CASE worker' = "idle" /\ UNCHANGED requests
    <3>1. ~ AtWorker /\ ~ Answered /\ ~ OnScreen /\ worker # "gone"
        BY <2>1 DEF AtWorker, Answered, OnScreen, Busy
    <3>2. InChannel => InChannel'
        BY <2>1, <2>2 DEF InChannel, RequestFits, ChartFits
    <3>3. worker' \notin Busy
        BY <2>2 DEF Busy
    <3> QED
        BY <2>1, <2>2, <3>1, <3>2, <3>3 DEF LastInv
  <2>3. CASE worker' = "gone" /\ requests' = <<>>
      BY <2>1, <2>3 DEF LastInv, Busy
  <2> QED
      BY <1>5, <2>2, <2>3 DEF OpenRead
<1>6. CASE Receive
  <2>1. PICK r \in Request : r = Head(requests) /\ requests # <<>>
      BY <1>6, <1>11 DEF Receive
  <2>2. /\ requests' = <<>> /\ worker = "idle" /\ worker' = "summary"
        /\ snap' = [seq |-> r.seq, tab |-> r.tab, summary |-> NoData, rest |-> NoData,
                    asked |-> r.charts # NoCharts,
                    charts |-> IF r.charts # NoCharts THEN [over |-> r.charts, db |-> 0] ELSE NoData]
        /\ UNCHANGED <<db, sel, seq, lost, asked, snapshots, errors, applied, shown>>
      BY <1>6, <2>1 DEF Receive, viewVars
  <2>3. ~ AtWorker /\ ~ Answered /\ ~ OnScreen
      BY <2>1, <2>2 DEF AtWorker, Answered, OnScreen
  <2>4. snap'.seq <= seq'
      BY <2>1, <2>2 DEF LastInv
  <2>5. ASSUME InChannel PROVE AtWorker'
    <3>1. RequestFits(r)
        BY <2>1, <2>5 DEF InChannel
    <3>2. r.charts # NoCharts => r.charts \in Window
        BY <2>1 DEF Request
    <3>3. r.charts # NoCharts => [over |-> r.charts, db |-> 0] # NoData
        BY <3>2, NoDataIsNoAnswer DEF Version
    <3>4. snap'.asked <=> r.charts # NoCharts
        BY <2>2
    <3>5. snap'.asked => snap'.charts # NoData /\ snap'.charts.over = r.charts
        BY <2>2, <3>3
    <3>6. SnapFits(snap)'
        BY <2>2, <3>1, <3>4, <3>5 DEF SnapFits, RequestFits, ChartFits
    <3> QED
        BY <2>2, <3>6 DEF AtWorker, Busy
  <2> QED
      BY <2>2, <2>3, <2>4, <2>5 DEF LastInv
<1>7. CASE QuerySummary
  <2>1. /\ worker = "summary" /\ worker' = "rest" /\ snap \in Snapshot /\ db \in Version
        /\ UNCHANGED <<db, sel, seq, requests, lost, asked, snapshots, applied, shown>>
      BY <1>7 DEF QuerySummary, viewVars, TypeInv, TypeOK
  <2>2. \/ snap' = [snap EXCEPT !.summary = [over |-> snap.tab, db |-> db]] /\ errors' = errors
        \/ snap' = snap /\ errors' = errors + 1
      BY <1>7 DEF QuerySummary, Query
  <2>3. /\ snap'.seq = snap.seq /\ snap'.tab = snap.tab /\ snap'.asked = snap.asked
        /\ snap'.charts = snap.charts
        /\ errors' = 0 => snap'.summary = [over |-> snap.tab, db |-> db]
      BY <1>0, <2>1, <2>2 DEF Snapshot
  <2>4. ~ Answered /\ ~ OnScreen
      BY <2>1 DEF Answered, OnScreen
  <2>5. ASSUME InChannel PROVE InChannel'
      BY <2>1, <2>5 DEF InChannel, RequestFits, ChartFits
  <2>6. ASSUME AtWorker PROVE AtWorker'
    <3>1. SnapFits(snap)'
        BY <2>1, <2>3, <2>6 DEF AtWorker, SnapFits, ChartFits
    <3>2. TotalsFit(snap.summary)'
      <4>1. [over |-> snap.tab, db |-> db] # NoData
          BY <2>1, NoDataIsNoAnswer DEF Snapshot
      <4>2. snap.tab = sel.tab
          BY <2>6 DEF AtWorker, SnapFits
      <4> QED
          BY <1>0, <2>1, <2>3, <4>1, <4>2 DEF TotalsFit
    <3> QED
        BY <2>1, <2>6, <3>1, <3>2 DEF AtWorker, Busy
  <2>7. snap'.seq <= seq'
      BY <2>1, <2>3 DEF LastInv, Busy
  <2> QED
      BY <2>1, <2>4, <2>5, <2>6, <2>7 DEF LastInv
<1>8. CASE QueryRest
  <2>1. /\ worker = "rest" /\ worker' = "post" /\ snap \in Snapshot /\ db \in Version
        /\ snap.asked => snap.charts \in [over : Window, db : Version]
        /\ UNCHANGED <<db, sel, seq, requests, lost, asked, snapshots, applied, shown>>
      BY <1>8 DEF QueryRest, uiVars, viewVars, TypeInv, TypeOK
  <2>2. PICK rest, charts :
          /\ snap' = [snap EXCEPT !.rest = rest, !.charts = charts]
          /\ \/ rest = [over |-> snap.tab, db |-> db] /\ errors' = errors
             \/ errors' = errors + 1
          /\ charts = IF snap.asked THEN [snap.charts EXCEPT !.db = db] ELSE NoData
      BY <1>8 DEF QueryRest, Query
  <2>3. /\ snap'.seq = snap.seq /\ snap'.tab = snap.tab /\ snap'.asked = snap.asked
        /\ snap'.charts = charts /\ snap'.summary = snap.summary
        /\ errors' = 0 => snap'.rest = [over |-> snap.tab, db |-> db] /\ errors = 0
      BY <1>0, <2>1, <2>2 DEF Snapshot
  <2>4. ~ Answered /\ ~ OnScreen
      BY <2>1 DEF Answered, OnScreen
  <2>5. ASSUME InChannel PROVE InChannel'
      BY <2>1, <2>5 DEF InChannel, RequestFits, ChartFits
  <2>6. ASSUME AtWorker PROVE AtWorker'
    <3>1. snap.asked => charts # NoData /\ charts.over = snap.charts.over
      <4>1. ASSUME snap.asked PROVE charts = [over |-> snap.charts.over, db |-> db] /\ snap.charts.over \in Window
          BY <2>1, <2>2, <4>1
      <4> QED
          BY <2>1, <4>1, NoDataIsNoAnswer
    <3>2. SnapFits(snap)'
        BY <2>1, <2>3, <2>6, <3>1 DEF AtWorker, SnapFits, ChartFits
    <3>3. TotalsFit(snap.summary)'
        BY <2>1, <2>3, <2>6 DEF AtWorker, TotalsFit
    <3>4. TotalsFit(snap.rest)'
      <4>1. [over |-> snap.tab, db |-> db] # NoData
          BY <2>1, NoDataIsNoAnswer DEF Snapshot
      <4>2. snap.tab = sel.tab
          BY <2>6 DEF AtWorker, SnapFits
      <4> QED
          BY <1>0, <2>1, <2>3, <4>1, <4>2 DEF TotalsFit
    <3> QED
        BY <2>1, <2>6, <3>2, <3>3, <3>4 DEF AtWorker, Busy
  <2>7. snap'.seq <= seq'
      BY <2>1, <2>3 DEF LastInv, Busy
  <2> QED
      BY <2>1, <2>4, <2>5, <2>6, <2>7 DEF LastInv
<1>9. CASE Post
  <2>1. /\ worker = "post" /\ worker' = "idle" /\ snap.seq <= seq
        /\ UNCHANGED <<db, sel, seq, requests, asked, snap, errors, applied, shown>>
      BY <1>9 DEF Post, viewVars, LastInv, Busy
  <2>2. CASE snapshots = <<>> /\ snapshots' = <<snap>> /\ lost' = lost
    <3>1. Head(<<snap>>) = snap /\ <<snap>> # <<>>
        OBVIOUS
    <3>2. ~ Answered /\ ~ OnScreen
        BY <2>1 DEF Answered, OnScreen
    <3>3. ASSUME InChannel PROVE InChannel'
        BY <2>1, <3>3 DEF InChannel, RequestFits, ChartFits
    <3>4. ASSUME AtWorker PROVE Answered'
      <4>1. SnapFits(Head(snapshots))'
          BY <2>1, <2>2, <3>1, <3>4 DEF AtWorker, SnapFits, ChartFits
      <4>2. TotalsFit(Head(snapshots).summary)' /\ TotalsFit(Head(snapshots).rest)'
          BY <2>1, <2>2, <3>1, <3>4 DEF AtWorker, TotalsFit
      <4> QED
          BY <2>1, <2>2, <3>1, <3>4, <4>1, <4>2 DEF Answered, AtWorker
    <3> QED
        BY <2>1, <2>2, <3>1, <3>2, <3>3, <3>4 DEF LastInv, Busy
  <2>3. CASE snapshots # <<>> /\ snapshots' = snapshots /\ lost' = TRUE
      BY <2>1, <2>3 DEF LastInv, Busy
  <2> QED
      BY <1>9, <2>2, <2>3 DEF Post
<1>10. CASE UNCHANGED vars
    BY <1>10, <1>13 DEF vars, uiVars, workerVars, viewVars
<1> QED
    BY <1>1, <1>2, <1>3, <1>4, <1>5, <1>6, <1>7, <1>8, <1>9, <1>10 DEF Next, Worker

\* Channels of one item that drop what does not fit do not make the window lie: once all
\* is quiet, and unless the code itself dropped something after the last accepted request
\* or a query failed, the window shows the selection over the data of its last refresh,
\* in whatever order it was selected, scanned, answered and applied.
THEOREM UndroppedRefreshCorrect == Spec => []UndroppedRefreshIsShown
<1>1. ASSUME Init PROVE LastInv
  <2>1. /\ asked = 0 /\ db = 0 /\ applied = 0 /\ seq = 1 /\ worker = "opening" /\ snapshots = <<>>
        /\ requests = <<RequestFor(FirstSelection, 1)>> /\ sel = FirstSelection
      BY <1>1 DEF Init
  <2>2. Head(requests) = RequestFor(FirstSelection, 1) /\ requests # <<>>
      BY <2>1
  <2>3. InChannel
      BY <2>1, <2>2 DEF InChannel, RequestFits, ChartFits, RequestFor, FirstSelection
  <2>4. Head(requests).seq = 1
      BY <2>2 DEF RequestFor
  <2> QED
      BY <2>1, <2>3, <2>4 DEF LastInv, Busy
<1>2. ASSUME TypeInv, LastInv PROVE UndroppedRefreshIsShown
  <2> SUFFICES ASSUME Quiet, ~ lost, errors = 0
               PROVE  /\ shown.summary # NoData /\ shown.summary.over = sel.tab /\ shown.summary.db >= asked
                      /\ shown.rest # NoData /\ shown.rest.over = sel.tab /\ shown.rest.db >= asked
                      /\ sel.page = "charts" =>
                           /\ shown.charts # NoData
                           /\ ChartWindow(sel) # Custom => shown.charts.over = ChartWindow(sel)
      BY DEF UndroppedRefreshIsShown
  <2>1. OnScreen
      BY <1>2 DEF Quiet, LastInv, InChannel, AtWorker, Answered, Busy
  <2> QED
      BY <2>1 DEF OnScreen, ShownFits, TotalsFit, ChartFits
<1>3. Init => TypeInv /\ LastInv
    BY <1>1, TypeStart
<1> QED
    BY <1>2, <1>3, TypeStep, LastStep, PTL DEF Spec
=============================================================================
