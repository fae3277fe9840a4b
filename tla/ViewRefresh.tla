----------------------------- MODULE ViewRefresh -----------------------------
(***************************************************************************)
(* How the desktop window and the floating ball get their numbers:         *)
(* app/app.rs `refresh_view`, the aggregate worker thread started in       *)
(* `TokenMonitorApp::new`, and `apply_snapshot`.                           *)
(*                                                                         *)
(* The UI thread runs one handler at a time.  A handler that needs new     *)
(* numbers puts a request into a channel of capacity one; the worker takes *)
(* it, queries the database statement by statement (no transaction) and    *)
(* puts the snapshot into another channel of capacity one, which the UI    *)
(* thread empties between handlers.  Both ends use try_send: an item that  *)
(* does not fit is gone.                                                   *)
(*                                                                         *)
(* Data abstraction.  The database is the number of scans that have        *)
(* changed it; an aggregate is the period it is over and the database it   *)
(* was computed from.                                                      *)
(***************************************************************************)
EXTENDS Naturals, Sequences

CONSTANTS
    Tab,          \* TimeTab
    Preset,       \* ChartRange without Custom
    Dates,        \* custom date ranges
    Custom,       \* ChartRange::Custom
    DefaultTab, DefaultRange,
    NoDates,      \* custom_range is None
    NoData,       \* nothing computed; for the ball, its initial zero
    NoCharts,     \* the request is not for the charts page
    MaxSeq,       \* bound: refreshes
    MaxCommits,   \* bound: scans that change the database
    MaxErrors,    \* bound: queries that fail
    MayNotOpen    \* may the worker's read-only connection fail to open?

ASSUME ConstantsAreTyped ==
    /\ DefaultTab \in Tab /\ DefaultRange \in Preset /\ Custom \notin Preset
    /\ NoDates \notin Dates /\ Dates \cap (Preset \cup {Custom}) = {}
    /\ NoCharts \notin Preset \cup Dates \cup {Custom}
    /\ NoData \notin [over : Tab, db : 0 .. MaxCommits]
    /\ NoData \notin [over : Preset \cup Dates \cup {Custom}, db : 0 .. MaxCommits]
    /\ MaxSeq \in Nat \ {0} /\ MaxCommits \in Nat /\ MaxErrors \in Nat
    /\ MayNotOpen \in BOOLEAN

Window == Preset \cup {Custom} \cup Dates
Version == 0 .. MaxCommits
Totals == [over : Tab, db : Version] \cup {NoData}
Charts == [over : Window, db : Version] \cup {NoData}

Selection == [tab : Tab, page : {"dashboard", "charts"},
              range : Preset \cup {Custom}, custom : Dates \cup {NoDates}]
Request == [seq : 1 .. MaxSeq, tab : Tab, charts : Window \cup {NoCharts}]

\* A ViewSnapshot: summary, the other dashboard aggregates, charts.
Snapshot == [seq : 1 .. MaxSeq, tab : Tab, summary : Totals, rest : Totals,
             charts : Charts, asked : BOOLEAN]

VARIABLES
    db,        \* scans that changed the database
    events,    \* their ScanCompleted events the UI has not handled
    sel,       \* what the user has selected
    seq, applied,                    \* view_seq, applied_seq
    requests, snapshots,             \* the two channels
    worker,    \* where the worker thread is
    snap,      \* the snapshot it is computing (before the first: none)
    shown,     \* the aggregates in AppState
    ball,      \* the floating ball: closed, or its label and its number
    errors,
    lost,      \* history: was anything dropped since a request was last accepted?
    asked,     \* history: the database at the last refresh_view
    due, owed  \* history: no query was made, no snapshot applied since then

uiVars == <<seq, requests, lost, asked, due, owed>>
workerVars == <<worker, snap, errors>>
viewVars == <<applied, shown, ball>>
vars == <<db, events, sel, uiVars, snapshots, workerVars, viewVars>>

Closed == [open |-> FALSE]

TypeOK ==
    /\ db \in Version /\ events \in Version /\ sel \in Selection
    /\ seq \in 1 .. MaxSeq /\ applied \in 0 .. MaxSeq
    /\ requests \in Seq(Request) /\ Len(requests) <= 1
    /\ snapshots \in Seq(Snapshot) /\ Len(snapshots) <= 1
    /\ worker \in {"opening", "gone", "idle", "summary", "rest", "post"}
    /\ worker \in {"summary", "rest", "post"} => snap \in Snapshot
    /\ shown \in [summary : Totals, rest : Totals, charts : Charts]
    /\ ball = Closed \/ ball \in [open : {TRUE}, label : Tab, usage : Totals]
    /\ errors \in 0 .. MaxErrors /\ lost \in BOOLEAN
    /\ asked \in Version /\ due \in BOOLEAN /\ owed \in BOOLEAN

\* ChartsState::window.
ChartWindow(s) == IF s.custom # NoDates THEN s.custom ELSE s.range

RequestFor(s, n) ==
    [seq |-> n, tab |-> s.tab,
     charts |-> IF s.page = "charts" THEN ChartWindow(s) ELSE NoCharts]

FirstSelection ==
    [tab |-> DefaultTab, page |-> "dashboard", range |-> DefaultRange, custom |-> NoDates]

\* TokenMonitorApp::new ends with a first refresh_view.
Init ==
    /\ db = 0 /\ events = 0 /\ sel = FirstSelection
    /\ seq = 1 /\ applied = 0
    /\ requests = <<RequestFor(FirstSelection, 1)>> /\ snapshots = <<>>
    /\ worker = "opening" /\ snap = NoData
    /\ shown = [summary |-> NoData, rest |-> NoData, charts |-> NoData]
    /\ ball = Closed /\ errors = 0
    /\ lost = FALSE /\ asked = 0 /\ due = TRUE /\ owed = TRUE

\* A scan commits new records and reports them (ScanCompleted, not unchanged).
ScanCommits ==
    /\ db < MaxCommits /\ db' = db + 1 /\ events' = events + 1
    /\ UNCHANGED <<sel, uiVars, snapshots, workerVars, viewVars>>

-----------------------------------------------------------------------------
(***************************************************************************)
(* Handlers on the UI thread.                                              *)
(***************************************************************************)
\* Mutation: no capacity on the request channel.
RefreshView_Queues(s) ==
    /\ seq < MaxSeq /\ seq' = seq + 1
    /\ requests' = Append(requests, RequestFor(s, seq + 1)) /\ lost' = FALSE
    /\ asked' = db /\ due' = TRUE /\ owed' = TRUE

\* Mutation: nothing is asked of a worker that is busy.
RefreshView_WhenIdle(s) ==
    /\ seq < MaxSeq /\ seq' = seq + 1
    /\ IF requests = <<>> /\ worker \in {"opening", "idle"}
       THEN requests' = <<RequestFor(s, seq + 1)>> /\ lost' = FALSE
       ELSE UNCHANGED requests /\ lost' = TRUE
    /\ asked' = db /\ due' = TRUE /\ owed' = TRUE

\* refresh_view with the state s: try_send into the request channel, which
\* fails when it is full and when the worker, its receiver, is gone.
RefreshView(s) ==
    /\ seq < MaxSeq /\ seq' = seq + 1
    /\ IF requests = <<>> /\ worker # "gone"
       THEN requests' = <<RequestFor(s, seq + 1)>> /\ lost' = FALSE
       ELSE UNCHANGED requests /\ lost' = TRUE
    /\ asked' = db /\ due' = TRUE /\ owed' = TRUE

SelectTab(t) ==
    /\ sel' = [sel EXCEPT !.tab = t]
    /\ RefreshView(sel')
    /\ UNCHANGED <<db, events, snapshots, workerVars, viewVars>>

\* Mutation: going to the charts page does not load them.
SelectPage_NoLoad(p) ==
    /\ sel' = [sel EXCEPT !.page = p]
    /\ UNCHANGED <<db, events, uiVars, snapshots, workerVars, viewVars>>

SelectPage(p) ==
    /\ sel' = [sel EXCEPT !.page = p]
    /\ \/ p = "charts" /\ RefreshView(sel')
       \/ p # "charts" /\ UNCHANGED uiVars
    /\ UNCHANGED <<db, events, snapshots, workerVars, viewVars>>

\* The charts controls, which are on the charts page.  Choosing Custom only
\* reveals the date picker; picking and clearing dates is its own event.
SelectChartRange(r) ==
    /\ sel.page = "charts"
    /\ sel' = [sel EXCEPT !.range = r, !.custom = NoDates]
    /\ \/ r # Custom /\ RefreshView(sel')
       \/ r = Custom /\ UNCHANGED uiVars
    /\ UNCHANGED <<db, events, snapshots, workerVars, viewVars>>

PickDates(d) ==
    /\ sel.page = "charts" /\ sel.range = Custom
    /\ sel' = [sel EXCEPT !.custom = d]
    /\ RefreshView(sel')
    /\ UNCHANGED <<db, events, snapshots, workerVars, viewVars>>

ScanCompleted ==
    /\ events > 0 /\ events' = events - 1
    /\ RefreshView(sel)
    /\ UNCHANGED <<db, sel, snapshots, workerVars, viewVars>>

\* Mutation: only the answer to the latest request is applied.
ApplySnapshot_OnlyLatest ==
    /\ snapshots # <<>> /\ snapshots' = <<>>
    /\ LET s == Head(snapshots)
       IN  IF s.seq < seq THEN UNCHANGED <<viewVars, owed>>
           ELSE /\ applied' = s.seq /\ owed' = FALSE
                /\ shown' = [summary |-> s.summary, rest |-> s.rest, charts |-> s.charts]
                /\ UNCHANGED ball
    /\ UNCHANGED <<db, events, sel, seq, requests, lost, asked, due, workerVars>>

\* Mutation: the ball is labelled with the tab selected now.
ApplySnapshot_LiveTab ==
    /\ snapshots # <<>> /\ snapshots' = <<>>
    /\ LET s == Head(snapshots)
       IN  /\ applied' = s.seq /\ owed' = FALSE
           /\ shown' = [summary |-> s.summary, rest |-> s.rest, charts |-> s.charts]
           /\ ball' = IF ball.open /\ s.summary # NoData
                      THEN [open |-> TRUE, label |-> sel.tab, usage |-> s.summary]
                      ELSE ball
    /\ UNCHANGED <<db, events, sel, seq, requests, lost, asked, due, workerVars>>

\* apply_snapshot: older than the one applied is skipped; charts the snapshot
\* has not got stay; the ball gets the number with the snapshot's own tab.
ApplySnapshot ==
    /\ snapshots # <<>> /\ snapshots' = <<>>
    /\ LET s == Head(snapshots)
       IN  IF s.seq < applied THEN UNCHANGED <<viewVars, owed>>
           ELSE /\ applied' = s.seq /\ owed' = FALSE
                /\ shown' = [summary |-> s.summary, rest |-> s.rest,
                             charts |-> IF s.charts # NoData THEN s.charts ELSE shown.charts]
                /\ ball' = IF ball.open /\ s.summary # NoData
                           THEN [open |-> TRUE, label |-> s.tab, usage |-> s.summary]
                           ELSE ball
    /\ UNCHANGED <<db, events, sel, seq, requests, lost, asked, due, workerVars>>

\* ensure_floating_window opens the ball with zero under the default tab.
OpenBall ==
    /\ ball = Closed
    /\ ball' = [open |-> TRUE, label |-> DefaultTab, usage |-> NoData]
    /\ UNCHANGED <<db, events, sel, uiVars, snapshots, workerVars, applied, shown>>

-----------------------------------------------------------------------------
(***************************************************************************)
(* The worker thread.                                                      *)
(***************************************************************************)
OpenRead ==
    /\ worker = "opening"
    /\ \/ worker' = "idle" /\ UNCHANGED requests
       \/ MayNotOpen /\ worker' = "gone" /\ requests' = <<>>
    /\ UNCHANGED <<db, events, sel, seq, lost, asked, due, owed, snapshots, snap, errors,
                   viewVars>>

\* recv_blocking; the window of the request is in its tab and charts.
Receive ==
    /\ worker = "idle" /\ requests # <<>>
    /\ requests' = <<>> /\ worker' = "summary"
    /\ LET r == Head(requests)
       IN  snap' = [seq |-> r.seq, tab |-> r.tab, summary |-> NoData, rest |-> NoData,
                    asked |-> r.charts # NoCharts,
                    charts |-> IF r.charts # NoCharts
                               THEN [over |-> r.charts, db |-> 0] ELSE NoData]
    /\ UNCHANGED <<db, events, sel, seq, lost, asked, due, owed, snapshots, errors, viewVars>>

\* A query answers from the database as it is, or fails and leaves its part out.
Query(answer) ==
    \/ answer /\ UNCHANGED errors
    \/ ~ answer /\ errors < MaxErrors /\ errors' = errors + 1

\* aggregate_window: the summary.
QuerySummary ==
    /\ worker = "summary" /\ worker' = "rest"
    /\ due' = FALSE
    /\ \E answer \in BOOLEAN :
         /\ Query(answer)
         /\ snap' = IF answer THEN [snap EXCEPT !.summary = [over |-> snap.tab, db |-> db]]
                              ELSE snap
    /\ UNCHANGED <<db, events, sel, seq, requests, lost, asked, owed, snapshots, viewVars>>

\* The other aggregates, and the charts when they were asked for.
QueryRest ==
    /\ worker = "rest" /\ worker' = "post"
    /\ \E answer \in BOOLEAN :
         /\ Query(answer)
         /\ snap' = [snap EXCEPT
                        !.rest = IF answer THEN [over |-> snap.tab, db |-> db] ELSE NoData,
                        !.charts = IF snap.asked THEN [@ EXCEPT !.db = db] ELSE NoData]
    /\ UNCHANGED <<db, events, sel, uiVars, snapshots, viewVars>>

\* try_send into the view channel.
Post ==
    /\ worker = "post" /\ worker' = "idle"
    /\ IF snapshots = <<>> THEN snapshots' = <<snap>> /\ UNCHANGED lost
                           ELSE UNCHANGED snapshots /\ lost' = TRUE
    /\ UNCHANGED <<db, events, sel, seq, requests, asked, due, owed, snap, errors, viewVars>>

-----------------------------------------------------------------------------
Select ==
    \/ \E t \in Tab : SelectTab(t)
    \/ \E p \in {"dashboard", "charts"} : SelectPage(p)
    \/ \E r \in Preset \cup {Custom} : SelectChartRange(r)
    \/ \E d \in Dates \cup {NoDates} : PickDates(d)

Worker == OpenRead \/ Receive \/ QuerySummary \/ QueryRest \/ Post

Next == ScanCommits \/ Select \/ ScanCompleted \/ ApplySnapshot \/ OpenBall \/ Worker

Spec == Init /\ [][Next]_vars

\* The worker thread runs; the UI thread polls the tasks of both receivers.
FairSpec == Spec /\ WF_vars(Worker) /\ WF_vars(ApplySnapshot) /\ WF_vars(ScanCompleted)

-----------------------------------------------------------------------------
\* Nothing is under way between the UI, the worker and the scans.
Quiet == events = 0 /\ requests = <<>> /\ snapshots = <<>> /\ worker = "idle"

\* "Pairing them in one call is what keeps the label from ever describing a
\* different period than the number" (app.rs:675-680).
BallIsPaired == ball.open /\ ball.usage # NoData => ball.label = ball.usage.over

\* A dropped request costs no data: when the worker has nothing to do, its
\* last snapshot was computed from the database as it was after the last
\* refresh_view.
WorkerSawLastRefresh == requests = <<>> /\ worker = "idle" => ~ due

\* app.rs:579-582 and 646-648 say that only the latest pending request survives;
\* a full channel refuses the latest, so the claim holds with an exception.
\* When nothing was dropped since the last accepted request and no query
\* failed, the quiet window shows the selected tab, the database as it was
\* at the last refresh and, on the charts page, the chosen window (or, before
\* dates are picked for Custom, whatever chart was there).
UndroppedRefreshIsShown ==
    Quiet /\ ~ lost /\ errors = 0 =>
        /\ shown.summary # NoData /\ shown.summary.over = sel.tab /\ shown.summary.db >= asked
        /\ shown.rest # NoData /\ shown.rest.over = sel.tab /\ shown.rest.db >= asked
        /\ sel.page = "charts" =>
             /\ shown.charts # NoData
             /\ ChartWindow(sel) # Custom => shown.charts.over = ChartWindow(sel)

\* "Lets intermediate refreshes stream into the UI instead of every result
\* being dropped in favor of the single latest request" (app.rs:652-656):
\* every refresh_view is followed by some snapshot being applied, unless the
\* worker could not open the database.
RefreshIsAnswered == owed ~> ~ owed \/ worker = "gone"

=============================================================================
