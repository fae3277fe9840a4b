----------------------------- MODULE ScanEvents -----------------------------
(***************************************************************************)
(* Who runs scans inside one process and how the window hears of them:     *)
(* collector/mod.rs `scan_async` and `run_scan`, collector/scheduler.rs,   *)
(* and app/app.rs `trigger_scan` and `handle_collector_event`.             *)
(*                                                                         *)
(* Every scan thread takes the database mutex for one provider at a time   *)
(* and sends events around it; the scheduler keeps it for all of           *)
(* `scan_all`, whose first error throws the summaries gathered so far      *)
(* away, and sends its events afterwards.  The channel is unbounded; the   *)
(* UI thread handles one event at a time, and waits for the same mutex     *)
(* when a setting is to be saved.                                          *)
(*                                                                         *)
(* Data abstraction.  A provider is dirty while the tool has written usage *)
(* no scan has stored, and stale while stored usage is not on screen: a    *)
(* refresh of the view puts all that is stored on screen (ViewRefresh      *)
(* tells what can come between).                                           *)
(***************************************************************************)
EXTENDS Naturals, Sequences, Functions

CONSTANTS
    Thread,     \* scan threads that can be alive at a time
    Total,      \* number of sources, in the order scans visit them
    Absent,     \* sources whose tool is not installed
    Periodic,   \* is the scheduler's interval short enough to matter?
    Foreign,    \* does another process scan into the same database?
    MaxUses,    \* bound: times the tools write usage
    MaxFaults,  \* bound: scans that fail on the database
    MaxEvents   \* bound: events in the channel when a scan starts

ASSUME ConstantsAreTyped ==
    /\ Total \in Nat \ {0} /\ Absent \subseteq 1 .. Total
    /\ Periodic \in BOOLEAN /\ Foreign \in BOOLEAN
    /\ MaxUses \in Nat /\ MaxFaults \in Nat /\ MaxEvents \in Nat
    /\ "scheduler" \notin Thread

Source == 1 .. Total
Worker == Thread \cup {"scheduler"}

Started(p) == [kind |-> "started", source |-> p]
Completed(p, same) == [kind |-> "completed", source |-> p, unchanged |-> same]
Failed(p) == [kind |-> "failed", source |-> p]
Event == {Started(p) : p \in Source} \cup {Failed(p) : p \in Source}
         \cup {Completed(p, same) : p \in Source, same \in BOOLEAN}

VARIABLES
    dirty, stale,  \* sources with usage to store, with usage to show
    pc,            \* where each worker is
    at,            \* the source it is at
    outbox,        \* events it will send once the mutex is released
    events,        \* the collector's channel
    status,        \* state.scan_status: Idle, Scanning, Done, Failed
    completed,     \* the count inside Scanning
    saving,        \* does the UI thread wait for the mutex to save a setting?
    uses, faults,
    muddled,       \* history: since the last scan triggered when all was quiet,
                   \* did scans overlap, or fail?
    unheard        \* history: sources with usage not on screen of which this
                   \* process never hears: another one stored it, or the
                   \* scheduler's error took the summary with it

vars == <<dirty, stale, pc, at, outbox, events, status, completed, saving,
          uses, faults, muddled, unheard>>
screenVars == <<stale, unheard>>
toolVars == <<dirty, uses>>
workerVars == <<pc, at, outbox>>
uiVars == <<status, completed, saving>>

TypeOK ==
    /\ dirty \subseteq Source /\ stale \subseteq Source /\ unheard \subseteq stale
    /\ pc \in [Worker -> {"idle", "next", "wait", "scan", "send"}]
    /\ at \in [Worker -> 1 .. Total + 1]
    /\ outbox \in [Worker -> Seq(Event)] /\ events \in Seq(Event)
    /\ status \in {"idle", "scanning", "done", "failed"}
    /\ completed \in 0 .. Total - 1 /\ saving \in BOOLEAN
    /\ uses \in 0 .. MaxUses /\ faults \in 0 .. MaxFaults /\ muddled \in BOOLEAN

Init ==
    /\ dirty = {} /\ stale = {}
    /\ pc = [w \in Worker |-> "idle"] /\ at = [w \in Worker |-> 1]
    /\ outbox = [w \in Worker |-> <<>>] /\ events = <<>>
    /\ status = "idle" /\ completed = 0 /\ saving = FALSE
    /\ uses = 0 /\ faults = 0 /\ muddled = FALSE /\ unheard = {}

Busy == \E w \in Worker : pc[w] # "idle"
Quiet == ~ Busy /\ events = <<>>

\* The mutex around the connection.
Locked == \E w \in Worker : pc[w] = "scan"

Use(p) ==
    /\ p \notin Absent /\ uses < MaxUses /\ uses' = uses + 1
    /\ dirty' = dirty \cup {p}
    /\ UNCHANGED <<screenVars, workerVars, events, uiVars, faults, muddled>>

\* Another process stores what is new: this one's next scan finds nothing.
OtherProcessScans(p) ==
    /\ Foreign /\ p \in dirty
    /\ dirty' = dirty \ {p} /\ stale' = stale \cup {p} /\ unheard' = unheard \cup {p}
    /\ UNCHANGED <<workerVars, events, uiVars, uses, faults, muddled>>

-----------------------------------------------------------------------------
(***************************************************************************)
(* scan_async: from the window (trigger_scan), or from the tray, which     *)
(* leaves the status alone.                                                *)
(***************************************************************************)
Spawn(t) ==
    /\ pc[t] = "idle" /\ Len(events) <= MaxEvents
    /\ pc' = [pc EXCEPT ![t] = "next"] /\ at' = [at EXCEPT ![t] = 1]

TriggerScan(t) ==
    /\ Spawn(t) /\ ~ saving
    /\ status' = "scanning" /\ completed' = 0
    /\ muddled' = ~ Quiet
    /\ UNCHANGED <<toolVars, screenVars, outbox, events, saving, faults>>

RefreshFromTray(t) ==
    /\ Spawn(t) /\ ~ saving
    /\ muddled' = (muddled \/ ~ Quiet)
    /\ UNCHANGED <<toolVars, screenVars, outbox, events, uiVars, faults>>

\* The loop over the sources: ScanStarted is sent before the mutex is taken.
NextSource(t) ==
    /\ t # "scheduler" /\ pc[t] = "next"
    /\ \/ /\ at[t] <= Total
          /\ events' = Append(events, Started(at[t]))
          /\ pc' = [pc EXCEPT ![t] = "wait"]
       \/ /\ at[t] > Total
          /\ pc' = [pc EXCEPT ![t] = "idle"]
          /\ UNCHANGED events
    /\ UNCHANGED <<toolVars, screenVars, at, outbox, uiVars, faults, muddled>>

\* The scheduler's wait times out: run_scan starts with the first source.
Tick ==
    /\ Periodic /\ pc["scheduler"] = "idle" /\ Len(events) <= MaxEvents
    /\ pc' = [pc EXCEPT !["scheduler"] = "wait"] /\ at' = [at EXCEPT !["scheduler"] = 1]
    /\ muddled' = (muddled \/ ~ Quiet)
    /\ UNCHANGED <<toolVars, screenVars, outbox, events, uiVars, faults>>

Lock(w) ==
    /\ pc[w] = "wait" /\ ~ Locked
    /\ pc' = [pc EXCEPT ![w] = "scan"]
    /\ UNCHANGED <<toolVars, screenVars, at, outbox, events, uiVars, faults, muddled>>

\* After a scan_one that returned Ok a thread releases the mutex to send; the
\* scheduler goes on to the next source and releases it after the last.
Advance(w) ==
    /\ at' = [at EXCEPT ![w] = @ + 1]
    /\ pc' = [pc EXCEPT ![w] = IF w = "scheduler" /\ at[w] < Total THEN "scan" ELSE "send"]

\* Mutation: the event is sent into a bounded channel before the mutex is released.
ScanOk_SendsLocked(w) ==
    LET p == at[w]
    IN  /\ pc[w] = "scan" /\ Len(events) <= MaxEvents
        /\ dirty' = dirty \ {p} /\ stale' = stale \cup (dirty \cap {p})
        /\ outbox' = [outbox EXCEPT ![w] =
               Append(@, Completed(p, p \notin dirty /\ p \notin Absent))]
        /\ Advance(w)
        /\ UNCHANGED <<events, uiVars, uses, faults, muddled, unheard>>

\* scan_one stores what is new, finds nothing changed, or finds no tool.
ScanOk(w) ==
    LET p == at[w]
    IN  /\ pc[w] = "scan"
        /\ dirty' = dirty \ {p} /\ stale' = stale \cup (dirty \cap {p})
        /\ outbox' = [outbox EXCEPT ![w] =
               Append(@, Completed(p, p \notin dirty /\ p \notin Absent))]
        /\ Advance(w)
        /\ UNCHANGED <<events, uiVars, uses, faults, muddled, unheard>>

\* scan_one fails on the database, perhaps after some inserts.  A thread
\* reports it and goes on; scan_all returns the error instead of its summaries.
ScanErr(w) ==
    LET p == at[w]
    IN  /\ pc[w] = "scan" /\ p \notin Absent /\ faults < MaxFaults /\ faults' = faults + 1
        /\ \/ UNCHANGED stale
           \/ stale' = stale \cup (dirty \cap {p})
        /\ \/ /\ w # "scheduler" /\ Advance(w)
              /\ outbox' = [outbox EXCEPT ![w] = Append(@, Failed(p))]
              /\ UNCHANGED unheard
           \/ /\ w = "scheduler"
              /\ pc' = [pc EXCEPT ![w] = "idle"] /\ outbox' = [outbox EXCEPT ![w] = <<>>]
              /\ unheard' = unheard \cup
                     (stale \cap {q \in Source : Completed(q, FALSE) \in Range(outbox[w])})
              /\ UNCHANGED at
        /\ muddled' = TRUE
        /\ UNCHANGED <<toolVars, events, uiVars>>

\* The events of a finished scan go out one by one.
Send(w) ==
    /\ pc[w] = "send"
    /\ events' = Append(events, Head(outbox[w]))
    /\ outbox' = [outbox EXCEPT ![w] = Tail(@)]
    /\ pc' = [pc EXCEPT ![w] = IF Len(outbox[w]) > 1 THEN "send"
                                 ELSE IF w = "scheduler" THEN "idle" ELSE "next"]
    /\ UNCHANGED <<toolVars, screenVars, at, uiVars, faults, muddled>>

-----------------------------------------------------------------------------
(***************************************************************************)
(* handle_collector_event.                                                 *)
(***************************************************************************)
Receive(kind) ==
    /\ ~ saving /\ events # <<>> /\ Head(events).kind = kind
    /\ events' = Tail(events)
    /\ UNCHANGED <<toolVars, workerVars, saving, faults, muddled>>

\* New data refreshes the view.
Refresh(e) ==
    /\ stale' = IF e.unchanged THEN stale ELSE {}
    /\ unheard' = IF e.unchanged THEN unheard ELSE {}

\* Mutation: every provider starts the count again.
OnStarted_Resets ==
    /\ Receive("started")
    /\ status' = "scanning" /\ completed' = 0
    /\ UNCHANGED screenVars

OnStarted ==
    /\ Receive("started")
    /\ status' = "scanning"
    /\ completed' = IF status = "scanning" THEN completed ELSE 0
    /\ UNCHANGED screenVars

\* Mutation: the view is refreshed once, with the event that completes the scan.
OnCompleted_RefreshOnce ==
    LET n == IF status = "scanning" THEN completed + 1 ELSE 1
    IN  /\ Receive("completed")
        /\ status' = IF n >= Total THEN "done" ELSE "scanning"
        /\ completed' = IF n >= Total THEN 0 ELSE n
        /\ IF n >= Total THEN Refresh(Head(events)) ELSE UNCHANGED screenVars

\* Mutation: the scan is done one source too late.
OnCompleted_OffByOne ==
    LET n == IF status = "scanning" THEN completed + 1 ELSE 1
    IN  /\ Receive("completed")
        /\ status' = IF n > Total THEN "done" ELSE "scanning"
        /\ completed' = IF n > Total THEN 0 ELSE n
        /\ Refresh(Head(events))

\* A completed source counts one further; new data refreshes the view.
OnCompleted ==
    LET n == IF status = "scanning" THEN completed + 1 ELSE 1
    IN  /\ Receive("completed")
        /\ status' = IF n >= Total THEN "done" ELSE "scanning"
        /\ completed' = IF n >= Total THEN 0 ELSE n
        /\ Refresh(Head(events))

OnFailed ==
    /\ Receive("failed")
    /\ status' = "failed" /\ completed' = 0
    /\ UNCHANGED screenVars

-----------------------------------------------------------------------------
(***************************************************************************)
(* A setting is saved on the UI thread (select_theme_color and its like):  *)
(* it takes the mutex like a scan, and handles nothing until it has it.    *)
(***************************************************************************)
SaveSetting ==
    /\ ~ saving /\ saving' = TRUE
    /\ UNCHANGED <<toolVars, screenVars, workerVars, events, status, completed, faults, muddled>>

SettingSaved ==
    /\ saving /\ ~ Locked /\ saving' = FALSE
    /\ UNCHANGED <<toolVars, screenVars, workerVars, events, status, completed, faults, muddled>>

Step(w) == Lock(w) \/ ScanOk(w) \/ ScanErr(w) \/ Send(w) \/ NextSource(w)
Handle == OnStarted \/ OnCompleted \/ OnFailed

Next ==
    \/ \E p \in Source : Use(p) \/ OtherProcessScans(p)
    \/ \E t \in Thread : TriggerScan(t) \/ RefreshFromTray(t)
    \/ Tick
    \/ \E w \in Worker : Step(w)
    \/ Handle
    \/ SaveSetting \/ SettingSaved

Spec == Init /\ [][Next]_vars

\* Threads run, the scheduler's timer expires, the UI thread comes back to the
\* event loop between settings, and gets the mutex if it is free again and
\* again: between two scheduled scans it is free for five seconds at least.
FairSpec ==
    /\ Spec /\ WF_vars(Tick) /\ SF_vars(Handle) /\ SF_vars(SettingSaved)
    /\ \A w \in Worker : WF_vars(Step(w))

-----------------------------------------------------------------------------
\* The UI thread is not held up for good: it waits for the mutex while it
\* handles no event, so nothing may wait for the UI thread inside the mutex
\* (collector/mod.rs 129-136), and every holder must let go, on errors too.
SettingIsSaved == saving ~> ~ saving

\* app.rs:561-564 says that the spinner is cleared once a scan is over.  A scan
\* that was triggered when nothing else went on, and that nothing disturbed or
\* made fail, does not leave the spinner on, whatever scans came before it;
\* two that overlap may.
UndisturbedScanEnds == Quiet /\ ~ muddled => status # "scanning"

\* Stored usage is on screen once all is quiet, unless its source still has
\* more to store and will be heard of again (app.rs:545-549), or it is the
\* usage this process never hears of.
QuietScreenIsCurrent == Quiet => stale \subseteq dirty \cup unheard

\* Usage the tool writes is stored and shown, if the scheduler keeps ticking,
\* with the same exception.
EventuallyShown == \A p \in Source : p \in dirty ~> p \notin dirty \cup stale \/ p \in unheard

=============================================================================
