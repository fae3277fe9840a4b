---------------------------- MODULE ShellProofs ----------------------------
(***************************************************************************)
(* Shell for any number of launches, attempts and waiting commands.        *)
(***************************************************************************)
EXTENDS Shell, TLAPS

\* A launch that hands off has attempts left.
TriesInv == \A p \in Procs : phase[p] = "handing" => tries[p] < Retries

\* The copy past the guard is the one that holds it; the event exists while its
\* owner runs, and only the owner's listener is ever woken.
HolderInv == \A p \in Procs :
  /\ phase[p] \in {"guarded", "starting", "running"} <=> mutex = p
  /\ owns[p] => phase[p] \in {"starting", "running"} /\ event # "none"
  /\ woken[p] => phase[p] = "running" /\ owns[p]

\* Before its main window is open a copy has no ball, no quit under way.
EarlyInv == \A p \in Procs :
  phase[p] # "running" => balls[p] = 0 /\ opening[p] = 0 /\ ~ hwnd[p] /\ ~ quit[p]

\* Quitting leaves its command among those to handle; a main window that is gone was
\* closed after that, and an icon that is gone without it is on its way back, unless
\* the shell refused it.
ReachInv == \A p \in Procs : phase[p] = "running" =>
  /\ quit[p] => \E i \in DOMAIN trayCmds[p] : trayCmds[p][i] = "quit"
  /\ main[p] = "none" => quit[p]
  /\ ~ quit[p] => icon[p] \/ refused[p] \/ "taskbar" \in posted[p]

ShellIInv == ShellTypeOK /\ TriesInv /\ HolderInv /\ EarlyInv /\ OneBall /\ ReachInv

\* The properties follow from the invariant.
LEMMA ShellInvHolds == ShellIInv => ShellInv
<1> SUFFICES ASSUME ShellIInv PROVE ShellInv
    OBVIOUS
<1>1. EventIsTheHolders
    BY DEF ShellIInv, HolderInv, EventIsTheHolders
<1>2. ASSUME NEW p \in Procs, phase[p] = "running"
      PROVE  \/ \E i \in DOMAIN trayCmds[p] : trayCmds[p][i] = "quit"
             \/ main[p] = "shown"
             \/ main[p] = "hidden" /\ (icon[p] \/ refused[p] \/ "taskbar" \in posted[p])
  <2>1. main[p] \in {"none", "shown", "hidden"}
      BY DEF ShellIInv, ShellTypeOK
  <2>2. quit[p] => \E i \in DOMAIN trayCmds[p] : trayCmds[p][i] = "quit"
      BY <1>2 DEF ShellIInv, ReachInv
  <2>3. (main[p] = "none" => quit[p]) /\ (~ quit[p] => icon[p] \/ refused[p] \/ "taskbar" \in posted[p])
      BY <1>2 DEF ShellIInv, ReachInv
  <2> QED
      BY <2>1, <2>2, <2>3
<1>3. NoUnreachableCopy
    BY <1>2 DEF NoUnreachableCopy
<1> QED
    BY <1>1, <1>3 DEF ShellIInv, ShellInv

\* Before the first launch nobody holds the guard.
LEMMA ShellStart == ShellInit => ShellIInv
<1> SUFFICES ASSUME ShellInit PROVE ShellIInv
    OBVIOUS
<1> USE ShellAssumption DEF ShellAssumption
<1>1. /\ mutex = NoProc /\ event = "none" /\ saved = TRUE
      /\ phase = [p \in Procs |-> "off"] /\ tries = [p \in Procs |-> 0]
      /\ owns = [p \in Procs |-> FALSE] /\ woken = [p \in Procs |-> FALSE]
      /\ posted = [p \in Procs |-> {}] /\ main = [p \in Procs |-> "none"]
      /\ refused = [p \in Procs |-> FALSE]
      /\ icon = [p \in Procs |-> FALSE] /\ quit = [p \in Procs |-> FALSE]
      /\ opening = [p \in Procs |-> 0] /\ balls = [p \in Procs |-> 0]
      /\ hwnd = [p \in Procs |-> FALSE] /\ visible = [p \in Procs |-> FALSE]
    BY DEF ShellInit
<1>2. trayCmds \in [Procs -> Seq(Commands)] /\ \A p \in Procs : Len(trayCmds[p]) <= MaxPending
  <2>1. trayCmds = [p \in Procs |-> <<>>] /\ <<>> \in Seq(Commands) /\ Len(<<>>) = 0
      BY DEF ShellInit
  <2> QED
      BY <2>1
<1>3. ShellTypeOK
    BY <1>1, <1>2 DEF ShellTypeOK
<1>4. TriesInv /\ HolderInv
    BY <1>1 DEF TriesInv, HolderInv
<1>5. EarlyInv /\ OneBall /\ ReachInv
    BY <1>1 DEF EarlyInv, OneBall, ReachInv
<1> QED
    BY <1>3, <1>4, <1>5 DEF ShellIInv

-----------------------------------------------------------------------------
\* The copy that ends takes its share of everything with it.
LEMMA CopyIsGone ==
  ASSUME ShellIInv, NEW p \in Procs, phase[p] \in {"guarded", "starting", "running"}, Gone(p)
  PROVE  ShellIInv'
<1> USE ShellAssumption DEF ShellAssumption
<1>1. /\ mutex = p /\ mutex' = NoProc /\ NoProc \notin Procs
      /\ \A q \in Procs : q # p => phase[q] \in {"off", "handing"} /\ ~ owns[q] /\ ~ woken[q]
    BY DEF ShellIInv, HolderInv, Gone, ShellTypeOK
<1>2. /\ phase' = [phase EXCEPT ![p] = "off"] /\ owns' = [owns EXCEPT ![p] = FALSE]
      /\ woken' = [woken EXCEPT ![p] = FALSE] /\ posted' = [posted EXCEPT ![p] = {}]
      /\ main' = [main EXCEPT ![p] = "none"] /\ icon' = [icon EXCEPT ![p] = FALSE]
      /\ refused' = [refused EXCEPT ![p] = FALSE]
      /\ quit' = [quit EXCEPT ![p] = FALSE] /\ trayCmds' = [trayCmds EXCEPT ![p] = <<>>]
      /\ opening' = [opening EXCEPT ![p] = 0] /\ balls' = [balls EXCEPT ![p] = 0]
      /\ hwnd' = [hwnd EXCEPT ![p] = FALSE] /\ visible' = [visible EXCEPT ![p] = FALSE]
      /\ UNCHANGED <<tries, saved>> /\ event' \in {"none", event}
    BY DEF Gone
<1>3. trayCmds' \in [Procs -> Seq(Commands)] /\ \A q \in Procs : Len(trayCmds'[q]) <= MaxPending
  <2>1. trayCmds \in [Procs -> Seq(Commands)] /\ \A q \in Procs : Len(trayCmds[q]) <= MaxPending
      BY DEF ShellIInv, ShellTypeOK
  <2>2. <<>> \in Seq(Commands) /\ Len(<<>>) <= MaxPending
      OBVIOUS
  <2> QED
      BY <1>2, <2>1, <2>2
<1>4. ShellTypeOK'
    BY <1>1, <1>2, <1>3 DEF ShellIInv, ShellTypeOK
<1>5. TriesInv'
    BY <1>2 DEF ShellIInv, ShellTypeOK, TriesInv
<1>6. HolderInv'
    BY <1>1, <1>2 DEF ShellIInv, ShellTypeOK, HolderInv
<1>7. EarlyInv'
    BY <1>2 DEF ShellIInv, ShellTypeOK, EarlyInv
<1>8. OneBall'
    BY <1>2 DEF ShellIInv, ShellTypeOK, OneBall
<1>9. ReachInv'
    BY <1>1, <1>2 DEF ShellIInv, ShellTypeOK, ReachInv
<1> QED
    BY <1>4, <1>5, <1>6, <1>7, <1>8, <1>9 DEF ShellIInv

\* The guard, the event and the start of a copy.
LEMMA GuardStep ==
  ASSUME ShellIInv, NEW p \in Procs,
         \/ AcquireSingleInstance(p)
         \/ \E ok \in BOOLEAN : CreateActivateEvent(p, ok)
         \/ SignalEvent(p)
         \/ Woken(p)
         \/ PostActivate(p)
         \/ OpenMainWindow(p)
  PROVE  ShellIInv'
<1> USE ShellAssumption DEF ShellAssumption, ShellIInv, windowVars, ballWinVars, UnchangedSystem, Running, ShowMainWindow
<1>1. CASE AcquireSingleInstance(p)
  <2>1. ShellTypeOK'
    <3>1. tries' \in [Procs -> 0 .. Retries] /\ mutex' \in Procs \cup {NoProc}
        BY <1>1 DEF AcquireSingleInstance, ShellTypeOK
    <3>3. PICK x \in {"guarded", "handing"} : phase' = [phase EXCEPT ![p] = x]
        BY <1>1 DEF AcquireSingleInstance
    <3>2. phase' \in [Procs -> {"off", "guarded", "starting", "running", "handing"}]
        BY <3>3 DEF ShellTypeOK
    <3> QED
        BY <1>1, <3>1, <3>2 DEF AcquireSingleInstance, ShellTypeOK
  <2>2. TriesInv'
      BY <1>1 DEF AcquireSingleInstance, ShellTypeOK, TriesInv
  <2>3. HolderInv'
      BY <1>1 DEF AcquireSingleInstance, ShellTypeOK, HolderInv
  <2>4. EarlyInv'
      BY <1>1 DEF AcquireSingleInstance, ShellTypeOK, EarlyInv
  <2>5. OneBall'
      BY <1>1 DEF AcquireSingleInstance, ShellTypeOK, OneBall
  <2>6. ReachInv'
      BY <1>1 DEF AcquireSingleInstance, ShellTypeOK, ReachInv
  <2> QED
      BY <2>1, <2>2, <2>3, <2>4, <2>5, <2>6
<1>2. CASE \E ok \in BOOLEAN : CreateActivateEvent(p, ok)
  <2>1. ShellTypeOK'
      BY <1>2 DEF CreateActivateEvent, ShellTypeOK
  <2>2. TriesInv'
      BY <1>2 DEF CreateActivateEvent, ShellTypeOK, TriesInv
  <2>3. HolderInv'
      BY <1>2 DEF CreateActivateEvent, ShellTypeOK, HolderInv
  <2>4. EarlyInv'
      BY <1>2 DEF CreateActivateEvent, ShellTypeOK, EarlyInv
  <2>5. OneBall'
      BY <1>2 DEF CreateActivateEvent, ShellTypeOK, OneBall
  <2>6. ReachInv'
      BY <1>2 DEF CreateActivateEvent, ShellTypeOK, ReachInv
  <2> QED
      BY <2>1, <2>2, <2>3, <2>4, <2>5, <2>6
<1>3. CASE SignalEvent(p)
  <2>1. ShellTypeOK'
    <3>1. tries' \in [Procs -> 0 .. Retries]
        BY <1>3 DEF SignalEvent, ShellTypeOK, TriesInv
    <3>2. phase' \in [Procs -> {"off", "guarded", "starting", "running", "handing"}]
        BY <1>3 DEF SignalEvent, ShellTypeOK
    <3> QED
        BY <1>3, <3>1, <3>2 DEF SignalEvent, ShellTypeOK
  <2>2. TriesInv'
      BY <1>3 DEF SignalEvent, ShellTypeOK, TriesInv
  <2>3. HolderInv'
      BY <1>3 DEF SignalEvent, ShellTypeOK, HolderInv
  <2>4. EarlyInv'
      BY <1>3 DEF SignalEvent, ShellTypeOK, EarlyInv
  <2>5. OneBall'
      BY <1>3 DEF SignalEvent, ShellTypeOK, OneBall
  <2>6. ReachInv'
      BY <1>3 DEF SignalEvent, ShellTypeOK, ReachInv
  <2> QED
      BY <2>1, <2>2, <2>3, <2>4, <2>5, <2>6
<1>4. CASE Woken(p)
  <2>1. ShellTypeOK'
      BY <1>4 DEF Woken, ShellTypeOK
  <2>2. TriesInv'
      BY <1>4 DEF Woken, ShellTypeOK, TriesInv
  <2>3. HolderInv'
      BY <1>4 DEF Woken, ShellTypeOK, HolderInv
  <2>4. EarlyInv'
      BY <1>4 DEF Woken, ShellTypeOK, EarlyInv
  <2>5. OneBall'
      BY <1>4 DEF Woken, ShellTypeOK, OneBall
  <2>6. ReachInv'
      BY <1>4 DEF Woken, ShellTypeOK, ReachInv
  <2> QED
      BY <2>1, <2>2, <2>3, <2>4, <2>5, <2>6
<1>5. CASE PostActivate(p)
  <2>1. ShellTypeOK'
      BY <1>5 DEF PostActivate, ShellTypeOK, Messages
  <2>2. TriesInv'
      BY <1>5 DEF PostActivate, ShellTypeOK, TriesInv
  <2>3. HolderInv'
      BY <1>5 DEF PostActivate, ShellTypeOK, HolderInv
  <2>4. EarlyInv'
      BY <1>5 DEF PostActivate, ShellTypeOK, EarlyInv
  <2>5. OneBall'
      BY <1>5 DEF PostActivate, ShellTypeOK, OneBall
  <2>6. ReachInv'
      BY <1>5 DEF PostActivate, ShellTypeOK, ReachInv
  <2> QED
      BY <2>1, <2>2, <2>3, <2>4, <2>5, <2>6
<1>6. CASE OpenMainWindow(p)
  <2>1. ShellTypeOK'
      BY <1>6 DEF OpenMainWindow, AddTrayIcon, ShellTypeOK
  <2>2. TriesInv'
      BY <1>6 DEF OpenMainWindow, AddTrayIcon, ShellTypeOK, TriesInv
  <2>3. HolderInv'
      BY <1>6 DEF OpenMainWindow, AddTrayIcon, ShellTypeOK, HolderInv
  <2>4. EarlyInv'
      BY <1>6 DEF OpenMainWindow, AddTrayIcon, ShellTypeOK, EarlyInv
  <2>5. OneBall'
      BY <1>6 DEF OpenMainWindow, AddTrayIcon, ShellTypeOK, OneBall, EarlyInv
  <2>6. ReachInv'
    <3>1. PICK added \in BOOLEAN : AddTrayIcon(p, added)
        BY <1>6 DEF OpenMainWindow
    <3>2. icon'[p] \/ refused'[p]
        BY <3>1 DEF AddTrayIcon, ShellTypeOK
    <3>3. \A q \in Procs : q # p => icon'[q] = icon[q] /\ refused'[q] = refused[q]
        BY <3>1 DEF AddTrayIcon, ShellTypeOK
    <3>4. \A q \in Procs : q # p => phase'[q] = phase[q] /\ main'[q] = main[q]
        BY <1>6 DEF OpenMainWindow, ShellTypeOK
    <3>5. main'[p] = "shown" /\ ~ quit[p] /\ UNCHANGED <<quit, posted, trayCmds>>
        BY <1>6 DEF OpenMainWindow, ShellTypeOK, EarlyInv
    <3> QED
        BY <3>2, <3>3, <3>4, <3>5 DEF ReachInv
  <2> QED
      BY <2>1, <2>2, <2>3, <2>4, <2>5, <2>6
<1> QED
    BY <1>1, <1>2, <1>3, <1>4, <1>5, <1>6

\* A queued command keeps the queue within its limit, and a quit in it stays there.
LEMMA CommandIsQueued ==
  ASSUME ShellIInv, NEW p \in Procs, NEW c \in Commands, SendTrayCommand(p, c)
  PROVE  /\ trayCmds' \in [Procs -> Seq(Commands)]
         /\ \A q \in Procs : Len(trayCmds'[q]) <= MaxPending
         /\ \A q \in Procs : (\E i \in DOMAIN trayCmds[q] : trayCmds[q][i] = "quit")
                             => \E i \in DOMAIN trayCmds'[q] : trayCmds'[q][i] = "quit"
         /\ c = "quit" => \E i \in DOMAIN trayCmds'[p] : trayCmds'[p][i] = "quit"
<1> USE ShellAssumption DEF ShellAssumption
<1>1. trayCmds \in [Procs -> Seq(Commands)] /\ \A q \in Procs : Len(trayCmds[q]) <= MaxPending
    BY DEF ShellIInv, ShellTypeOK
<1>2. Len(trayCmds[p]) < MaxPending /\ trayCmds' = [trayCmds EXCEPT ![p] = Append(@, c)]
    BY DEF SendTrayCommand
<1>3. PICK q \in Seq(Commands) : q = trayCmds[p]
    BY <1>1
<1>4. PICK n \in Nat : n = Len(q) /\ DOMAIN q = 1 .. n
    OBVIOUS
<1>5. Append(q, c) \in Seq(Commands)
    BY <1>3
<1>6. PICK r \in Seq(Commands) : r = Append(q, c)
    BY <1>5
<1>7. Len(r) = n + 1 /\ DOMAIN r = 1 .. n + 1 /\ r[n + 1] = c /\ \A i \in 1 .. n : r[i] = q[i]
    BY <1>3, <1>4, <1>6
<1>8. trayCmds' = [trayCmds EXCEPT ![p] = r] /\ trayCmds'[p] = r
    BY <1>1, <1>2, <1>3, <1>6
<1>9. n < MaxPending
    BY <1>2, <1>3, <1>4
<1>10. Len(r) <= MaxPending
    BY <1>7, <1>9
<1>11. (\E i \in DOMAIN q : q[i] = "quit") => \E i \in DOMAIN r : r[i] = "quit"
    BY <1>4, <1>7
<1>12. c = "quit" => \E i \in DOMAIN r : r[i] = "quit"
    BY <1>7
<1> QED
    BY <1>1, <1>3, <1>6, <1>8, <1>10, <1>11, <1>12

\* The main window's procedure and the tray's menu.
LEMMA WindowStep ==
  ASSUME ShellIInv, NEW p \in Procs,
         \/ ClickShow(p)
         \/ ToggleMainWindow(p)
         \/ CloseWindow(p)
         \/ ExplorerRestarts(p)
         \/ MenuFloating(p)
         \/ BallRefresh(p)
         \/ QuitApp(p)
  PROVE  ShellIInv'
<1> USE ShellAssumption DEF ShellAssumption, ShellIInv, windowVars, ballWinVars, UnchangedSystem, Running, ShowMainWindow
<1>1. CASE ClickShow(p)
  <2>1. ShellTypeOK'
      BY <1>1 DEF ClickShow, ShellTypeOK
  <2>2. TriesInv'
      BY <1>1 DEF ClickShow, ShellTypeOK, TriesInv
  <2>3. HolderInv'
      BY <1>1 DEF ClickShow, ShellTypeOK, HolderInv
  <2>4. EarlyInv'
      BY <1>1 DEF ClickShow, ShellTypeOK, EarlyInv
  <2>5. OneBall'
      BY <1>1 DEF ClickShow, ShellTypeOK, OneBall
  <2>6. ReachInv'
      BY <1>1 DEF ClickShow, ShellTypeOK, ReachInv
  <2> QED
      BY <2>1, <2>2, <2>3, <2>4, <2>5, <2>6
<1>2. CASE ToggleMainWindow(p)
  <2>1. ShellTypeOK'
      BY <1>2 DEF ToggleMainWindow, ShellTypeOK
  <2>2. TriesInv'
      BY <1>2 DEF ToggleMainWindow, ShellTypeOK, TriesInv
  <2>3. HolderInv'
      BY <1>2 DEF ToggleMainWindow, ShellTypeOK, HolderInv
  <2>4. EarlyInv'
      BY <1>2 DEF ToggleMainWindow, ShellTypeOK, EarlyInv
  <2>5. OneBall'
      BY <1>2 DEF ToggleMainWindow, ShellTypeOK, OneBall
  <2>6. ReachInv'
      BY <1>2 DEF ToggleMainWindow, ShellTypeOK, ReachInv
  <2> QED
      BY <2>1, <2>2, <2>3, <2>4, <2>5, <2>6
<1>3. CASE CloseWindow(p)
  <2>1. ShellTypeOK'
      BY <1>3 DEF CloseWindow, ShellTypeOK, Messages
  <2>2. TriesInv'
      BY <1>3 DEF CloseWindow, ShellTypeOK, TriesInv
  <2>3. HolderInv'
      BY <1>3 DEF CloseWindow, ShellTypeOK, HolderInv
  <2>4. EarlyInv'
      BY <1>3 DEF CloseWindow, ShellTypeOK, EarlyInv
  <2>5. OneBall'
      BY <1>3 DEF CloseWindow, ShellTypeOK, OneBall
  <2>6. ReachInv'
      BY <1>3 DEF CloseWindow, ShellTypeOK, ReachInv
  <2> QED
      BY <2>1, <2>2, <2>3, <2>4, <2>5, <2>6
<1>4. CASE ExplorerRestarts(p)
  <2>1. ShellTypeOK'
      BY <1>4 DEF ExplorerRestarts, ShellTypeOK, Messages
  <2>2. TriesInv'
      BY <1>4 DEF ExplorerRestarts, ShellTypeOK, TriesInv
  <2>3. HolderInv'
      BY <1>4 DEF ExplorerRestarts, ShellTypeOK, HolderInv
  <2>4. EarlyInv'
      BY <1>4 DEF ExplorerRestarts, ShellTypeOK, EarlyInv
  <2>5. OneBall'
      BY <1>4 DEF ExplorerRestarts, ShellTypeOK, OneBall
  <2>6. ReachInv'
      BY <1>4 DEF ExplorerRestarts, ShellTypeOK, ReachInv
  <2> QED
      BY <2>1, <2>2, <2>3, <2>4, <2>5, <2>6
<1>5. CASE MenuFloating(p)
  <2>1. ShellTypeOK'
    <3>1. trayCmds' \in [Procs -> Seq(Commands)] /\ \A q \in Procs : Len(trayCmds'[q]) <= MaxPending
        BY <1>5, CommandIsQueued DEF MenuFloating, Commands
    <3> QED
        BY <1>5, <3>1 DEF MenuFloating, ShellTypeOK
  <2>2. TriesInv'
      BY <1>5 DEF MenuFloating, ShellTypeOK, TriesInv
  <2>3. HolderInv'
      BY <1>5 DEF MenuFloating, ShellTypeOK, HolderInv
  <2>4. EarlyInv'
      BY <1>5 DEF MenuFloating, ShellTypeOK, EarlyInv
  <2>5. OneBall'
      BY <1>5 DEF MenuFloating, ShellTypeOK, OneBall
  <2>6. ReachInv'
    <3>1. \A q \in Procs : (\E i \in DOMAIN trayCmds[q] : trayCmds[q][i] = "quit")
                           => \E i \in DOMAIN trayCmds'[q] : trayCmds'[q][i] = "quit"
        BY <1>5, CommandIsQueued DEF MenuFloating, Commands
    <3> QED
        BY <1>5, <3>1 DEF MenuFloating, ShellTypeOK, ReachInv
  <2> QED
      BY <2>1, <2>2, <2>3, <2>4, <2>5, <2>6
<1>6. CASE BallRefresh(p)
  <2>1. ShellTypeOK'
    <3>1. trayCmds' \in [Procs -> Seq(Commands)] /\ \A q \in Procs : Len(trayCmds'[q]) <= MaxPending
        BY <1>6, CommandIsQueued DEF BallRefresh, Commands
    <3> QED
        BY <1>6, <3>1 DEF BallRefresh, ShellTypeOK
  <2>2. TriesInv'
      BY <1>6 DEF BallRefresh, ShellTypeOK, TriesInv
  <2>3. HolderInv'
      BY <1>6 DEF BallRefresh, ShellTypeOK, HolderInv
  <2>4. EarlyInv'
      BY <1>6 DEF BallRefresh, ShellTypeOK, EarlyInv
  <2>5. OneBall'
      BY <1>6 DEF BallRefresh, ShellTypeOK, OneBall
  <2>6. ReachInv'
    <3>1. \A q \in Procs : (\E i \in DOMAIN trayCmds[q] : trayCmds[q][i] = "quit")
                           => \E i \in DOMAIN trayCmds'[q] : trayCmds'[q][i] = "quit"
        BY <1>6, CommandIsQueued DEF BallRefresh, Commands
    <3> QED
        BY <1>6, <3>1 DEF BallRefresh, ShellTypeOK, ReachInv
  <2> QED
      BY <2>1, <2>2, <2>3, <2>4, <2>5, <2>6
<1>7. CASE QuitApp(p)
  <2>1. ShellTypeOK'
    <3>1. trayCmds' \in [Procs -> Seq(Commands)] /\ \A q \in Procs : Len(trayCmds'[q]) <= MaxPending
        BY <1>7, CommandIsQueued DEF QuitApp, Commands
    <3>2. quit' \in [Procs -> BOOLEAN] /\ icon' \in [Procs -> BOOLEAN]
        BY <1>7 DEF QuitApp, ShellTypeOK
    <3> QED
        BY <1>7, <3>1, <3>2 DEF QuitApp, ShellTypeOK
  <2>2. TriesInv'
      BY <1>7 DEF QuitApp, ShellTypeOK, TriesInv
  <2>3. HolderInv'
      BY <1>7 DEF QuitApp, ShellTypeOK, HolderInv
  <2>4. EarlyInv'
      BY <1>7 DEF QuitApp, ShellTypeOK, EarlyInv
  <2>5. OneBall'
      BY <1>7 DEF QuitApp, ShellTypeOK, OneBall
  <2>6. ReachInv'
    <3>1. \A q \in Procs : (\E i \in DOMAIN trayCmds[q] : trayCmds[q][i] = "quit")
                           => \E i \in DOMAIN trayCmds'[q] : trayCmds'[q][i] = "quit"
        BY <1>7, CommandIsQueued DEF QuitApp, Commands
    <3>2. \E i \in DOMAIN trayCmds'[p] : trayCmds'[p][i] = "quit"
        BY <1>7, CommandIsQueued DEF QuitApp, Commands
    <3> QED
        BY <1>7, <3>1, <3>2 DEF QuitApp, ShellTypeOK, ReachInv
  <2> QED
      BY <2>1, <2>2, <2>3, <2>4, <2>5, <2>6
<1> QED
    BY <1>1, <1>2, <1>3, <1>4, <1>5, <1>6, <1>7

\* The floating window comes and goes.
LEMMA FloatingStep ==
  ASSUME ShellIInv, NEW p \in Procs,
         \/ FloatingOpened(p)
         \/ FloatingFails(p)
         \/ FloatingDestroyed(p)
  PROVE  ShellIInv'
<1> USE ShellAssumption DEF ShellAssumption, ShellIInv, windowVars, ballWinVars, UnchangedSystem, Running, ShowMainWindow
<1>1. CASE FloatingOpened(p)
  <2>1. ShellTypeOK'
    <3>1. opening' \in [Procs -> Nat] /\ balls' \in [Procs -> Nat]
        BY <1>1 DEF FloatingOpened, ShellTypeOK
    <3> QED
        BY <1>1, <3>1 DEF FloatingOpened, ShellTypeOK
  <2>2. TriesInv'
      BY <1>1 DEF FloatingOpened, ShellTypeOK, TriesInv
  <2>3. HolderInv'
      BY <1>1 DEF FloatingOpened, ShellTypeOK, HolderInv
  <2>4. EarlyInv'
      BY <1>1 DEF FloatingOpened, ShellTypeOK, EarlyInv, OneBall
  <2>5. OneBall'
      BY <1>1 DEF FloatingOpened, ShellTypeOK, OneBall
  <2>6. ReachInv'
      BY <1>1 DEF FloatingOpened, ShellTypeOK, ReachInv
  <2> QED
      BY <2>1, <2>2, <2>3, <2>4, <2>5, <2>6
<1>2. CASE FloatingFails(p)
  <2>1. ShellTypeOK'
      BY <1>2 DEF FloatingFails, ShellTypeOK
  <2>2. TriesInv'
      BY <1>2 DEF FloatingFails, ShellTypeOK, TriesInv
  <2>3. HolderInv'
      BY <1>2 DEF FloatingFails, ShellTypeOK, HolderInv
  <2>4. EarlyInv'
      BY <1>2 DEF FloatingFails, ShellTypeOK, EarlyInv
  <2>5. OneBall'
      BY <1>2 DEF FloatingFails, ShellTypeOK, OneBall
  <2>6. ReachInv'
      BY <1>2 DEF FloatingFails, ShellTypeOK, ReachInv
  <2> QED
      BY <2>1, <2>2, <2>3, <2>4, <2>5, <2>6
<1>3. CASE FloatingDestroyed(p)
  <2>1. ShellTypeOK'
    <3>1. balls' \in [Procs -> Nat]
      <4>1. balls[p] = 1
          BY <1>3 DEF FloatingDestroyed, OneBall
      <4> QED
          BY <1>3, <4>1 DEF FloatingDestroyed, ShellTypeOK
    <3> QED
        BY <1>3, <3>1 DEF FloatingDestroyed, ShellTypeOK
  <2>2. TriesInv'
      BY <1>3 DEF FloatingDestroyed, ShellTypeOK, TriesInv
  <2>3. HolderInv'
      BY <1>3 DEF FloatingDestroyed, ShellTypeOK, HolderInv
  <2>4. EarlyInv'
      BY <1>3 DEF FloatingDestroyed, ShellTypeOK, EarlyInv
  <2>5. OneBall'
      BY <1>3 DEF FloatingDestroyed, ShellTypeOK, OneBall
  <2>6. ReachInv'
      BY <1>3 DEF FloatingDestroyed, ShellTypeOK, ReachInv
  <2> QED
      BY <2>1, <2>2, <2>3, <2>4, <2>5, <2>6
<1> QED
    BY <1>1, <1>2, <1>3

\* What the messages posted to the main window do.
LEMMA MessageStep ==
  ASSUME ShellIInv, NEW p \in Procs, NEW m \in Messages, HandleMessage(p, m)
  PROVE  ShellIInv'
<1>1. phase[p] = "running" /\ m \in posted[p]
    BY DEF HandleMessage, Running
<1>2. CASE Gone(p)
    BY <1>1, <1>2, CopyIsGone
<1>3. CASE ~ Gone(p)
  <2>1. /\ posted' = [posted EXCEPT ![p] = @ \ {m}]
        /\ UNCHANGED <<mutex, event, phase, tries, owns, woken, quit, trayCmds>>
        /\ UNCHANGED <<opening, balls, hwnd, visible, saved>>
      BY <1>3 DEF HandleMessage, UnchangedSystem, ballWinVars
  <2>2. \/ m = "activate" /\ main' = [main EXCEPT ![p] = "shown"] /\ icon' = icon /\ refused' = refused
        \/ /\ m = "taskbar" /\ main' = main
           /\ \E added \in BOOLEAN : /\ icon' = [icon EXCEPT ![p] = added]
                                   /\ refused' = [refused EXCEPT ![p] = ~ added]
        \/ /\ m = "close" /\ quit[p] /\ main' = [main EXCEPT ![p] = "none"]
           /\ icon' = [icon EXCEPT ![p] = FALSE] /\ refused' = refused
        \/ /\ m = "close" /\ ~ quit[p] /\ main' = [main EXCEPT ![p] = "hidden"]
           /\ icon' = icon /\ refused' = refused
      BY <1>3 DEF HandleMessage, OnActivate, OnTaskbarCreated, OnClose, ShowMainWindow, AddTrayIcon
  <2>3. ShellTypeOK'
    <3>1. posted' \in [Procs -> SUBSET Messages]
        BY <2>1 DEF ShellIInv, ShellTypeOK
    <3>2. main' \in [Procs -> {"none", "shown", "hidden"}]
        BY <2>2 DEF ShellIInv, ShellTypeOK
    <3>3. icon' \in [Procs -> BOOLEAN] /\ refused' \in [Procs -> BOOLEAN]
        BY <2>2 DEF ShellIInv, ShellTypeOK
    <3> QED
        BY <2>1, <3>1, <3>2, <3>3 DEF ShellIInv, ShellTypeOK
  <2>4. TriesInv' /\ HolderInv' /\ EarlyInv' /\ OneBall'
    <3>1. TriesInv'
        BY <2>1 DEF ShellIInv, TriesInv
    <3>2. HolderInv'
        BY <2>1 DEF ShellIInv, HolderInv
    <3>3. EarlyInv' /\ OneBall'
        BY <2>1 DEF ShellIInv, EarlyInv, OneBall
    <3> QED
        BY <3>1, <3>2, <3>3
  <2>5. ReachInv'
    <3>1. \A q \in Procs : q # p => /\ icon'[q] = icon[q] /\ refused'[q] = refused[q]
                                   /\ main'[q] = main[q] /\ posted'[q] = posted[q]
        BY <2>1, <2>2 DEF ShellIInv, ShellTypeOK
    <3>2. /\ quit[p] => \E i \in DOMAIN trayCmds[p] : trayCmds[p][i] = "quit"
          /\ main[p] = "none" => quit[p]
          /\ ~ quit[p] => icon[p] \/ refused[p] \/ "taskbar" \in posted[p]
        BY <1>1 DEF ShellIInv, ReachInv
    <3>3. main'[p] = "none" => quit[p]
        BY <2>2, <3>2 DEF ShellIInv, ShellTypeOK
    <3>4. CASE m = "taskbar"
      <4>1. icon'[p] \/ refused'[p]
          BY <2>2, <3>4 DEF ShellIInv, ShellTypeOK
      <4> QED
          BY <2>1, <3>1, <3>2, <3>3, <4>1 DEF ShellIInv, ReachInv
    <3>5. CASE m # "taskbar"
      <4>1. ~ quit[p] => icon'[p] = icon[p] /\ refused'[p] = refused[p]
          BY <2>2, <3>5
      <4>2. "taskbar" \in posted[p] => "taskbar" \in posted'[p]
          BY <2>1, <3>5 DEF ShellIInv, ShellTypeOK
      <4> QED
          BY <2>1, <3>1, <3>2, <3>3, <4>1, <4>2 DEF ShellIInv, ReachInv
    <3> QED
        BY <3>4, <3>5
  <2> QED
      BY <2>3, <2>4, <2>5 DEF ShellIInv
<1> QED
    BY <1>2, <1>3

\* The loop over the tray's commands: one that is not to quit leaves a later one that
\* is in place.
LEMMA CommandStep ==
  ASSUME ShellIInv, NEW p \in Procs, HandleTrayCommand(p) PROVE ShellIInv'
<1> USE ShellAssumption DEF ShellAssumption
<1>1. phase[p] = "running" /\ trayCmds[p] # <<>>
    BY DEF HandleTrayCommand
<1>2. CASE Gone(p)
    BY <1>1, <1>2, CopyIsGone
<1>3. CASE ~ Gone(p)
  <2>1. /\ Head(trayCmds[p]) # "quit" /\ trayCmds' = [trayCmds EXCEPT ![p] = Tail(@)]
        /\ UNCHANGED <<mutex, event, phase, tries, owns, woken, posted, main, icon, refused, quit>>
        /\ EnsureFloatingWindow(p) \/ UNCHANGED <<opening, balls, hwnd, visible, saved>>
      BY <1>3 DEF HandleTrayCommand, UnchangedSystem, windowVars, ballWinVars
  <2>2. trayCmds \in [Procs -> Seq(Commands)] /\ \A q \in Procs : Len(trayCmds[q]) <= MaxPending
      BY DEF ShellIInv, ShellTypeOK
  <2>3. PICK q \in Seq(Commands) : q = trayCmds[p]
      BY <2>2
  <2>4. PICK n \in Nat : n = Len(q) /\ DOMAIN q = 1 .. n
      OBVIOUS
  <2>5. q # <<>> /\ n # 0 /\ n <= MaxPending /\ q[1] # "quit"
    <3>1. q # <<>> /\ n # 0
        BY <1>1, <2>3, <2>4
    <3>2. n <= MaxPending
        BY <2>2, <2>3, <2>4
    <3>3. Head(q) = q[1]
        BY <3>1
    <3> QED
        BY <2>1, <2>3, <3>1, <3>2, <3>3
  <2>6. Tail(q) \in Seq(Commands)
      BY <2>3, <2>5
  <2>7. PICK r \in Seq(Commands) : r = Tail(q)
      BY <2>6
  <2>8. Len(r) = n - 1 /\ DOMAIN r = 1 .. n - 1 /\ \A i \in 1 .. n - 1 : r[i] = q[i + 1]
      BY <2>3, <2>4, <2>5, <2>7
  <2>9. trayCmds' = [trayCmds EXCEPT ![p] = r] /\ trayCmds'[p] = r
      BY <2>1, <2>2, <2>3, <2>7
  <2>10. (\E i \in DOMAIN q : q[i] = "quit") => \E i \in DOMAIN r : r[i] = "quit"
    <3> SUFFICES ASSUME NEW i \in 1 .. n, q[i] = "quit" PROVE \E j \in DOMAIN r : r[j] = "quit"
        BY <2>4
    <3>1. i # 1 /\ i - 1 \in 1 .. n - 1
        BY <2>5
    <3>2. r[i - 1] = q[(i - 1) + 1] /\ (i - 1) + 1 = i
        BY <2>8, <3>1
    <3> QED
        BY <2>8, <3>1, <3>2
  <2>11. trayCmds' \in [Procs -> Seq(Commands)] /\ \A v \in Procs : Len(trayCmds'[v]) <= MaxPending
    <3>1. Len(r) <= MaxPending
        BY <2>5, <2>8
    <3> QED
        BY <2>2, <2>7, <2>9, <3>1
  <2>12. /\ opening' \in [Procs -> Nat] /\ balls' = balls /\ hwnd' = hwnd
         /\ visible' \in [Procs -> BOOLEAN] /\ saved' \in BOOLEAN
         /\ \A v \in Procs : opening'[v] # opening[v]
              => v = p /\ ~ hwnd[v] /\ opening[v] = 0 /\ opening'[v] = 1
    <3>1. /\ opening \in [Procs -> Nat] /\ visible \in [Procs -> BOOLEAN]
          /\ hwnd \in [Procs -> BOOLEAN] /\ saved \in BOOLEAN
        BY DEF ShellIInv, ShellTypeOK
    <3>2. CASE UNCHANGED <<opening, balls, hwnd, visible, saved>>
        BY <3>1, <3>2
    <3>3. CASE EnsureFloatingWindow(p) /\ hwnd[p]
        BY <3>1, <3>3 DEF EnsureFloatingWindow
    <3>4. CASE EnsureFloatingWindow(p) /\ ~ hwnd[p] /\ opening[p] = 0
        BY <3>1, <3>4 DEF EnsureFloatingWindow
    <3>5. CASE EnsureFloatingWindow(p) /\ ~ hwnd[p] /\ opening[p] # 0
      <4>1. UNCHANGED <<balls, hwnd, visible, saved>> /\ opening' = [opening EXCEPT ![p] = opening[p]]
          BY <3>5 DEF EnsureFloatingWindow
      <4>2. opening' = opening
          BY <3>1, <4>1
      <4> QED
          BY <3>1, <4>1, <4>2
    <3> QED
        BY <2>1, <3>2, <3>3, <3>4, <3>5
  <2>13. ShellTypeOK'
    <3>1. {owns, woken, icon, refused, quit, hwnd, visible}' \subseteq [Procs -> BOOLEAN]
      <4>1. {owns, woken, icon, refused, quit, hwnd} \subseteq [Procs -> BOOLEAN]
          BY DEF ShellIInv, ShellTypeOK
      <4>2. {owns', woken', icon', refused', quit', hwnd'} \subseteq [Procs -> BOOLEAN]
          BY <2>1, <2>12, <4>1
      <4> QED
          BY <2>12, <4>2
    <3>2. {opening, balls}' \subseteq [Procs -> Nat]
        BY <2>12 DEF ShellIInv, ShellTypeOK
    <3> QED
        BY <2>1, <2>11, <2>12, <3>1, <3>2 DEF ShellIInv, ShellTypeOK
  <2>14. TriesInv'
      BY <2>1 DEF ShellIInv, TriesInv
  <2>15. HolderInv'
      BY <2>1 DEF ShellIInv, HolderInv
  <2>16. EarlyInv'
      BY <1>1, <2>1, <2>12 DEF ShellIInv, EarlyInv
  <2>17. OneBall'
    <3> SUFFICES ASSUME NEW v \in Procs
                 PROVE  balls[v] + opening'[v] <= 1 /\ (hwnd[v] <=> balls[v] = 1)
        BY <2>12 DEF OneBall
    <3>1. balls[v] + opening[v] <= 1 /\ (hwnd[v] <=> balls[v] = 1) /\ balls[v] \in Nat /\ opening[v] \in Nat
        BY DEF ShellIInv, ShellTypeOK, OneBall
    <3> QED
        BY <2>12, <3>1
  <2>18. ReachInv'
    <3>1. \A v \in Procs : (\E i \in DOMAIN trayCmds[v] : trayCmds[v][i] = "quit")
                           => \E i \in DOMAIN trayCmds'[v] : trayCmds'[v][i] = "quit"
        BY <2>2, <2>3, <2>9, <2>10
    <3> QED
        BY <2>1, <3>1 DEF ShellIInv, ReachInv
  <2> QED
      BY <2>13, <2>14, <2>15, <2>16, <2>17, <2>18 DEF ShellIInv
<1> QED
    BY <1>2, <1>3

\* Every step of a launch, a running copy and the system keeps the invariant.
LEMMA ShellStep == ShellIInv /\ [ShellNext]_shellVars => ShellIInv'
<1> SUFFICES ASSUME ShellIInv, [ShellNext]_shellVars PROVE ShellIInv'
    OBVIOUS
<1>1. CASE UNCHANGED shellVars
  <2>1. ShellTypeOK'
      BY <1>1 DEF shellVars, windowVars, ballWinVars, ShellIInv, ShellTypeOK
  <2>2. TriesInv' /\ HolderInv'
      BY <1>1 DEF shellVars, windowVars, ballWinVars, ShellIInv, TriesInv, HolderInv
  <2>3. EarlyInv' /\ OneBall' /\ ReachInv'
      BY <1>1 DEF shellVars, windowVars, ballWinVars, ShellIInv, EarlyInv, OneBall, ReachInv
  <2> QED
      BY <2>1, <2>2, <2>3 DEF ShellIInv
<1>2. ASSUME NEW p \in Procs, Crash(p) PROVE ShellIInv'
  <2>1. phase[p] \in {"guarded", "starting", "running"}
      BY <1>2 DEF Crash, ShellIInv, ShellTypeOK
  <2> QED
      BY <1>2, <2>1, CopyIsGone DEF Crash
<1> QED
    BY <1>1, <1>2, GuardStep, WindowStep, FloatingStep, MessageStep, CommandStep DEF ShellNext

\* The guard keeps the activation event to the running copy, whatever is launched and
\* whatever ends meanwhile; OPENING and FLOATING_HWND keep the ball to one window; and no
\* order of closing, quitting and explorer restarts leaves a copy running that neither its
\* window nor its icon nor its ball can reach, except after the shell refused the icon.
THEOREM ShellCorrect == ShellSpec => []ShellInv
<1> QED
    BY ShellStart, ShellStep, ShellInvHolds, PTL DEF ShellSpec
=============================================================================
