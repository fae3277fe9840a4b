------------------------------- MODULE Shell -------------------------------
(***************************************************************************)
(* The shell of the Windows desktop frontend: the guard that keeps it to   *)
(* one copy (platform/windows/single_instance.rs), the tray icon and the   *)
(* hook on the main window (platform/windows/tray.rs), the order of the    *)
(* start (app/mod.rs), the tray's command loop, and the creation of the    *)
(* floating window (app/app.rs).                                           *)
(*                                                                         *)
(* Procs are launches of the program.  The mutex and the activation event  *)
(* live in the system and go away with the copy that holds them.  A copy   *)
(* whose guard cannot even be created runs beside the others and shares    *)
(* nothing with them; it is left out.                                      *)
(***************************************************************************)
EXTENDS Integers, Sequences, FiniteSets

CONSTANTS
  Procs,
  Retries,     \* attempts to signal the running copy (ACTIVATE_RETRIES)
  MaxPending,  \* bound: tray commands not yet handled by a copy
  NoProc

ASSUME ShellAssumption ==
  /\ Retries \in Nat \ {0} /\ MaxPending \in Nat \ {0}
  /\ NoProc \notin Procs

VARIABLES
  mutex,      \* who holds the guard
  event,      \* the named event: "none", "clear" or "set"
  phase,      \* of each launch: "off", "guarded", "starting", "running", "handing"
  tries,      \* of a launch that hands off
  owns,       \* it created the activation event
  woken,      \* its listener has taken a signal and not yet posted the message
  posted,     \* messages posted to its main window
  main,       \* its main window: "none", "shown" or "hidden"
  icon,       \* the shell shows its tray icon
  refused,    \* history: the shell refused the icon when it was last to be added
  quit,       \* QUIT_REQUESTED
  trayCmds,   \* commands sent to its command loop and not yet handled
  opening,    \* calls that are creating the floating window; OPENING is set while there are any
  balls,      \* floating windows alive
  hwnd,       \* FLOATING_HWND names a window that is alive
  visible,    \* FLOATING_VISIBLE
  saved       \* the stored preference to show the ball

windowVars == <<woken, posted, main, icon, refused, quit>>
ballWinVars == <<opening, balls, hwnd, visible, saved>>
shellVars == <<mutex, event, phase, tries, owns, windowVars, trayCmds, ballWinVars>>

Messages == {"activate", "close", "taskbar"}
Commands == {"floating", "refresh", "quit"}

-----------------------------------------------------------------------------
ShellInit ==
  /\ mutex = NoProc /\ event = "none"
  /\ phase = [p \in Procs |-> "off"]
  /\ tries = [p \in Procs |-> 0]
  /\ owns = [p \in Procs |-> FALSE]
  /\ woken = [p \in Procs |-> FALSE]
  /\ posted = [p \in Procs |-> {}]
  /\ main = [p \in Procs |-> "none"]
  /\ icon = [p \in Procs |-> FALSE] /\ refused = [p \in Procs |-> FALSE]
  /\ quit = [p \in Procs |-> FALSE]
  /\ trayCmds = [p \in Procs |-> <<>>]
  /\ opening = [p \in Procs |-> 0]
  /\ balls = [p \in Procs |-> 0]
  /\ hwnd = [p \in Procs |-> FALSE]
  /\ visible = [p \in Procs |-> FALSE]
  /\ saved = TRUE

-----------------------------------------------------------------------------
\* The guard.

\* CreateMutexW: this copy is the first, or another holds the guard.
AcquireSingleInstance(p) ==
  /\ phase[p] = "off"
  /\ IF mutex = NoProc
     THEN mutex' = p /\ phase' = [phase EXCEPT ![p] = "guarded"]
     ELSE phase' = [phase EXCEPT ![p] = "handing"] /\ UNCHANGED mutex
  /\ tries' = [tries EXCEPT ![p] = 0]
  /\ UNCHANGED <<event, owns, windowVars, trayCmds, ballWinVars>>

CreateActivateEvent(p, ok) ==
  /\ phase[p] = "guarded"
  /\ phase' = [phase EXCEPT ![p] = "starting"]
  /\ owns' = [owns EXCEPT ![p] = ok]
  /\ event' = IF ok THEN "clear" ELSE event
  /\ UNCHANGED <<mutex, tries, windowVars, trayCmds, ballWinVars>>

\* A later launch signals the event, or sleeps and tries again, and ends.
SignalEvent(p) ==
  /\ phase[p] = "handing"
  /\ IF event # "none"
     THEN /\ event' = "set"
          /\ phase' = [phase EXCEPT ![p] = "off"]
          /\ UNCHANGED tries
     ELSE /\ tries' = [tries EXCEPT ![p] = @ + 1]
          /\ phase' = [phase EXCEPT ![p] = IF tries[p] + 1 < Retries THEN "handing" ELSE "off"]
          /\ UNCHANGED event
  /\ UNCHANGED <<mutex, owns, windowVars, trayCmds, ballWinVars>>

\* The listener's wait takes the signal (the event resets itself), then it posts.
Woken(p) ==
  /\ phase[p] = "running" /\ owns[p] /\ ~woken[p]
  /\ event = "set"
  /\ event' = "clear"
  /\ woken' = [woken EXCEPT ![p] = TRUE]
  /\ UNCHANGED <<mutex, phase, tries, owns, posted, main, icon, refused, quit, trayCmds, ballWinVars>>

PostActivate(p) ==
  /\ woken[p]
  /\ woken' = [woken EXCEPT ![p] = FALSE]
  /\ posted' = [posted EXCEPT ![p] = @ \cup {"activate"}]
  /\ UNCHANGED <<mutex, event, phase, tries, owns, main, icon, refused, quit, trayCmds, ballWinVars>>

-----------------------------------------------------------------------------
\* Start and end of a copy.

\* Shell_NotifyIconW(NIM_ADD): the shell may refuse the icon, and nobody asks.
AddTrayIcon(p, added) ==
  /\ icon' = [icon EXCEPT ![p] = added]
  /\ refused' = [refused EXCEPT ![p] = ~added]

\* The main window is created and hooked, the icon added, the listener started;
\* then the ball is restored if it was left visible.
OpenMainWindow(p) ==
  /\ phase[p] = "starting"
  /\ phase' = [phase EXCEPT ![p] = "running"]
  /\ main' = [main EXCEPT ![p] = "shown"]
  /\ \E added \in BOOLEAN : AddTrayIcon(p, added)
  /\ opening' = [opening EXCEPT ![p] = IF saved THEN 1 ELSE 0]
  /\ UNCHANGED <<mutex, event, tries, owns, woken, posted, quit, trayCmds, balls, hwnd, visible, saved>>

\* What the system and the shell take back when a process ends.
Gone(p) ==
  /\ phase' = [phase EXCEPT ![p] = "off"]
  /\ mutex' = IF mutex = p THEN NoProc ELSE mutex
  /\ event' = IF owns[p] THEN "none" ELSE event
  /\ owns' = [owns EXCEPT ![p] = FALSE]
  /\ woken' = [woken EXCEPT ![p] = FALSE]
  /\ posted' = [posted EXCEPT ![p] = {}]
  /\ main' = [main EXCEPT ![p] = "none"]
  /\ icon' = [icon EXCEPT ![p] = FALSE]
  /\ refused' = [refused EXCEPT ![p] = FALSE]
  /\ quit' = [quit EXCEPT ![p] = FALSE]
  /\ trayCmds' = [trayCmds EXCEPT ![p] = <<>>]
  /\ opening' = [opening EXCEPT ![p] = 0]
  /\ balls' = [balls EXCEPT ![p] = 0]
  /\ hwnd' = [hwnd EXCEPT ![p] = FALSE]
  /\ visible' = [visible EXCEPT ![p] = FALSE]
  /\ UNCHANGED <<tries, saved>>

\* The process dies, or cannot open its database or window.
Crash(p) == phase[p] \notin {"off", "handing"} /\ Gone(p)

-----------------------------------------------------------------------------
\* The main window's procedure.

Running(p) == phase[p] = "running" /\ main[p] # "none"

BallShown(p) == hwnd[p] /\ visible[p]

UnchangedSystem == UNCHANGED <<mutex, event, phase, tries, owns>>

ShowMainWindow(p) == main' = [main EXCEPT ![p] = "shown"]

\* A click on the icon, or a double click on the ball.
ClickShow(p) ==
  /\ Running(p) /\ (icon[p] \/ BallShown(p))
  /\ ShowMainWindow(p)
  /\ UnchangedSystem
  /\ UNCHANGED <<woken, posted, icon, refused, quit, trayCmds, ballWinVars>>

ToggleMainWindow(p) ==
  /\ Running(p) /\ icon[p]
  /\ main' = [main EXCEPT ![p] = IF @ = "shown" THEN "hidden" ELSE "shown"]
  /\ UnchangedSystem
  /\ UNCHANGED <<woken, posted, icon, refused, quit, trayCmds, ballWinVars>>

\* The close button posts a message, as close_window does.
CloseWindow(p) ==
  /\ Running(p) /\ main[p] = "shown"
  /\ posted' = [posted EXCEPT ![p] = @ \cup {"close"}]
  /\ UnchangedSystem
  /\ UNCHANGED <<woken, main, icon, refused, quit, trayCmds, ballWinVars>>

\* Explorer restarts: its icons are gone, and it tells every window.
ExplorerRestarts(p) ==
  /\ Running(p)
  /\ icon' = [icon EXCEPT ![p] = FALSE]
  /\ posted' = [posted EXCEPT ![p] = @ \cup {"taskbar"}]
  /\ UnchangedSystem
  /\ UNCHANGED <<woken, main, refused, quit, trayCmds, ballWinVars>>

\* Mutation: the window is not brought back if it is hidden.
OnActivate_NoShow(p) == UNCHANGED <<main, icon, refused>>

OnActivate(p) ==
  /\ ShowMainWindow(p)
  /\ UNCHANGED <<icon, refused>>

OnTaskbarCreated(p) ==
  /\ \E added \in BOOLEAN : AddTrayIcon(p, added)
  /\ UNCHANGED main

\* Close hides, unless the program was asked to quit; whether there is an icon to
\* bring the window back is not asked.
OnClose(p) ==
  /\ UNCHANGED refused
  /\ IF quit[p]
     THEN main' = [main EXCEPT ![p] = "none"] /\ icon' = [icon EXCEPT ![p] = FALSE]
     ELSE main' = [main EXCEPT ![p] = "hidden"] /\ UNCHANGED icon

\* GPUI ends the program with its last window.
HandleMessage(p, m) ==
  /\ Running(p) /\ m \in posted[p]
  /\ IF m = "close" /\ quit[p] /\ balls[p] = 0 /\ opening[p] = 0
     THEN Gone(p)
     ELSE /\ posted' = [posted EXCEPT ![p] = @ \ {m}]
          /\ \/ m = "activate" /\ OnActivate(p)
             \/ m = "taskbar" /\ OnTaskbarCreated(p)
             \/ m = "close" /\ OnClose(p)
          /\ UnchangedSystem
          /\ UNCHANGED <<woken, quit, trayCmds, ballWinVars>>

\* The tray menu's commands, and the ball's refresh icon.
SendTrayCommand(p, c) ==
  /\ Len(trayCmds[p]) < MaxPending
  /\ trayCmds' = [trayCmds EXCEPT ![p] = Append(@, c)]

MenuFloating(p) ==
  /\ Running(p) /\ icon[p]
  /\ SendTrayCommand(p, "floating")
  /\ UnchangedSystem
  /\ UNCHANGED <<windowVars, ballWinVars>>

BallRefresh(p) ==
  /\ Running(p) /\ BallShown(p)
  /\ SendTrayCommand(p, "refresh")
  /\ UnchangedSystem
  /\ UNCHANGED <<windowVars, ballWinVars>>

QuitApp(p) ==
  /\ Running(p) /\ icon[p]
  /\ quit' = [quit EXCEPT ![p] = TRUE]
  /\ icon' = [icon EXCEPT ![p] = FALSE]
  /\ SendTrayCommand(p, "quit")
  /\ UnchangedSystem
  /\ UNCHANGED <<woken, posted, main, refused, ballWinVars>>

-----------------------------------------------------------------------------
\* The floating window.

\* Mutation: nothing remembers that a creation is in flight.
EnsureFloatingWindow_NoGuard(p) ==
  IF hwnd[p]
  THEN /\ visible' = [visible EXCEPT ![p] = ~@]
       /\ saved' = ~visible[p]
       /\ UNCHANGED <<opening, balls, hwnd>>
  ELSE /\ opening' = [opening EXCEPT ![p] = @ + 1]
       /\ UNCHANGED <<balls, hwnd, visible, saved>>

\* A live window is shown or hidden; otherwise one is created, unless a creation
\* is in flight.
EnsureFloatingWindow(p) ==
  IF hwnd[p]
  THEN /\ visible' = [visible EXCEPT ![p] = ~@]
       /\ saved' = ~visible[p]
       /\ UNCHANGED <<opening, balls, hwnd>>
  ELSE /\ opening' = [opening EXCEPT ![p] = IF @ = 0 THEN 1 ELSE @]
       /\ UNCHANGED <<balls, hwnd, visible, saved>>

\* The creation's callback registers the window; then the call returns.
FloatingOpened(p) ==
  /\ opening[p] > 0
  /\ opening' = [opening EXCEPT ![p] = @ - 1]
  /\ balls' = [balls EXCEPT ![p] = @ + 1]
  /\ hwnd' = [hwnd EXCEPT ![p] = TRUE]
  /\ visible' = [visible EXCEPT ![p] = TRUE]
  /\ saved' = TRUE
  /\ UnchangedSystem
  /\ UNCHANGED <<windowVars, trayCmds>>

FloatingFails(p) ==
  /\ opening[p] > 0
  /\ opening' = [opening EXCEPT ![p] = @ - 1]
  /\ UnchangedSystem
  /\ UNCHANGED <<windowVars, trayCmds, balls, hwnd, visible, saved>>

\* The system destroys the ball's window; the flag stays.
FloatingDestroyed(p) ==
  /\ hwnd[p]
  /\ balls' = [balls EXCEPT ![p] = @ - 1]
  /\ hwnd' = [hwnd EXCEPT ![p] = FALSE]
  /\ UnchangedSystem
  /\ UNCHANGED <<windowVars, trayCmds, opening, visible, saved>>

\* The loop over the tray's commands.
HandleTrayCommand(p) ==
  /\ phase[p] = "running" /\ trayCmds[p] # <<>>
  /\ IF Head(trayCmds[p]) = "quit" THEN Gone(p)
     ELSE /\ trayCmds' = [trayCmds EXCEPT ![p] = Tail(@)]
          /\ IF Head(trayCmds[p]) = "floating" THEN EnsureFloatingWindow(p)
                                               ELSE UNCHANGED ballWinVars
          /\ UnchangedSystem
          /\ UNCHANGED windowVars

-----------------------------------------------------------------------------
ShellNext == \E p \in Procs :
  \/ AcquireSingleInstance(p)
  \/ \E ok \in BOOLEAN : CreateActivateEvent(p, ok)
  \/ SignalEvent(p)
  \/ Woken(p)
  \/ PostActivate(p)
  \/ OpenMainWindow(p)
  \/ Crash(p)
  \/ ClickShow(p)
  \/ ToggleMainWindow(p)
  \/ CloseWindow(p)
  \/ ExplorerRestarts(p)
  \/ MenuFloating(p)
  \/ BallRefresh(p)
  \/ QuitApp(p)
  \/ \E m \in Messages : HandleMessage(p, m)
  \/ HandleTrayCommand(p)
  \/ FloatingOpened(p)
  \/ FloatingFails(p)
  \/ FloatingDestroyed(p)

\* The threads, the message loop and the command loop of a copy keep running, and
\* the calls a start makes return.  Nobody has to launch, click or quit.
ShellFairness == \A p \in Procs :
  /\ WF_shellVars(\E ok \in BOOLEAN : CreateActivateEvent(p, ok))
  /\ WF_shellVars(OpenMainWindow(p))
  /\ WF_shellVars(Woken(p))
  /\ WF_shellVars(PostActivate(p))
  /\ WF_shellVars(HandleMessage(p, "activate"))
  /\ WF_shellVars(HandleTrayCommand(p))

ShellSpec == ShellInit /\ [][ShellNext]_shellVars /\ ShellFairness

-----------------------------------------------------------------------------
ShellTypeOK ==
  /\ mutex \in Procs \cup {NoProc}
  /\ event \in {"none", "clear", "set"}
  /\ phase \in [Procs -> {"off", "guarded", "starting", "running", "handing"}]
  /\ tries \in [Procs -> 0 .. Retries]
  /\ {owns, woken, icon, refused, quit, hwnd, visible} \subseteq [Procs -> BOOLEAN]
  /\ posted \in [Procs -> SUBSET Messages]
  /\ main \in [Procs -> {"none", "shown", "hidden"}]
  /\ trayCmds \in [Procs -> Seq(Commands)] /\ \A p \in Procs : Len(trayCmds[p]) <= MaxPending
  /\ {opening, balls} \subseteq [Procs -> Nat]
  /\ saved \in BOOLEAN

\* The copy that holds the guard is the only one that listens to the event, so a
\* later launch never activates a copy that is not the one running.
EventIsTheHolders ==
  \A p \in Procs : owns[p] \/ woken[p] => mutex = p /\ event # "none"

\* However often the ball is toggled while it is being created or after it was
\* destroyed, a copy has one ball window, and the handle names it.
OneBall ==
  \A p \in Procs : balls[p] + opening[p] <= 1 /\ (hwnd[p] <=> balls[p] = 1)

\* A copy that goes on running can be reached: its window is there, or can be
\* brought back from the icon or the ball; or it is about to end.  A copy whose
\* icon the shell refused is excepted: when its window is closed and it has no
\* ball, only the signal of another launch brings it back (SignalIsAnswered).
NoUnreachableCopy ==
  \A p \in Procs : phase[p] = "running" =>
    \/ \E i \in DOMAIN trayCmds[p] : trayCmds[p][i] = "quit"
    \/ main[p] = "shown"
    \/ main[p] = "hidden" /\ (icon[p] \/ refused[p] \/ "taskbar" \in posted[p] \/ BallShown(p))

ShellInv == ShellTypeOK /\ EventIsTheHolders /\ OneBall /\ NoUnreachableCopy

\* A launch that has signalled the running copy is answered by its window, unless
\* that copy ends first.
SignalIsAnswered ==
  event = "set" ~> (mutex = NoProc \/ \E p \in Procs : mutex = p /\ main[p] = "shown")

\* Quitting ends the copy, its ball included.
QuitEnds == \A p \in Procs : quit[p] ~> phase[p] = "off"

\* Both: neither a second launch nor a quit goes unheard.
ShellAnswers == SignalIsAnswered /\ QuitEnds
=============================================================================
