----------------------------- MODULE WindowSize -----------------------------
(***************************************************************************)
(* The memory of the main window's size (app/window_state.rs): the window  *)
(* feeds its size changes to a writer thread, which waits for them to      *)
(* settle and stores the last one; the next launch opens with it.          *)
(*                                                                         *)
(* One dimension stands for both, in whole pixels; the size None is no     *)
(* size.  Where the writer waits for the database, behind a scan, it just  *)
(* takes longer.                                                           *)
(***************************************************************************)
EXTENDS Integers, Sequences

CONSTANTS
  Sizes,           \* what the window may report, a minimized one included
  MinSize, DefaultSize,
  Displays,        \* sizes of the display a launch may find
  MaxUnread,       \* bound: size changes the writer has not received
  NoSize

ASSUME SizeAssumption ==
  /\ Sizes \subseteq Nat /\ Displays \subseteq Nat /\ MaxUnread \in Nat
  /\ MinSize \in Nat \ {0} /\ DefaultSize \in Nat /\ MinSize <= DefaultSize
  /\ NoSize \notin Nat

VARIABLES
  running,
  size,       \* what the window's bounds are
  last,       \* SizeWatcher.last
  unread,     \* sizes sent and not yet received
  newest,     \* what the writer has received and not yet returned from settled
  writing,    \* what it is storing
  stored,     \* the settings row
  unsaved     \* history: the last attempt to store failed
sizeVars == <<running, size, last, unread, newest, writing, stored, unsaved>>

Usable(s) == s # NoSize /\ s >= MinSize

Clamp(s, max) ==
  LET hi == IF max < MinSize THEN MinSize ELSE max
  IN  IF s < MinSize THEN MinSize ELSE IF s > hi THEN hi ELSE s

\* What a launch opens the window with, on a display of size d.
RestoredSize(d) == Clamp(IF Usable(stored) THEN stored ELSE DefaultSize, d)

\* The row may be absent, or hold what somebody typed.
SizeInit ==
  /\ running = FALSE /\ size = DefaultSize
  /\ last = NoSize /\ unread = <<>> /\ newest = NoSize /\ writing = NoSize
  /\ stored \in {NoSize, MinSize - 1} \cup Sizes
  /\ unsaved = FALSE

StartWindow(d) ==
  /\ ~running
  /\ running' = TRUE
  /\ size' = RestoredSize(d)
  /\ last' = NoSize
  /\ UNCHANGED <<unread, newest, writing, stored, unsaved>>

\* SizeWatcher::observe, of a resize, of a move (the same size again) or of a
\* minimized window.
Observe(s) ==
  /\ running
  /\ size' = s
  /\ IF ~Usable(s) \/ s = last
     THEN UNCHANGED <<last, unread>>
     ELSE last' = s /\ Len(unread) < MaxUnread /\ unread' = Append(unread, s)
  /\ UNCHANGED <<running, newest, writing, stored, unsaved>>

\* Mutation: the first size of a burst is kept.
Receive_KeepsFirst ==
  /\ writing = NoSize /\ unread # <<>>
  /\ newest' = IF newest # NoSize THEN newest ELSE Head(unread)
  /\ unread' = Tail(unread)
  /\ UNCHANGED <<running, size, last, writing, stored, unsaved>>

\* settled: the first size, and those that follow within the delay.
Receive ==
  /\ writing = NoSize /\ unread # <<>>
  /\ newest' = Head(unread)
  /\ unread' = Tail(unread)
  /\ UNCHANGED <<running, size, last, writing, stored, unsaved>>

\* The delay passes with nothing received.
Settle ==
  /\ newest # NoSize /\ unread = <<>>
  /\ writing' = newest
  /\ newest' = NoSize
  /\ UNCHANGED <<running, size, last, unread, stored, unsaved>>

StoreSize(ok) ==
  /\ writing # NoSize
  /\ stored' = IF ok THEN writing ELSE stored
  /\ writing' = NoSize
  /\ unsaved' = ~ok
  /\ UNCHANGED <<running, size, last, unread, newest>>

\* The process ends, and the writer with it, whatever it holds.
EndProgram ==
  /\ running
  /\ running' = FALSE
  /\ unread' = <<>> /\ newest' = NoSize /\ writing' = NoSize /\ unsaved' = FALSE
  /\ UNCHANGED <<size, last, stored>>

SizeNext ==
  \/ \E d \in Displays : StartWindow(d)
  \/ \E s \in Sizes \cup {size} : Observe(s)
  \/ Receive
  \/ Settle
  \/ \E ok \in BOOLEAN : StoreSize(ok)
  \/ EndProgram

SizeSpec == SizeInit /\ [][SizeNext]_sizeVars

-----------------------------------------------------------------------------
SizeTypeOK ==
  /\ running \in BOOLEAN /\ unsaved \in BOOLEAN
  /\ size \in Nat
  /\ {last, newest, writing, stored} \subseteq Nat \cup {NoSize}
  /\ unread \in Seq(Nat) /\ Len(unread) <= MaxUnread

\* The newest size between the window and the database.
OnTheWay == IF unread # <<>> THEN unread[Len(unread)]
            ELSE IF newest # NoSize THEN newest ELSE writing

\* Whatever drags, moves and minimizing did in between, what the writer holds
\* leads to the last usable size the window had: it is the newest thing on the way
\* to the database, or has arrived there, unless storing it failed.
LastSizeArrives ==
  running /\ last # NoSize /\ OnTheWay # last => OnTheWay = NoSize /\ (stored = last \/ unsaved)

\* Nothing on the way to the database is a size the window could not open with.
OnlyUsableIsSaved ==
  /\ \A i \in DOMAIN unread : Usable(unread[i])
  /\ \A s \in {newest, writing} \ {NoSize} : Usable(s)

SizeInv == SizeTypeOK /\ LastSizeArrives /\ OnlyUsableIsSaved
=============================================================================
