------------------------------- MODULE Rebuild -------------------------------
(***************************************************************************)
(* What a program does to its database before it scans (collector/mod.rs   *)
(* Collector::open): it copies the database of the program's old name,     *)
(* costs every row again when the price table has changed, and empties     *)
(* CodeBuddy's rows when their keys have changed.  Every step commits on   *)
(* its own, two programs (the window and the terminal) may start at once,  *)
(* and either may die anywhere.                                            *)
(*                                                                         *)
(* Data abstraction.  A file written by a copy is named by the program     *)
(* that created it.  The database is the rows with their costs, and the    *)
(* settings these steps read.  Chunks of the costing hold one row.         *)
(* CodeBuddy has one source file, with one record, held under the old key  *)
(* or the new one; the third row is another provider's.                    *)
(***************************************************************************)
EXTENDS Pricing, FiniteSets

CONSTANTS
  Programs,
  Builds,      \* versions of the price table the programs may be built with
  Request,     \* of a row, its provider, model and tokens
  NoProgram

Row == {"other", "old key", "new key"}
PerBucket == [input : Nat, output : Nat, cacheRead : Nat, cacheWrite : Nat]

ASSUME RebuildAssumption ==
  /\ NoProgram \notin Programs /\ "fresh" \notin Programs \cup {NoProgram}
  /\ Builds \subseteq [Programs -> Nat \ {0}]
  /\ \A b \in Builds, p \in Programs : \A id \in DOMAIN Models[b[p]] :
       Models[b[p]][id] \in PerBucket
  /\ \A r \in Row : Request[r].tokens \in PerBucket

Codebuddy == {"old key", "new key"}
Absent == -1

VARIABLES
  platform,    \* "unix" or "windows"
  version,     \* of each program's price table
  legacy,      \* the old database is there
  at,          \* where each program is
  handle,      \* the temporary file it has open
  tmp,         \* the file named tokenmonitor.db.migrating
  named,      \* the file named tokenmonitor.db, "fresh" if no copy, or NoProgram
  whole,       \* files that hold all of the old database
  db,          \* the database
  todo,        \* rows whose cost a program has still to write
  known,       \* the file states it read when its scan began
  lastBuild,   \* the newest version launched: programs are not downgraded
  overlapped,  \* history: two copies were under way at once
  mixed,       \* history: programs of two versions ran at once
  raced        \* history: rows were emptied after another had finished rebuilding them
fileVars == <<handle, tmp, named, whole>>
rebuildVars == <<platform, version, legacy, at, fileVars, db, todo, known, lastBuild, overlapped, mixed, raced>>

Cost(v, r) == CostMicros(v, Request[r].provider, Request[r].model, Request[r].tokens)

Fresh == [cost |-> [r \in Row |-> Absent], price |-> 0, keys |-> FALSE,
          print |-> FALSE, files |-> FALSE]
Legacy == [Fresh EXCEPT !.cost = [r \in Row |-> IF r = "new key" THEN Absent ELSE 0],
                        !.print = TRUE, !.files = TRUE]

Copying == {"absent", "removed", "waiting", "writing", "copied", "failed"}
Opened == {"pricing", "costing", "keys", "emptying", "unprinting", "unfiling", "marking",
           "running", "reading", "inserted", "filed"}
Priced == Opened \ {"pricing", "costing"}
Places == {"off", "opening", "detached"} \cup Copying \cup Opened

RebuildInit ==
  /\ platform \in {"unix", "windows"} /\ legacy \in BOOLEAN /\ version \in Builds
  /\ at = [p \in Programs |-> "off"]
  /\ handle = [p \in Programs |-> NoProgram]
  /\ tmp = NoProgram /\ named = NoProgram /\ whole = {}
  /\ db = Fresh
  /\ todo = [p \in Programs |-> {}]
  /\ known = [p \in Programs |-> FALSE]
  /\ lastBuild = 1
  /\ overlapped = FALSE /\ mixed = FALSE /\ raced = FALSE

Goto(p, place) == at' = [at EXCEPT ![p] = place]

\* Windows neither removes nor moves a file that some program has open.
Held(f) == platform = "windows" /\ \E q \in Programs : handle[q] = f

-----------------------------------------------------------------------------
\* migrate_legacy_db.

Launch(p) ==
  LET copies == legacy /\ named = NoProgram IN
  /\ at[p] = "off" /\ version[p] >= lastBuild
  /\ Goto(p, IF copies THEN "absent" ELSE "opening")
  /\ lastBuild' = version[p]
  /\ overlapped' = (overlapped \/ (copies /\ \E q \in Programs : at[q] \in Copying))
  /\ mixed' = (mixed \/ \E q \in Programs : at[q] # "off" /\ version[q] # version[p])
  /\ UNCHANGED <<platform, version, legacy, fileVars, db, todo, known, raced>>

UnchangedData == UNCHANGED <<platform, version, legacy, db, todo, known, lastBuild, overlapped, mixed, raced>>

\* Before a copy, and after one that failed.
RemoveTmp(p) ==
  /\ at[p] \in {"absent", "failed"}
  /\ tmp' = IF tmp # NoProgram /\ Held(tmp) THEN tmp ELSE NoProgram
  /\ Goto(p, IF at[p] = "absent" THEN "removed" ELSE "opening")
  /\ UNCHANGED <<handle, named, whole>> /\ UnchangedData

OpenTmp(p) ==
  LET f == IF tmp = NoProgram THEN p ELSE tmp IN
  /\ at[p] = "removed"
  /\ tmp' = f
  /\ handle' = [handle EXCEPT ![p] = f]
  /\ whole' = IF tmp = NoProgram THEN whole \ {p} ELSE whole
  /\ Goto(p, "waiting")
  /\ UNCHANGED named /\ UnchangedData

\* The backup's first step waits for the file's lock.
BeginBackup(p) ==
  /\ at[p] = "waiting"
  /\ ~\E q \in Programs : at[q] = "writing" /\ handle[q] = handle[p]
  /\ whole' = whole \ {handle[p]}
  /\ Goto(p, "writing")
  /\ UNCHANGED <<handle, tmp, named>> /\ UnchangedData

\* Its last; then both databases are closed.
EndBackup(p, ok) ==
  /\ at[p] = "writing"
  /\ whole' = IF ok THEN whole \cup {handle[p]} ELSE whole
  /\ handle' = [handle EXCEPT ![p] = NoProgram]
  /\ db' = IF ok /\ named = handle[p] THEN Legacy ELSE db
  /\ Goto(p, IF ok THEN "copied" ELSE "failed")
  /\ UNCHANGED <<tmp, named, platform, version, legacy, todo, known, lastBuild, overlapped, mixed, raced>>

\* The rename takes whatever file has the name by now.  Unix replaces a database
\* that programs have open: from then on they write into a file without a name.
MoveIntoPlace(p) ==
  LET opened == {q \in Programs : at[q] \in Opened}
      moves  == tmp # NoProgram /\ ~Held(tmp) /\ ~(platform = "windows" /\ opened # {})
  IN  /\ at[p] = "copied"
      /\ IF moves
         THEN /\ named' = tmp /\ tmp' = NoProgram
              /\ db' = IF tmp \in whole THEN Legacy ELSE Fresh
              /\ at' = [q \in Programs |-> IF q = p THEN "opening"
                                           ELSE IF q \in opened THEN "detached" ELSE at[q]]
         ELSE Goto(p, "failed") /\ UNCHANGED <<named, tmp, db>>
      /\ UNCHANGED <<handle, whole, platform, version, legacy, todo, known, lastBuild, overlapped, mixed, raced>>

\* sqlite::open, which creates what is not there.
OpenDatabase(p) ==
  /\ at[p] = "opening"
  /\ ~\E q \in Programs : at[q] = "writing" /\ handle[q] = named
  /\ named' = IF named = NoProgram THEN "fresh" ELSE named
  /\ Goto(p, "pricing")
  /\ UNCHANGED <<platform, version, legacy, handle, tmp, whole, db, todo, known, lastBuild, overlapped, mixed, raced>>

-----------------------------------------------------------------------------
UnchangedFiles == UNCHANGED <<platform, version, legacy, fileVars, lastBuild, overlapped, mixed>>

Present == {r \in Row : db.cost[r] # Absent}

\* recompute_all_costs, if the stored version is not this program's: the rows are
\* read, then their costs written, then the version.
CheckPrices(p) ==
  /\ at[p] = "pricing"
  /\ IF db.price = version[p]
     THEN Goto(p, "keys") /\ UNCHANGED todo
     ELSE Goto(p, "costing") /\ todo' = [todo EXCEPT ![p] = Present]
  /\ UNCHANGED <<db, known, raced>> /\ UnchangedFiles

CostRow(p, r) ==
  /\ at[p] = "costing" /\ r \in todo[p]
  /\ db' = [db EXCEPT !.cost[r] = Cost(version[p], r)]
  /\ todo' = [todo EXCEPT ![p] = @ \ {r}]
  /\ UNCHANGED <<at, known, raced>> /\ UnchangedFiles

MarkPrices(p) ==
  /\ at[p] = "costing" /\ todo[p] = {}
  /\ db' = [db EXCEPT !.price = version[p]]
  /\ Goto(p, "keys")
  /\ UNCHANGED <<todo, known, raced>> /\ UnchangedFiles

\* Mutation: the rebuild is marked when it begins.
CheckKeys_MarksFirst(p) ==
  /\ at[p] = "keys"
  /\ Goto(p, IF db.keys THEN "running" ELSE "emptying")
  /\ db' = [db EXCEPT !.keys = TRUE]
  /\ UNCHANGED <<todo, known, raced>> /\ UnchangedFiles

\* CodeBuddy's rebuild, if it has not been done.
CheckKeys(p) ==
  /\ at[p] = "keys"
  /\ Goto(p, IF db.keys THEN "running" ELSE "emptying")
  /\ UNCHANGED <<db, todo, known, raced>> /\ UnchangedFiles

\* An id is not used again, so a costing passes over the rows that are gone.
DeleteByProvider(p) ==
  /\ at[p] = "emptying"
  /\ db' = [db EXCEPT !.cost = [r \in Row |-> IF r \in Codebuddy THEN Absent ELSE @[r]]]
  /\ todo' = [q \in Programs |-> todo[q] \ Codebuddy]
  /\ raced' = (raced \/ db.keys)
  /\ Goto(p, "unprinting")
  /\ UNCHANGED known /\ UnchangedFiles

RemoveFingerprint(p) ==
  /\ at[p] = "unprinting"
  /\ db' = [db EXCEPT !.print = FALSE]
  /\ Goto(p, "unfiling")
  /\ UNCHANGED <<todo, known, raced>> /\ UnchangedFiles

RemoveFiles(p) ==
  /\ at[p] = "unfiling"
  /\ db' = [db EXCEPT !.files = FALSE]
  /\ Goto(p, "marking")
  /\ UNCHANGED <<todo, known, raced>> /\ UnchangedFiles

MarkKeys(p) ==
  /\ at[p] = "marking"
  /\ db' = [db EXCEPT !.keys = TRUE]
  /\ Goto(p, "running")
  /\ UNCHANGED <<todo, known, raced>> /\ UnchangedFiles

-----------------------------------------------------------------------------
\* Scans: of CodeBuddy, in the steps the rebuild can fall between, and of another
\* provider.

BeginScan(p) ==
  /\ at[p] = "running" /\ ~db.print
  /\ known' = [known EXCEPT ![p] = db.files]
  /\ Goto(p, "reading")
  /\ UNCHANGED <<db, todo, raced>> /\ UnchangedFiles

Stamped(p, r) == IF db.cost[r] = Absent THEN Cost(version[p], r) ELSE db.cost[r]

InsertBatch(p) ==
  /\ at[p] = "reading"
  /\ db' = IF known[p] THEN db ELSE [db EXCEPT !.cost["new key"] = Stamped(p, "new key")]
  /\ Goto(p, "inserted")
  /\ UNCHANGED <<todo, known, raced>> /\ UnchangedFiles

SaveFiles(p) ==
  /\ at[p] = "inserted"
  /\ db' = [db EXCEPT !.files = TRUE]
  /\ Goto(p, "filed")
  /\ UNCHANGED <<todo, known, raced>> /\ UnchangedFiles

SavePrint(p) ==
  /\ at[p] = "filed"
  /\ db' = [db EXCEPT !.print = TRUE]
  /\ Goto(p, "running")
  /\ UNCHANGED <<todo, known, raced>> /\ UnchangedFiles

ScanOther(p) ==
  /\ at[p] = "running"
  /\ db' = [db EXCEPT !.cost["other"] = Stamped(p, "other")]
  /\ UNCHANGED <<at, todo, known, raced>> /\ UnchangedFiles

\* The program ends, anywhere; the system closes its files.
End(p) ==
  /\ at[p] # "off"
  /\ Goto(p, "off")
  /\ handle' = [handle EXCEPT ![p] = NoProgram]
  /\ todo' = [todo EXCEPT ![p] = {}]
  /\ known' = [known EXCEPT ![p] = FALSE]
  /\ UNCHANGED <<platform, version, legacy, tmp, named, whole, db, lastBuild, overlapped, mixed, raced>>

RebuildNext == \E p \in Programs :
  \/ Launch(p) \/ RemoveTmp(p) \/ OpenTmp(p) \/ BeginBackup(p)
  \/ \E ok \in BOOLEAN : EndBackup(p, ok)
  \/ MoveIntoPlace(p) \/ OpenDatabase(p)
  \/ CheckPrices(p) \/ (\E r \in Row : CostRow(p, r)) \/ MarkPrices(p)
  \/ CheckKeys(p) \/ DeleteByProvider(p) \/ RemoveFingerprint(p) \/ RemoveFiles(p) \/ MarkKeys(p)
  \/ BeginScan(p) \/ InsertBatch(p) \/ SaveFiles(p) \/ SavePrint(p) \/ ScanOther(p)
  \/ End(p)

RebuildSpec == RebuildInit /\ [][RebuildNext]_rebuildVars

-----------------------------------------------------------------------------
RebuildTypeOK ==
  /\ platform \in {"unix", "windows"} /\ legacy \in BOOLEAN /\ version \in Builds
  /\ at \in [Programs -> Places]
  /\ handle \in [Programs -> Programs \cup {NoProgram}]
  /\ tmp \in Programs \cup {NoProgram} /\ named \in Programs \cup {NoProgram, "fresh"}
  /\ whole \subseteq Programs
  /\ db \in [cost : [Row -> Int], price : Nat, keys : BOOLEAN, print : BOOLEAN, files : BOOLEAN]
  /\ {overlapped, mixed, raced} \subseteq BOOLEAN /\ lastBuild \in Nat \ {0}
  /\ todo \in [Programs -> SUBSET Row] /\ known \in [Programs -> BOOLEAN]

\* Whatever fails or dies during a copy, a file that has the database's name holds
\* all of the old history; only two copies at once break this, which
\* may even replace a database in use: the other properties are about the rest.
CopyIsWhole == named \in Programs /\ ~overlapped => named \in whole

\* A program that is past its check finds every row at the prices it was built
\* with, though a costing may have been cut short before, or run twice, or rows
\* came in while it ran; only a program of another version breaks this.
PricesAreCurrent ==
  ~mixed /\ ~overlapped => \A p \in Programs : at[p] \in Priced =>
    \A r \in Present : db.cost[r] = Cost(version[p], r)

\* Once CodeBuddy's rebuild is marked done there is no row left under an old key.
OldKeysAreGone == db.keys /\ ~overlapped => "old key" \notin Present

\* ... and what a scan would pass over is held: emptying is never half undone.  Only
\* a second program that empties the rows after the first is done breaks this.
RebuiltIsRead ==
  db.keys /\ ~raced /\ ~overlapped => (db.print \/ db.files => "new key" \in Present)

RebuildInv ==
  RebuildTypeOK /\ CopyIsWhole /\ PricesAreCurrent /\ OldKeysAreGone /\ RebuiltIsRead
=============================================================================
