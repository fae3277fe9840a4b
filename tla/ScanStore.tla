------------------------------ MODULE ScanStore ------------------------------
(***************************************************************************)
(* The scan pipeline of one provider: collector/scanner.rs `scan_one` over *)
(* the incremental file walk of providers/source.rs, writing through the   *)
(* repositories of storage/.                                               *)
(*                                                                         *)
(* The provider's JSONL tree is written by the AI tool while any number of *)
(* TokenMonitor processes (desktop, TUI) scan it into one SQLite file.     *)
(* Inside a process the Collector's mutex runs one `scan_one` at a time,   *)
(* so a process is one sequential scanner; processes interleave between    *)
(* any two statements, and each may die between any two statements.        *)
(*                                                                         *)
(* Data abstraction.  A file is its stat: mtime in seconds and size in     *)
(* bytes.  A usage line is LineBytes bytes long, so a size also says how   *)
(* many complete lines the file holds and whether the last one is torn (a  *)
(* torn line is no JSON object and gives no record).  A record is its      *)
(* dedup fingerprint "rel:line_idx", the pair <<path, line>>.              *)
(***************************************************************************)
EXTENDS Naturals, FiniteSets, FiniteSetsExt

CONSTANTS
    Path,           \* relative paths (root label included) of the JSONL files
    Process,        \* the processes that scan into the shared database
    Project,        \* project names the records carry
    ProjectOf,      \* the project of the records of a file
    Incremental,    \* does the adapter report file states (ScanOutput.file_states)?
    MaxFileSize,    \* ProviderConfig.max_file_size
    InsertBatch,    \* INSERT_BATCH
    Flaky,          \* files whose read may fail (locked, unreadable)
    Deletable,      \* files the tool may remove
    NoFile,         \* stat of an absent file; a path absent from a state map
    NoFingerprint,  \* no value under scan.fingerprint.<provider>
    MaxBytes,       \* bound: size a file grows to
    MaxClock,       \* bound: seconds that pass
    MaxFaults       \* bound: process deaths and failed database calls

LineBytes == 2

Stat == [mtime : 0 .. MaxClock, size : 0 .. MaxBytes]
Snapshot == [Path -> Stat \cup {NoFile}]
Nothing == [p \in Path |-> NoFile]

\* A record's dedup fingerprint, and the records a file of n bytes holds.
Record == Path \X (1 .. MaxBytes)
Lines(n) == n \div LineBytes
RecordsIn(p, n) == {<<p, i>> : i \in 1 .. Lines(n)}

\* A file the walks count: present and not above max_file_size.
Visible(st) == st # NoFile /\ st.size <= MaxFileSize

\* "<files>:<newest mtime>:<total bytes>" over the visible files.
Fingerprint(f) ==
    LET seenFiles == {p \in Path : Visible(f[p])}
    IN  [files  |-> Cardinality(seenFiles),
         newest |-> Max({0} \cup {f[p].mtime : p \in seenFiles}),
         bytes  |-> MapThenSumSet(LAMBDA p : f[p].size, seenFiles)]

Fingerprints == {Fingerprint(f) : f \in Snapshot}

\* g is f some appends and file creations later.
GrownTo(f, g) ==
    \A p \in Path : f[p] # NoFile => g[p] # NoFile /\ f[p].size <= g[p].size

ASSUME ConstantsAreTyped ==
    /\ Path # {} /\ IsFiniteSet(Path) /\ IsFiniteSet(Process)
    /\ ProjectOf \in [Path -> Project]
    /\ Incremental \in BOOLEAN
    /\ Flaky \subseteq Path /\ Deletable \subseteq Path
    /\ MaxFileSize \in Nat /\ MaxBytes \in Nat /\ MaxClock \in Nat /\ MaxFaults \in Nat
    /\ InsertBatch \in Nat \ {0}
    /\ NoFile \notin Stat /\ NoFingerprint \notin Fingerprints

VARIABLES
    tree, clock,                       \* the tool's files, the time of the last write
    rows, projects, storedFp, storedStates,           \* the database
    pc, seen, todo, known, fresh, cur, batch, touched, flushErr, \* the processes
    faults

fileVars == <<tree, clock>>
dbVars   == <<rows, projects, storedFp, storedStates>>
walkVars == <<seen, todo, known, fresh>>
readVars == <<cur, batch, touched, flushErr>>
vars == <<fileVars, dbVars, pc, walkVars, readVars, faults>>

Phase == {"idle", "stat", "load", "walk", "open", "read", "insert",
          "projects", "fingerprint"}

\* The file under the reader: the stat taken before the parse, the size
\* found at its end of file, and the number of lines handled.
NoCur == [path |-> CHOOSE p \in Path : TRUE, stat |-> NoFile, upto |-> 0, line |-> 0]

TypeOK ==
    /\ tree \in Snapshot /\ clock \in 0 .. MaxClock
    /\ rows \subseteq Record /\ projects \subseteq Project
    /\ storedFp \in {NoFingerprint} \cup Fingerprints
    /\ storedStates \in Snapshot
    /\ pc \in [Process -> Phase]
    /\ seen \in [Process -> Snapshot] /\ todo \in [Process -> SUBSET Path]
    /\ known \in [Process -> Snapshot] /\ fresh \in [Process -> Snapshot]
    /\ cur \in [Process -> [path : Path, stat : Stat \cup {NoFile},
                            upto : 0 .. MaxBytes, line : 0 .. MaxBytes]]
    /\ batch \in [Process -> SUBSET Record] /\ touched \in [Process -> SUBSET Project]
    /\ flushErr \in [Process -> BOOLEAN]
    /\ faults \in 0 .. MaxFaults

Init ==
    /\ tree = Nothing /\ clock = 0
    /\ rows = {} /\ projects = {} /\ storedFp = NoFingerprint /\ storedStates = Nothing
    /\ pc = [s \in Process |-> "idle"]
    /\ seen = [s \in Process |-> Nothing] /\ todo = [s \in Process |-> {}]
    /\ known = [s \in Process |-> Nothing] /\ fresh = [s \in Process |-> Nothing]
    /\ cur = [s \in Process |-> NoCur]
    /\ batch = [s \in Process |-> {}] /\ touched = [s \in Process |-> {}]
    /\ flushErr = [s \in Process |-> FALSE]
    /\ faults = 0

-----------------------------------------------------------------------------
(***************************************************************************)
(* The environment: the AI tool appends to its files and removes old ones. *)
(***************************************************************************)
Write(p) ==
    /\ clock' \in clock .. MaxClock
    /\ \/ tree[p] = NoFile /\ tree' = [tree EXCEPT ![p] = [mtime |-> clock', size |-> 0]]
       \/ /\ tree[p] # NoFile /\ tree[p].size < MaxBytes
          /\ tree' = [tree EXCEPT ![p] = [mtime |-> clock', size |-> tree[p].size + 1]]
    /\ UNCHANGED <<dbVars, pc, walkVars, readVars, faults>>

Remove(p) ==
    /\ p \in Deletable /\ tree[p] # NoFile
    /\ tree' = [tree EXCEPT ![p] = NoFile]
    /\ UNCHANGED <<clock, dbVars, pc, walkVars, readVars, faults>>

-----------------------------------------------------------------------------
(***************************************************************************)
(* scan_one, one action per statement that touches files or the database.  *)
(***************************************************************************)
\* scan_one returns, with Ok or with Err: its locals are gone.
Return(s) ==
    /\ pc' = [pc EXCEPT ![s] = "idle"]
    /\ seen' = [seen EXCEPT ![s] = Nothing] /\ todo' = [todo EXCEPT ![s] = {}]
    /\ known' = [known EXCEPT ![s] = Nothing] /\ fresh' = [fresh EXCEPT ![s] = Nothing]
    /\ cur' = [cur EXCEPT ![s] = NoCur]
    /\ batch' = [batch EXCEPT ![s] = {}] /\ touched' = [touched EXCEPT ![s] = {}]
    /\ flushErr' = [flushErr EXCEPT ![s] = FALSE]

Begin(s) ==
    /\ pc[s] = "idle"
    /\ pc' = [pc EXCEPT ![s] = "stat"] /\ todo' = [todo EXCEPT ![s] = Path]
    /\ UNCHANGED <<fileVars, dbVars, seen, known, fresh, readVars, faults>>

\* roots_fingerprint stats the files one after the other.
StatFile(s, p) ==
    /\ pc[s] = "stat" /\ p \in todo[s]
    /\ seen' = [seen EXCEPT ![s][p] = tree[p]]
    /\ todo' = [todo EXCEPT ![s] = @ \ {p}]
    /\ UNCHANGED <<fileVars, dbVars, pc, known, fresh, readVars, faults>>

\* The fingerprint is the stored one: the scan is skipped.
SkipUnchanged(s) ==
    /\ pc[s] = "stat" /\ todo[s] = {}
    /\ storedFp = Fingerprint(seen[s])
    /\ Return(s)
    /\ UNCHANGED <<fileVars, dbVars, faults>>

FingerprintChanged(s) ==
    /\ pc[s] = "stat" /\ todo[s] = {}
    /\ storedFp # Fingerprint(seen[s])
    /\ pc' = [pc EXCEPT ![s] = "load"]
    /\ UNCHANGED <<fileVars, dbVars, walkVars, readVars, faults>>

\* The stored file states, or none for an adapter that scans in full.
LoadStates(s) ==
    /\ pc[s] = "load"
    /\ known' = [known EXCEPT ![s] = IF Incremental THEN storedStates ELSE Nothing]
    /\ pc' = [pc EXCEPT ![s] = "walk"] /\ todo' = [todo EXCEPT ![s] = Path]
    /\ UNCHANGED <<fileVars, dbVars, seen, fresh, readVars, faults>>

\* The walk reaches p.  Absent and oversized files are passed over; a file
\* whose stat is the known one stays known unread; any other is parsed.
WalkFile(s, p) ==
    /\ pc[s] = "walk" /\ p \in todo[s]
    /\ todo' = [todo EXCEPT ![s] = @ \ {p}]
    /\ \/ ~ Visible(tree[p]) /\ UNCHANGED <<pc, fresh, cur>>
       \/ /\ Visible(tree[p]) /\ known[s][p] = tree[p]
          /\ fresh' = [fresh EXCEPT ![s][p] = tree[p]]
          /\ UNCHANGED <<pc, cur>>
       \/ /\ Visible(tree[p]) /\ known[s][p] # tree[p]
          /\ cur' = [cur EXCEPT ![s] = [path |-> p, stat |-> tree[p], upto |-> 0, line |-> 0]]
          /\ pc' = [pc EXCEPT ![s] = "open"]
          /\ UNCHANGED fresh
    /\ UNCHANGED <<fileVars, dbVars, seen, known, batch, touched, flushErr, faults>>

\* File::open.  What the tool appends while the file is being read is seen as
\* if the file had been opened later; module LineReader refines this.
OpenFile(s) ==
    /\ pc[s] = "open" /\ tree[cur[s].path] # NoFile
    /\ cur' = [cur EXCEPT ![s].upto = tree[cur[s].path].size]
    /\ pc' = [pc EXCEPT ![s] = "read"]
    /\ UNCHANGED <<fileVars, dbVars, walkVars, batch, touched, flushErr, faults>>

\* Mutation: the dedup fingerprint is the path alone, without the line index.
Emit_PathOnly(s) ==
    /\ pc[s] = "read" /\ cur[s].line < Lines(cur[s].upto)
    /\ cur' = [cur EXCEPT ![s].line = @ + 1]
    /\ touched' = [touched EXCEPT ![s] = @ \cup {ProjectOf[cur[s].path]}]
    /\ batch' = [batch EXCEPT ![s] = @ \cup {cur[s].path}]
    /\ UNCHANGED <<fileVars, dbVars, pc, walkVars, flushErr, faults>>

\* emit: the record joins the batch, a full batch is one INSERT OR IGNORE
\* transaction; after a failed one the later batches are dropped.
Emit(s) ==
    LET r == <<cur[s].path, cur[s].line + 1>>
        filled == batch[s] \cup {r}
    IN  /\ pc[s] = "read" /\ cur[s].line < Lines(cur[s].upto)
        /\ cur' = [cur EXCEPT ![s].line = @ + 1]
        /\ touched' = [touched EXCEPT ![s] = @ \cup {ProjectOf[cur[s].path]}]
        /\ \/ /\ Cardinality(filled) < InsertBatch
              /\ batch' = [batch EXCEPT ![s] = filled]
              /\ UNCHANGED <<rows, flushErr, faults>>
           \/ /\ Cardinality(filled) >= InsertBatch
              /\ batch' = [batch EXCEPT ![s] = {}]
              /\ \/ ~ flushErr[s] /\ rows' = rows \cup filled /\ UNCHANGED <<flushErr, faults>>
                 \/ /\ ~ flushErr[s] /\ faults < MaxFaults /\ faults' = faults + 1
                    /\ flushErr' = [flushErr EXCEPT ![s] = TRUE]
                    /\ UNCHANGED rows
                 \/ flushErr[s] /\ UNCHANGED <<rows, flushErr, faults>>
        /\ UNCHANGED <<fileVars, projects, storedFp, storedStates, pc, walkVars>>

\* Mutation: the stat recorded is taken after the parse.
EndOfFile_StatAfter(s) ==
    /\ pc[s] = "read" /\ cur[s].line >= Lines(cur[s].upto)
    /\ fresh' = [fresh EXCEPT ![s][cur[s].path] = tree[cur[s].path]]
    /\ pc' = [pc EXCEPT ![s] = "walk"] /\ cur' = [cur EXCEPT ![s] = NoCur]
    /\ UNCHANGED <<fileVars, dbVars, seen, todo, known, batch, touched, flushErr, faults>>

\* parse_file returns Ok: the file becomes known with the stat taken before.
EndOfFile(s) ==
    /\ pc[s] = "read" /\ cur[s].line >= Lines(cur[s].upto)
    /\ fresh' = [fresh EXCEPT ![s][cur[s].path] = cur[s].stat]
    /\ pc' = [pc EXCEPT ![s] = "walk"] /\ cur' = [cur EXCEPT ![s] = NoCur]
    /\ UNCHANGED <<fileVars, dbVars, seen, todo, known, batch, touched, flushErr, faults>>

\* Mutation: a file that could not be read is recorded as known all the same.
ReadFails_Recorded(s) ==
    /\ pc[s] \in {"open", "read"} /\ cur[s].path \in Flaky
    /\ fresh' = [fresh EXCEPT ![s][cur[s].path] = cur[s].stat]
    /\ pc' = [pc EXCEPT ![s] = "walk"] /\ cur' = [cur EXCEPT ![s] = NoCur]
    /\ UNCHANGED <<fileVars, dbVars, seen, todo, known, batch, touched, flushErr, faults>>

\* parse_file returns Err, on opening or later: the file stays out of the map.
ReadFails(s) ==
    /\ \/ pc[s] = "open" /\ (tree[cur[s].path] = NoFile \/ cur[s].path \in Flaky)
       \/ pc[s] = "read" /\ cur[s].path \in Flaky
    /\ pc' = [pc EXCEPT ![s] = "walk"] /\ cur' = [cur EXCEPT ![s] = NoCur]
    /\ UNCHANGED <<fileVars, dbVars, walkVars, batch, touched, flushErr, faults>>

\* Mutation: the last, partial batch is never inserted.
EndWalk_NoLastInsert(s) ==
    /\ pc[s] = "walk" /\ todo[s] = {}
    /\ \/ flushErr[s] /\ Return(s)
       \/ /\ ~ flushErr[s] /\ pc' = [pc EXCEPT ![s] = "projects"]
          /\ UNCHANGED <<walkVars, readVars>>
    /\ UNCHANGED <<fileVars, dbVars, faults>>

\* Mutation: a failed flush is forgotten.
EndWalk_FlushErrIgnored(s) ==
    /\ pc[s] = "walk" /\ todo[s] = {}
    /\ pc' = [pc EXCEPT ![s] = "insert"]
    /\ UNCHANGED <<fileVars, dbVars, walkVars, readVars, faults>>

\* The walk is over: a failed flush makes scan_one fail here.
EndWalk(s) ==
    /\ pc[s] = "walk" /\ todo[s] = {}
    /\ \/ flushErr[s] /\ Return(s)
       \/ /\ ~ flushErr[s] /\ pc' = [pc EXCEPT ![s] = "insert"]
          /\ UNCHANGED <<walkVars, readVars>>
    /\ UNCHANGED <<fileVars, dbVars, faults>>

InsertRest(s) ==
    /\ pc[s] = "insert"
    /\ rows' = rows \cup batch[s]
    /\ batch' = [batch EXCEPT ![s] = {}]
    /\ pc' = [pc EXCEPT ![s] = "projects"]
    /\ UNCHANGED <<fileVars, projects, storedFp, storedStates, walkVars, cur, touched,
                   flushErr, faults>>

UpsertProject(s) ==
    /\ pc[s] = "projects"
    /\ \E j \in touched[s] :
         /\ projects' = projects \cup {j}
         /\ touched' = [touched EXCEPT ![s] = @ \ {j}]
    /\ UNCHANGED <<fileVars, rows, storedFp, storedStates, pc, walkVars, cur, batch,
                   flushErr, faults>>

SaveStates(s) ==
    /\ pc[s] = "projects" /\ touched[s] = {}
    /\ storedStates' = IF Incremental THEN fresh[s] ELSE storedStates
    /\ pc' = [pc EXCEPT ![s] = "fingerprint"]
    /\ UNCHANGED <<fileVars, rows, projects, storedFp, walkVars, readVars, faults>>

\* Mutation: the fingerprint stored is one computed at the end of the scan.
SaveFingerprint_AtEnd(s) ==
    /\ pc[s] = "fingerprint"
    /\ storedFp' = Fingerprint(tree)
    /\ Return(s)
    /\ UNCHANGED <<fileVars, rows, projects, storedStates, faults>>

SaveFingerprint(s) ==
    /\ pc[s] = "fingerprint"
    /\ storedFp' = Fingerprint(seen[s])
    /\ Return(s)
    /\ UNCHANGED <<fileVars, rows, projects, storedStates, faults>>

\* The process dies, or a statement outside a flush returns Err (SQLITE_BUSY
\* past its timeout, a full disk): scan_one ends where it is.
Abort(s) ==
    /\ pc[s] # "idle" /\ faults < MaxFaults /\ faults' = faults + 1
    /\ Return(s)
    /\ UNCHANGED <<fileVars, dbVars>>

-----------------------------------------------------------------------------
Scan(s) ==
    \/ Begin(s) \/ SkipUnchanged(s) \/ FingerprintChanged(s) \/ LoadStates(s)
    \/ \E p \in Path : StatFile(s, p) \/ WalkFile(s, p)
    \/ OpenFile(s) \/ Emit(s) \/ EndOfFile(s) \/ ReadFails(s) \/ EndWalk(s)
    \/ InsertRest(s) \/ UpsertProject(s) \/ SaveStates(s) \/ SaveFingerprint(s)

Next ==
    \/ \E p \in Path : Write(p) \/ Remove(p)
    \/ \E s \in Process : Scan(s) \/ Abort(s)

Spec == Init /\ [][Next]_vars

\* The scheduler starts a scan again and again and a started scan goes on.
FairSpec == Spec /\ \A s \in Process : WF_vars(Scan(s))

-----------------------------------------------------------------------------
\* The records of a file as a stat shows it, and where they belong, are stored.
HeldAt(p, st) ==
    /\ RecordsIn(p, st.size) \subseteq rows
    /\ RecordsIn(p, st.size) # {} => ProjectOf[p] \in projects

\* "Never misses data", per file (scanner.rs:75-77 and 152-154): a file the
\* stored state map lets the next scan skip has every record it held at that
\* stat in the database, and its project, whatever crashed and whoever else
\* was scanning.
KnownFilesAreHeld ==
    \A p \in Path \ Deletable : storedStates[p] # NoFile => HeldAt(p, storedStates[p])

\* The change detector (scanner.rs:51-55): while the tree shows the stored
\* fingerprint every scan is skipped, so the database must already hold the
\* records of every file whose reads do not fail.
QuietTreeIsHeld ==
    storedFp = Fingerprint(tree) =>
        \A p \in Path \ Flaky : tree[p] # NoFile => HeldAt(p, tree[p])

\* Without the exception for failed reads: the claim of scanner.rs:51-53.
UnchangedTreeIsHeld ==
    storedFp = Fingerprint(tree) =>
        \A p \in Path : tree[p] # NoFile => HeldAt(p, tree[p])

(***************************************************************************)
(* Why they hold: what each process in the middle of scan_one has secured. *)
(***************************************************************************)
\* As HeldAt, counting what process s has in its batch and its project set.
GatheredAt(s, p, st) ==
    /\ RecordsIn(p, st.size) \subseteq rows \cup batch[s]
    /\ RecordsIn(p, st.size) # {} => ProjectOf[p] \in projects \cup touched[s]

\* The file being read has not shrunk since its stat, and the lines handled
\* so far are gathered.
ReaderInv(s) ==
    LET p == cur[s].path  st == cur[s].stat
    IN  /\ pc[s] \in {"open", "read"} =>
             /\ st # NoFile /\ (pc[s] = "open" => cur[s].line = 0)
             /\ p \notin Deletable => tree[p] # NoFile /\ st.size <= tree[p].size
        /\ pc[s] = "read" =>
             /\ p \notin Deletable => st.size <= cur[s].upto
             /\ ~ flushErr[s] =>
                  /\ {<<p, i>> : i \in 1 .. cur[s].line} \subseteq rows \cup batch[s]
                  /\ cur[s].line > 0 => ProjectOf[p] \in projects \cup touched[s]

\* Known files are held; fresh ones are gathered unless a flush failed; past
\* the last insert the batch is empty, past the projects nothing is touched.
ProcessInv(s) ==
    /\ \A p \in Path \ Deletable :
         /\ known[s][p] # NoFile => HeldAt(p, known[s][p])
         /\ fresh[s][p] # NoFile /\ ~ flushErr[s] => GatheredAt(s, p, fresh[s][p])
    /\ pc[s] \in {"insert", "projects", "fingerprint"} => ~ flushErr[s]
    /\ pc[s] \in {"projects", "fingerprint"} => batch[s] = {}
    /\ pc[s] = "fingerprint" => touched[s] = {}

KnownInv ==
    /\ KnownFilesAreHeld
    /\ \A s \in Process : ReaderInv(s) /\ ProcessInv(s)

\* Every readable file the fingerprint walk saw is still to be walked, being
\* read, or fresh, and not at a smaller size than the fingerprint counted.
CoverInv(s) ==
    /\ GrownTo(seen[s], tree)
    /\ pc[s] \in {"walk", "open", "read", "insert", "projects", "fingerprint"} =>
         \A p \in Path \ Flaky : seen[s][p] # NoFile =>
            \/ p \in todo[s]
            \/ fresh[s][p] # NoFile /\ seen[s][p].size <= fresh[s][p].size
            \/ pc[s] \in {"open", "read"} /\ cur[s].path = p
    /\ pc[s] \in {"open", "read"} /\ seen[s][cur[s].path] # NoFile =>
         seen[s][cur[s].path].size <= cur[s].stat.size
    /\ pc[s] \in {"insert", "projects", "fingerprint"} => todo[s] = {}

\* The stored fingerprint is that of an earlier tree whose readable files are held.
StoredInv ==
    storedFp # NoFingerprint =>
        \E f \in Snapshot :
            /\ storedFp = Fingerprint(f) /\ GrownTo(f, tree)
            /\ \A p \in Path \ Flaky : f[p] # NoFile => HeldAt(p, f[p])

QuietInv == StoredInv /\ \A s \in Process : CoverInv(s)

\* The files only grow and stay below the limit of ProviderConfig.
AppendOnly == Deletable = {} /\ MaxBytes <= MaxFileSize

\* The inductive invariant behind KnownFilesAreHeld and, for files that only
\* grow, behind QuietTreeIsHeld: at every statement of every scan, with other
\* processes between any two statements, what the scan will later record as
\* known or fingerprinted is in the database or still in its hands.
ScanInv == TypeOK /\ KnownInv /\ (AppendOnly => QuietInv)

-----------------------------------------------------------------------------
\* The abstract view: usage on disk, usage stored, what the state map lets a
\* scan pass over, and whether the stored fingerprint is the tree's.
RecordsOf(f) == UNION {RecordsIn(p, f[p].size) : p \in {q \in Path : f[q] # NoFile}}

Ledger == INSTANCE UsageLedger WITH
    used <- RecordsOf(tree), ledger <- rows, checkpoint <- RecordsOf(storedStates),
    settled <- (storedFp = Fingerprint(tree))

\* For files that only grow and can be read, scan_one implements the ledger:
\* no step of a scan, a crash or another process loses a row, enters one the
\* tool did not write, vouches for one that is missing, or calls a tree
\* settled that is not stored in full.
ImplementsLedger == Ledger!Spec

\* Once the tool has stopped writing, the files it wrote are all accounted for.
EverythingIsHeld == \A p \in Path : tree[p] # NoFile => HeldAt(p, tree[p])
EventuallyHeld == <>[]EverythingIsHeld

=============================================================================
