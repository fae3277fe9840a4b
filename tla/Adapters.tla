------------------------------- MODULE Adapters -------------------------------
(***************************************************************************)
(* One adapter at work: its tool makes calls to models and records them in *)
(* its own files, in whatever order and format it does that; the scanner   *)
(* calls the adapter now and then and enters the records it emits.         *)
(*                                                                         *)
(* A scan is one step here: what happens between its effects is the        *)
(* subject of ScanStore. What is checked here is what the adapters make of *)
(* files: that a call is one row, that none is missed, and that the row    *)
(* says of the call what is true of it.                                    *)
(***************************************************************************)
EXTENDS StoreAdapters, DocumentAdapters

CONSTANTS
    Tools,    \* the tools of which one is running
    Calls,    \* bound: the calls it makes, as a sequence
    Bill,     \* the tokens each call is billed for
    MaxTurns  \* bound: changes of the environment other than calls

ASSUME ToolsAreKnown ==
    Tools \subseteq {"claude", "codex", "gemini", "antigravity", "codebuddy", "workbuddy",
                     "opencode", "qoder", "openclaw", "deepseek", "pi", "trae", "atomcode",
                     "codearts", "teleagent"}

\* A call's counters are those of UsageLine and its like: unsigned. Each call is another one.
ASSUME CallsAreBilled ==
    /\ Calls \in Seq(ToSet(Calls)) /\ MaxTurns \in Nat
    /\ \A i, j \in DOMAIN Calls : Calls[i] = Calls[j] => i = j
    /\ Bill \in [ToSet(Calls) -> [fresh : Nat, read : Nat, write : Nat,
                                  output : Nat, reasoning : Nat]]

VARIABLES
    tool,   \* which tool this is: it never changes
    homes,  \* the home directories there are
    files,  \* the files of the tool, by path
    model,  \* the model the tool is set to
    made,   \* how many calls it has made
    roots,  \* the adapter's scan roots, once it has looked for them (OnceLock)
    known,  \* the file states of the last scan
    fp,     \* what the change detector read at the last scan
    rows,   \* the usage table
    turns   \* changes of the environment so far

vars == <<tool, homes, files, model, made, roots, known, fp, rows, turns>>
toolVars == <<tool, homes, files, model, made, turns>>
adapterVars == <<roots, known, fp, rows>>

-----------------------------------------------------------------------------
(* The adapters, by tool *)

\* The scan roots the adapter of the tool finds when it looks for them.
DiscoverRoots ==
    CASE tool = "openclaw" -> OpenClawRoots(homes)
      [] tool = "antigravity" -> AntigravityRoots(homes)
      [] tool = "qoder" -> QoderRoots(homes)
      [] tool = "codearts" -> CodeArtsRoots(files)
      [] tool = "teleagent" -> TeleAgentRoots(files)
      [] tool = "trae" -> CacheDirCandidates
      [] OTHER -> homes

ScanRoots == OrElse(roots, DiscoverRoots)

\* What scan_fingerprint reads.
Basis(over) ==
    CASE tool = "claude" -> ClaudeSeen(files, over)
      [] tool = "codex" -> CodexSeen(files, over)
      [] tool = "gemini" -> GeminiSeen(files, over)
      [] tool = "antigravity" -> AntigravityBasis(files, over)
      [] tool = "codebuddy" -> CodebuddyBasis(files, over)
      [] tool = "workbuddy" -> WorkbuddyBasis(files, over)
      [] tool = "opencode" -> OpenCodeBasis(files, over)
      [] tool = "qoder" -> QoderBasis(files, over)
      [] tool = "openclaw" -> OpenClawSeen(files, over)
      [] tool = "deepseek" -> DeepSeekSeen(files, over)
      [] tool = "pi" -> PiSeen(files, over)
      [] tool = "trae" -> TraeSeen(files, over)
      [] tool = "atomcode" -> MetaFiles(files, over)
      [] tool = "codearts" -> CodeArtsBasis(files, over)
      [] tool = "teleagent" -> TeleAgentBasis(files, over)

ScanOutput(over) ==
    CASE tool = "claude" -> ClaudeScan(files, over, known)
      [] tool = "codex" -> CodexScan(files, over, known)
      [] tool = "gemini" -> GeminiScan(files, over, known)
      [] tool = "antigravity" -> AntigravityScan(files, over, known)
      [] tool = "codebuddy" -> CodebuddyScan(files, over, known)
      [] tool = "workbuddy" -> WorkbuddyScan(files, over, known)
      [] tool = "opencode" -> OpenCodeScan(files, over, known)
      [] tool = "qoder" -> QoderScan(files, over, known)
      [] tool = "openclaw" -> OpenClawScan(files, over, known)
      [] tool = "deepseek" -> DeepSeekScan(files, over, known)
      [] tool = "pi" -> PiScan(files, over, known)
      [] tool = "trae" -> TraeScan(files, over, known)
      [] tool = "atomcode" -> AtomCodeScan(files, over, known)
      [] tool = "codearts" -> CodeArtsScan(files, over, known)
      [] tool = "teleagent" -> TeleAgentScan(files, over, known)

-----------------------------------------------------------------------------
(* The tools, as far as the adapters and their tests say what they write.  *)
(* Every root has a session of the same name: what tells them apart is up  *)
(* to the adapter.                                                         *)

Session == "s1"
Untold == "s2"   \* a session without a transcript
Project == "p1"
Workspace == "w1"

Stored == tool \in {"opencode", "qoder", "codearts", "teleagent", "antigravity"}
Document(path) == tool \in {"gemini", "trae", "atomcode"} \/ IsIndex(path)

LedgerOf(root) == Path(root, NoDir, "workbuddy", "db")

\* Where the tool may record its next call.
Locations ==
    CASE tool \in {"claude", "codex", "pi", "workbuddy"} ->
           {Path(root, Project, Session, "jsonl") : root \in homes}
      [] tool = "codebuddy" ->
           {Path(root, Project, Session, "jsonl") : root \in homes}
           \cup {Path("ide", Workspace, Session, "index.json")}
      [] tool = "openclaw" ->
           {Path(root, "sessions", Session, "jsonl") : root \in OpenClawRoots(homes)}
      [] tool = "deepseek" ->
           {Path(root, Project, Session, ext) : root \in homes, ext \in {"jsonl", "jsonl.zstd"}}
      [] tool = "gemini" -> {Path(root, Project, Session, "json") : root \in homes}
      [] tool = "trae" -> {Path(root, NoDir, "cache", "json") : root \in CacheDirCandidates}
      [] tool = "atomcode" ->
           {Path(root, Project, Session, ext) : root \in homes, ext \in {"meta", "json", "index"}}
      [] tool = "opencode" ->
           {Path(root, NoDir, stem, "db") :
              root \in homes, stem \in {"opencode", "opencode-stable"}}
           \cup {Path(root, "storage/message", Calls[made + 1], "json") : root \in homes}
      [] tool = "qoder" -> {Path("home", NoDir, "local", "db")}
      [] tool = "codearts" -> {Path(root, NoDir, "opencode", "db") : root \in {"home", "appdata"}}
      [] tool = "teleagent" -> {Path(root, NoDir, "teleagent", "db") : root \in homes}
      [] tool = "antigravity" ->
           {Path(root, "conversations", Session, "db") : root \in AntigravityRoots(homes)}

Total(b) == b.fresh + b.read + b.write + b.output + b.reasoning

\* How it may record it.
Entries(path, b, e) ==
    CASE tool = "claude" -> ClaudeLines(b, e)
      [] tool = "codex" -> CodexLines(b, e)
      [] tool = "gemini" -> GeminiUsages(b, e)
      [] tool = "antigravity" -> AntigravitySteps(b, e)
      [] tool = "codebuddy" ->
           IF IsIndex(path) THEN DesktopRequests(b, e) ELSE CodebuddyLines(b, e)
      [] tool = "workbuddy" -> WorkbuddyLines(b, e)
      [] tool = "opencode" ->
           {row \in OpenCodeRows(b, e) : IsLegacyMessage(path) => row.created # None}
      [] tool = "qoder" -> QoderRows(b, e)
      [] tool = "openclaw" -> OpenClawLines(b, e)
      [] tool = "deepseek" -> DeepSeekLines(b, e)
      [] tool = "pi" -> PiLines(b, e)
      [] tool = "trae" -> TraeSessions(b, e)
      [] tool = "atomcode" -> AtomCodeTurns(path.ext, b, e)
      [] tool = "codearts" -> CodeArtsRows(b, e)
      [] tool = "teleagent" -> TeleAgentRows(b, e)

\* What a new file begins with.
Header(path) ==
    LET session == [id |-> Some(Session), cwd |-> Some(<<"work", Project>>)]
    IN  CASE tool = "codex" ->
               <<[session_id |-> None] ++ session ++ Noise("session_meta")>>
          [] tool \in {"pi", "openclaw", "deepseek"} -> <<session ++ Noise("session")>>
          [] tool = "atomcode" -> <<AtomCodeHeader(Session, Project, model)>>
          [] tool = "antigravity" ->
               <<[fields |-> <<Varint(1, 0), Bytes(1, <<Text(1, <<"work", Project>>)>>)>>]
                   ++ Noise("trajectory")>>
          [] tool \in {"claude", "codebuddy", "workbuddy"} /\ ~Document(path) -> <<Noise("user")>>
          [] OTHER -> <<>>

\* The line with which some tools say that another model is in use from here on.
ContextKind ==
    CASE tool = "codex" -> "turn_context"
      [] tool = "pi" -> "model_change"
      [] tool = "deepseek" -> "request/header"
      [] OTHER -> "none"

Context(content) ==
    LET said == Latest(content, Len(content), LAMBDA line : line.kind = ContextKind)
    IN  IF ContextKind # "none" /\ (said = None \/ said[1].model # Some(model))
        THEN <<[model |-> Some(model)] ++ Noise(ContextKind)>> ELSE <<>>
-----------------------------------------------------------------------------
(* Effects on the files *)

\* What a reader finds in a file, or would find at the start of a new one.
Content(path) ==
    IF Stored /\ Wal(path) \in DOMAIN files THEN files[Wal(path)]
    ELSE IF path \in DOMAIN files THEN files[path] ELSE Header(path)

\* A store is written through its WAL.
With(path, content) ==
    IF Stored /\ IsDb(path)
    THEN File(Wal(path), content)
         ++ (IF path \in DOMAIN files THEN files ELSE File(path, Header(path)) ++ files)
    ELSE File(path, content) ++ files

IsWhole(path) ==
    path \in DOMAIN files => ~\E i \in DOMAIN files[path] : files[path][i].kind = "torn"

\* One format of an AtomCode session is written at a time.
Writable(path) ==
    /\ IsWhole(path)
    /\ tool = "atomcode" => \A p \in DOMAIN files :
                              p.root = path.root /\ p.ext \in {"meta", "json", "index"} =>
                                  p = path

\* AtomCode notes the start of a turn in the log beside the session.
TurnStart(path, turn) ==
    LET log == [path EXCEPT !.ext = IF path.ext = "index" THEN "events" ELSE "jsonl"]
    IN  IF tool # "atomcode" \/ path.ext = "json" THEN <<>>
        ELSE File(log, Append(IF log \in DOMAIN files THEN files[log] ELSE <<>>,
                              [turn |-> turn, at |-> "own"] ++ Noise("turn_start")))

FirstModel == IF tool = "antigravity" THEN "gemini" ELSE "m1"

CallsIn(content) == UNION {content[i].calls : i \in DOMAIN content}

\* The ledger with one figure, the newest, for a session that made these calls.
Entered(ledger, calls, session) ==
    LET used == MapThenSumSet(LAMBDA c : Total(Bill[c]), calls)
        row == WorkbuddySession(used,
                 [calls |-> calls,
                  truth |-> [model |-> FirstModel, project |-> Project, session |-> session]])
        old == IF ledger \in DOMAIN files THEN files[ledger] ELSE <<>>
        new == IF \E i \in DOMAIN old : old[i].id = row.id
               THEN [i \in DOMAIN old |-> IF old[i].id = row.id THEN row ELSE old[i]]
               ELSE Append(old, row)
    IN  File(ledger, new)
-----------------------------------------------------------------------------
(* The environment *)

Init ==
    /\ tool \in Tools
    /\ homes = {"home"}
    /\ files = <<>>
    /\ model = FirstModel
    /\ made = 0 /\ turns = 0
    /\ roots = None
    /\ known = <<>>
    /\ fp = None
    /\ rows = {}

\* What is true of a call made now.
Truth == [model |-> model, project |-> Project, session |-> Session]

\* The tool makes a call and records it, or the row it will record it in.
MakeCall ==
    /\ made < Len(Calls)
    /\ LET call == Calls[made + 1]
       IN  \E path \in {p \in Locations : Writable(p)} :
           \E entry \in Entries(path, Bill[call],
                                [calls |-> {call}, id |-> call, truth |-> Truth]) :
           \E written \in {entry} \cup
                  (IF Stored THEN InFlight(entry, IF tool = "antigravity" THEN NoStats ELSE NoTokens)
                   ELSE {}) :
              files' = TurnStart(path, call)
                       ++ With(path, Content(path) \o Context(Content(path)) \o <<written>>)
    /\ made' = made + 1
    /\ UNCHANGED <<tool, homes, model, turns, adapterVars>>

\* WorkBuddy makes a call in a session that has no transcript: only the ledger tells of it,
\* in a figure that grows.
MakeUntoldCall ==
    /\ tool = "workbuddy"
    /\ made < Len(Calls)
    /\ \E root \in homes :
         LET ledger == LedgerOf(root)
             content == IF ledger \in DOMAIN files THEN files[ledger] ELSE <<>>
             earlier == UNION {row.calls : row \in {x \in ToSet(content) : x.id = Untold}}
         IN  files' = Entered(ledger, earlier \cup {Calls[made + 1]}, Untold) ++ files
    /\ made' = made + 1
    /\ UNCHANGED <<tool, homes, model, turns, adapterVars>>

\* A call in flight ends and its row gets its counters.
Finish ==
    /\ \E path \in {p \in DOMAIN files : Stored /\ IsDb(p)} :
         \E i \in DOMAIN Content(path) :
            /\ "final" \in DOMAIN Content(path)[i]
            /\ files' = With(path, [Content(path) EXCEPT ![i] = @.final])
    /\ UNCHANGED <<tool, homes, model, made, turns, adapterVars>>

\* Something else happens to the files.
Turn(newFiles) ==
    /\ turns < MaxTurns
    /\ turns' = turns + 1
    /\ files' = newFiles
    /\ UNCHANGED <<tool, made, adapterVars>>

\* The user picks another model.
SwitchModel ==
    /\ model = FirstModel
    /\ model' = "m2"
    /\ Turn(IF tool # "antigravity" THEN files
            ELSE [p \in {Path(root, NoDir, "settings", "json") : root \in AntigravityRoots(homes)}
                    |-> <<[model |-> Some("m2")] ++ Noise("settings")>>] ++ files)
    /\ UNCHANGED homes

\* The tool is first used in another home directory.
AddHome ==
    /\ homes' = homes \cup {"wsl"}
    /\ "wsl" \notin homes
    /\ Turn(files)
    /\ UNCHANGED model

\* The store gets a row that a query on it cannot read.
AddBadRow ==
    /\ Stored
    /\ \E path \in {p \in DOMAIN files : IsDb(p)} :
          Turn(With(path, Append(Content(path), Noise("bad"))))
    /\ UNCHANGED <<homes, model>>

\* SQLite moves the WAL into the store.
Checkpoint ==
    /\ Stored
    /\ \E path \in {p \in DOMAIN files : Wal(p) \in DOMAIN files /\ IsDb(p)} :
          Turn([p \in DOMAIN files \ {Wal(path)} |-> IF p = path THEN Content(path) ELSE files[p]])
    /\ UNCHANGED <<homes, model>>

Torn(whole) == [whole |-> whole] ++ Noise("torn")

\* A document is being written anew, or a compressed file has got half a block.
Tear ==
    /\ \E path \in DOMAIN files :
         /\ path.ext = "jsonl.zstd" \/ (Document(path) /\ ~IsJsonl(path) /\ path.ext # "events")
         /\ IsWhole(path)
         /\ LET whole == files[path]
            IN  Turn([files EXCEPT ![path] = IF Document(path) THEN <<Torn(whole)>>
                                             ELSE Append(Front(whole), Torn(whole))])
    /\ UNCHANGED <<homes, model>>

\* And then it is complete.
Mend ==
    /\ \E path \in DOMAIN files : /\ ~IsWhole(path)
                                  /\ files' = [files EXCEPT ![path] = Last(@).whole]
    /\ UNCHANGED <<tool, homes, model, made, turns, adapterVars>>

\* The same requests appear in a second file.
Mirror ==
    /\ \E path \in DOMAIN files :
         /\ IsWhole(path)
         /\ \/ /\ tool = "codebuddy" /\ IsJsonl(path)
               /\ Turn(File([path EXCEPT !.stem = "s2"], files[path]) ++ files)
            \/ /\ tool = "trae"
               /\ \E root \in CacheDirCandidates :
                     Turn(File([path EXCEPT !.root = root], files[path]) ++ files)
    /\ UNCHANGED <<homes, model>>

\* A new version takes over the sessions of the old one.
Migrate ==
    /\ \E path \in DOMAIN files :
         /\ IsWhole(path)
         /\ \/ /\ tool = "opencode" /\ IsLegacyMessage(path)
               /\ LET store == Path(path.root, NoDir, "opencode", "db")
                  IN  /\ CallsIn(files[path]) \cap CallsIn(Content(store)) = {}
                      /\ Turn(With(store, Content(store) \o files[path]))
            \/ /\ tool = "atomcode" /\ path.ext = "meta"
               /\ LET index == [path EXCEPT !.ext = "index"]
                      log(ext) == [path EXCEPT !.ext = ext]
                      moved == File(index, files[path]) ++ File(log("events"), files[log("jsonl")]) ++ files
                  IN  \E left \in {{}, {path}} :
                         Turn([p \in DOMAIN moved \ left |-> moved[p]])
    /\ UNCHANGED <<homes, model>>

\* WorkBuddy enters in its ledger what a session has used so far.
SyncLedger ==
    /\ tool = "workbuddy"
    /\ \E path \in {p \in DOMAIN files : IsJsonl(p)} :
         Turn(Entered(LedgerOf(path.root), CallsIn(files[path]), Session) ++ files)
    /\ UNCHANGED <<homes, model>>

\* The CodeBuddy IDE writes which model a request went to, or where a conversation is.
WriteBeside ==
    /\ tool = "codebuddy"
    /\ \E path \in {p \in DOMAIN files : IsIndex(p) /\ IsWhole(p)} :
         LET messages == [path EXCEPT !.ext = "messages"]
             models == [i \in DOMAIN files[path] |->
                          [request_id |-> files[path][i].id,
                           model_id |-> files[path][i].truth.model] ++ Noise("message")]
             db == Path("ide", NoDir, "codebuddy-sessions", "vscdb")
         IN  \/ Turn(File(messages, models) ++ files)
             \/ Turn(File(db, <<[conv |-> Session, cwd |-> <<"work", Project>>]
                                  ++ Noise("session")>>) ++ files)
    /\ UNCHANGED <<homes, model>>

HasIdentity(line) ==
    "message_id" \in DOMAIN line => line.message_id # None \/ line.trace_id # None

\* CodeBuddy writes a session anew without its first line, which carries no usage. (A line
\* without an id changes its key then: LineReader has what becomes of such lines.)
Rewrite ==
    /\ tool = "codebuddy"
    /\ \E path \in {p \in DOMAIN files : IsJsonl(p)} :
         /\ \A i \in DOMAIN files[path] : HasIdentity(files[path][i])
         /\ files[path][1].kind = "user"
         /\ Turn([files EXCEPT ![path] = Tail(@)])
    /\ UNCHANGED <<homes, model>>

-----------------------------------------------------------------------------
(* The scanner *)

Existing(over) ==
    {p.root : p \in DOMAIN files}
    \cap (over \cup IF tool = "codebuddy" THEN ExistingDataDirs ELSE {})

\* Nothing of the tool is there: an error, but the roots have been looked for.
NothingToScan ==
    /\ Existing(ScanRoots) = {}
    /\ roots' = Some(ScanRoots)
    /\ UNCHANGED <<toolVars, known, fp, rows>>

SkipScan ==
    /\ Existing(ScanRoots) # {}
    /\ fp = Some(Basis(Existing(ScanRoots)))
    /\ roots' = Some(ScanRoots)
    /\ UNCHANGED <<toolVars, known, fp, rows>>

Scan ==
    LET existing == Existing(ScanRoots)
    IN  /\ existing # {}
        /\ fp # Some(Basis(existing))
        /\ LET out == ScanOutput(existing)
           IN  /\ rows' = InsertOrIgnore(rows, out.records)
               /\ known' = out.known
        /\ fp' = Some(Basis(existing))
        /\ roots' = Some(ScanRoots)
        /\ UNCHANGED toolVars

\* The program starts anew; what the scanner keeps is in the database.
Restart ==
    /\ roots # None
    /\ roots' = None
    /\ UNCHANGED <<toolVars, known, fp, rows>>

Next ==
    \/ MakeCall \/ MakeUntoldCall \/ Finish \/ SwitchModel \/ AddHome \/ AddBadRow \/ Checkpoint
    \/ Tear \/ Mend \/ Mirror \/ Migrate \/ SyncLedger \/ WriteBeside \/ Rewrite
    \/ NothingToScan \/ SkipScan \/ Scan \/ Restart

Spec == Init /\ [][Next]_vars

-----------------------------------------------------------------------------
(* Properties *)

\* A key is in the table once (its UNIQUE constraint).
TypeOK ==
    /\ tool \in Tools /\ homes \subseteq {"home", "wsl"}
    /\ made \in 0 .. Len(Calls) /\ turns \in 0 .. MaxTurns
    /\ Len(roots) <= 1 /\ Len(fp) <= 1 /\ DOMAIN known \subseteq DOMAIN files
    /\ \A r \in rows : r.calls \subseteq ToSet(Calls)
    /\ \A r, q \in rows : r.key = q.key => r = q

\* A call is one row, whatever the tool does with its files and however often they are
\* read. Three tools keep a call in two places under two keys, and there it is two rows:
\* but never two from one file.
CountedOnce ==
    \A r, q \in rows : r # q /\ r.calls \cap q.calls # {} =>
        tool \in {"codebuddy", "workbuddy", "atomcode"} /\ r.file # q.file

\* The calls an adapter can read in a file.
Readable(content) ==
    LET stop == {i \in DOMAIN content : content[i].kind \in {"torn", "bad"}}
    IN  IF tool \in {"qoder", "codearts"} \/ stop = {} THEN CallsIn(content)
        ELSE CallsIn(SubSeq(content, 1, Min(stop) - 1))

\* What workbuddy/mod.rs:275-276 promises of its ledger: "a session is never double
\* counted". The sessions it passes over are those with a record in the same scan, and a
\* scan parses only the files that changed.
SessionsAreCountedOnce ==
    tool = "workbuddy" =>
        \A r, q \in rows : r.calls \cap q.calls # {} => r = q

\* Calls that have lost their key to another row of the same file: a figure of WorkBuddy's
\* ledger that grew after it was entered, and turns of AtomCode without an id.
Outdone(path) ==
    LET entered == {r \in rows : r.file = path}
        lost(x) ==
          \/ /\ tool = "workbuddy" /\ IsLedger(path)
             /\ \E r \in entered : r.session = x.id /\ r.calls # x.calls
          \/ /\ tool = "atomcode" /\ x.kind = "turn" /\ x.turn_id = None
             /\ \E r \in entered : \E y \in ToSet(files[path]) :
                   y.kind = "turn" /\ y.turn_id = None /\ y.calls = r.calls /\ y # x
    IN  UNION {x.calls : x \in {y \in ToSet(files[path]) : lost(y)}}

\* What is not to be read: the log of CodeArts' store, which its fingerprint leaves out
\* until a checkpoint, and an AtomCode file that an index has taken the place of.
PassedOver(path) ==
    \/ tool = "codearts" /\ path.ext = "db-wal"
    \/ tool = "atomcode" /\ path \notin DOMAIN MetaFiles(files, {path.root})

\* Once the change detector has nothing to report, every call that can be read in the files
\* that are there is in the table, whether or not it looked at them, but for those whose key
\* another row has.
UnchangedIsCounted ==
    LET existing == Existing(ScanRoots)
    IN  fp = Some(Basis(existing)) =>
            \A path \in {p \in DOMAIN files : p.root \in existing /\ ~PassedOver(p)} :
                Readable(files[path]) \subseteq UNION {r.calls : r \in rows} \cup Outdone(path)

Billed(c) == Total(Bill[c]) - (IF tool = "codearts" THEN Bill[c].reasoning ELSE 0)

\* The counters of a row are disjoint: together they are what its calls were billed for,
\* and only what came from the cache is billed as such.
BucketsMatchTheBill ==
    \A r \in rows :
        /\ TotalTokens(r.tokens) = MapThenSumSet(Billed, r.calls)
        /\ r.tokens.read # 0 => r.tokens.read = MapThenSumSet(LAMBDA c : Bill[c].read, r.calls)

\* Stores that do not say the model, the directory or the time of a call.
ModelIsGuessed(r) ==
    \/ tool = "antigravity" /\ model # FirstModel
    \/ tool = "codebuddy" /\ IsIndex(r.file) /\ r.model = ""
    \/ tool = "atomcode" /\ (r.file.ext = "json" \/ r.model = DefaultAtomModel)
    \/ tool = "workbuddy" /\ IsLedger(r.file)

\* A row names the session, the project, the model and the time of its calls, wherever in
\* its file the tool wrote them.
RowsAreAttributed ==
    \A r \in rows :
        /\ r.session = r.truth.session
        /\ r.project = r.truth.project \/ tool = "trae" \/ r.project = Workspace
        /\ r.model = r.truth.model \/ ModelIsGuessed(r)
        /\ r.at = "own" \/ (tool = "atomcode" /\ r.at = "session")
==============================================================================
