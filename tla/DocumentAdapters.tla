--------------------------- MODULE DocumentAdapters ---------------------------
(***************************************************************************)
(* The adapters that read whole JSON documents: Gemini, Trae, AtomCode and *)
(* the desktop half of CodeBuddy, with the CodeBuddy scan that joins its   *)
(* two halves.                                                             *)
(*                                                                         *)
(* A document is the sequence of the usage-bearing objects in it. While    *)
(* its tool is rewriting it, its content is one entry of kind "torn": it   *)
(* is not JSON then.                                                       *)
(***************************************************************************)
EXTENDS LineAdapters

IsTorn(content) == content # <<>> /\ content[1].kind = "torn"

-----------------------------------------------------------------------------
(* Gemini: a record is keyed by how many of its file came before it.       *)

GeminiUsages(b, e) ==
    LET usage == Some([prompt |-> b.fresh + b.read + b.write, cached |-> b.read,
                       candidates |-> b.output + b.reasoning])
    IN  {[kind |-> "message", usageMetadata |-> usage, model |-> Some(e.truth.model),
          timestamp |-> Some("own")] ++ e}

RecordFromUsage(path, object, index) ==
    IF object.kind # "message" \/ object.usageMetadata = None THEN <<>>
    ELSE LET u == object.usageMetadata[1]
         IN  Emit(Rel(path) \o <<ToString(index)>>,
                  Tokens(Minus(u.prompt, u.cached), u.candidates, u.cached, 0), path.stem,
                  path.dir, OrElse(object.model, "gemini"), OrElse(object.timestamp, "now"), object)

\* A file that is not JSON is passed over.
CollectUsages(path, content) ==
    LET emits(k) == RecordFromUsage(path, content[k], 0) # <<>>
        before(i) == Cardinality({k \in 1 .. i - 1 : emits(k)})
    IN  IF IsTorn(content) THEN <<>>
        ELSE FlattenSeq([i \in DOMAIN content |-> RecordFromUsage(path, content[i], before(i))])

GeminiSeen(files, roots) == Seen(files, roots, LAMBDA path : path.ext = "json")

GeminiScan(files, roots, known) ==
    FullScan([p \in DOMAIN GeminiSeen(files, roots) |-> CollectUsages(p, files[p])])

-----------------------------------------------------------------------------
(* Trae: a cache of finished sessions, in either of two directories, that  *)
(* another program downloads.                                              *)

TraeSessions(b, e) ==
    LET tokens == [input |-> b.fresh, output |-> b.output + b.reasoning,
                   read |-> b.read, write |-> b.write]
    IN  {[kind |-> "session", session_id |-> Some(e.truth.session), usage_time |-> Some(e.id),
          tokens |-> tokens, mode |-> None, model_name |-> Some(<<"display-name", e.truth.model>>)]
         ++ e}

\* A display name gives the canonical one.
NormalizeTraeModel(name) == Last(name)

TraeRecord(path, session) ==
    IF session.session_id = None \/ session.usage_time = None THEN <<>>
    ELSE LET model == IF session.model_name # None
                      THEN NormalizeTraeModel(session.model_name[1])
                      ELSE OrElse(session.mode, "trae-unknown")
         IN  Emit(<<path.dir, path.stem, path.ext, session.session_id[1], session.usage_time[1]>>,
                  session.tokens, session.session_id[1], "Trae", model, "own", session)

TraeFile(path, content) ==
    IF IsTorn(content) THEN <<>>
    ELSE FlattenSeq([i \in DOMAIN content |-> TraeRecord(path, content[i])])

CacheDirCandidates == {"home", "tokscale"}

TraeSeen(files, roots) == Seen(files, roots, LAMBDA path : path.ext = "json")

TraeScan(files, roots, known) ==
    FullScan([p \in DOMAIN TraeSeen(files, roots) |-> TraeFile(p, files[p])])

-----------------------------------------------------------------------------
(* AtomCode: three formats. Turns have usage by call, or only a counter;   *)
(* the time of a turn is in a file beside the session's.                   *)

AtomTokens(b) == [input |-> b.fresh + b.write, output |-> b.output + b.reasoning,
                  cached_input |-> b.read]

AtomTotal(b) == b.fresh + b.write + b.output + b.reasoning + b.read

\* A turn as the version that writes the format records it, with or without an id. In an
\* index the total is what the context has grown to.
AtomCodeTurns(ext, b, e) ==
    LET usage == [model_id |-> Some(e.truth.model), tokens |-> Some(AtomTokens(b))]
        turn == [kind |-> "turn", turn_id |-> Some(e.id), used_tokens |-> None,
                 total_tokens |-> None, model_usage |-> <<>>] ++ e
        rich == [turn EXCEPT !.model_usage = <<usage>>, !.total_tokens = Some(1000)]
        nameless == [rich EXCEPT !.turn_id = None]
        detached == [kind |-> "detached", usage |-> usage] ++ e
    IN  CASE ext = "index" -> {rich, nameless, detached}
          [] ext = "meta" -> {[turn EXCEPT !.used_tokens = Some(AtomTotal(b))], rich, nameless}
          [] ext = "json" -> {[turn EXCEPT !.total_tokens = Some(AtomTotal(b))]}
          [] OTHER -> {}

\* The first entry of a session is its header.
AtomCodeHeader(session, project, model) ==
    [kind |-> "header", id |-> Some(session), working_dir |-> Some(<<"work", project>>),
     updated_at |-> Some("session"), prompt |-> Some(model), calls |-> {}]

\* When each turn began, from the log of either version beside the session.
LoadTurnTimestamps(files, path) ==
    LET events == UNION {ToSet(files[p]) :
                           p \in {q \in DOMAIN files : /\ q.ext \in {"jsonl", "events"}
                                                       /\ [q EXCEPT !.ext = path.ext] = path}}
    IN  [turn \in {ev.turn : ev \in events} |->
            (CHOOSE ev \in events : ev.turn = turn).at]

\* An index takes the place of the older files of its session in the same root.
MetaFiles(files, roots) ==
    LET sessions == {p \in DOMAIN files : p.root \in roots /\ p.ext \in {"meta", "json", "index"}}
        superseded(p) == /\ p.ext # "index"
                         /\ \E q \in sessions :
                               q.ext = "index" /\ q.root = p.root /\ q.stem = p.stem
    IN  [p \in {q \in sessions : ~superseded(q)} |-> files[p]]

DefaultAtomModel == "unknown"

\* One call of a turn, or of none.
AtomCodeCall(key, header, path, at, usage, entry) ==
    IF usage.tokens = None THEN <<>>
    ELSE LET t == usage.tokens[1]
         IN  Emit(key, Tokens(t.input, t.output, t.cached_input, 0),
                  OrElse(header.id, path.stem), Basename(header.working_dir),
                  OrElse(usage.model_id, DefaultAtomModel), at, entry)

\* Only a counter and no model: kept as input of an unknown model.
LegacyTurn(key, header, path, at, turn) ==
    Emit(key, Tokens(OrElse(turn.used_tokens, 0), 0, 0, 0), OrElse(header.id, path.stem),
         Basename(header.working_dir), DefaultAtomModel, at, turn)

\* All turns without an id have the same one.
TurnId(turn) == OrElse(turn.turn_id, "0")

ParseRich(files, path, header, turns) ==
    LET began == LoadTurnTimestamps(files, path)
        later == OrElse(header.updated_at, "file")
        at(turn) == IF TurnId(turn) \in DOMAIN began THEN began[TurnId(turn)] ELSE later
        record(i) ==
            LET x == turns[i]
            IN  CASE x.kind = "turn" /\ x.model_usage # <<>> ->
                       FlattenSeq([k \in DOMAIN x.model_usage |->
                          AtomCodeCall(Rel(path) \o <<TurnId(x), ToString(k)>>, header, path,
                                       at(x), x.model_usage[k], x)])
                  [] x.kind = "turn" /\ x.model_usage = <<>> ->
                       LegacyTurn(Rel(path) \o <<TurnId(x), "legacy">>, header, path, at(x), x)
                  [] x.kind = "detached" ->
                       LET n == Cardinality({k \in 1 .. i : turns[k].kind = "detached"})
                       IN  AtomCodeCall(Rel(path) \o <<"detached", ToString(n)>>, header, path,
                                        later, x.usage, x)
    IN  FlattenSeq([i \in DOMAIN turns |-> record(i)])

ParseJsonNew(path, header, turns) ==
    FlattenSeq([i \in DOMAIN turns |->
        Emit(Rel(path) \o <<ToString(i)>>, Tokens(OrElse(turns[i].total_tokens, 0), 0, 0, 0),
             OrElse(header.id, path.stem), Basename(header.working_dir),
             OrElse(header.prompt, DefaultAtomModel), OrElse(header.updated_at, "file"),
             turns[i])])

\* A document without one breakdown by call is read for its totals, unless it is an index.
ParseSession(files, path, content) ==
    IF IsTorn(content) THEN <<>>
    ELSE LET header == Head(content)
             turns == Tail(content)
             rich == \E i \in DOMAIN turns : /\ turns[i].kind = "turn"
                                             /\ turns[i].model_usage # <<>>
             totals == /\ turns # <<>> /\ turns[1].kind = "turn"
                       /\ turns[1].total_tokens # None
         IN  IF path.ext # "index" /\ ~rich /\ (path.ext = "json" \/ totals)
             THEN ParseJsonNew(path, header, turns)
             ELSE ParseRich(files, path, header, turns)

AtomCodeScan(files, roots, known) ==
    FullScan([p \in DOMAIN MetaFiles(files, roots) |-> ParseSession(files, p, files[p])])

-----------------------------------------------------------------------------
(* CodeBuddy, the desktop half: an index of requests for each conversation, *)
(* the models in message files beside it, the directories in the IDE's      *)
(* own store.                                                               *)

DesktopRequests(b, e) ==
    {[kind |-> "request", started_at |-> Some("own"),
      usage |-> Some([input |-> b.fresh + b.read + b.write, output |-> b.output + b.reasoning,
                      cache |-> b.read, write |-> b.write])] ++ e}

IsIndex(path) == path.ext = "index.json"

ExistingDataDirs == {"ide"}

DesktopSeen(files) == Seen(files, ExistingDataDirs, IsIndex)

\* The directory of a conversation, where the IDE's store has it.
LoadCwdMap(files) ==
    LET db == Path("ide", NoDir, "codebuddy-sessions", "vscdb")
        rows == IF db \in DOMAIN files THEN ToSet(files[db]) ELSE {}
    IN  [conv \in {row.conv : row \in rows} |-> (CHOOSE row \in rows : row.conv = conv).cwd]

LoadRequestModels(files, path) ==
    LET dir == [path EXCEPT !.ext = "messages"]
        messages == IF dir \in DOMAIN files THEN ToSet(files[dir]) ELSE {}
    IN  [id \in {m.request_id : m \in messages} |->
            (CHOOSE m \in messages : m.request_id = id).model_id]

DesktopRecord(path, project, models, request) ==
    IF request.usage = None THEN <<>>
    ELSE LET u == request.usage[1]
         IN  Emit(<<"desktop", path.dir, path.stem, request.id>>,
                  Tokens(Minus(Minus(u.input, u.cache), u.write), u.output, u.cache, u.write),
                  path.stem, project,
                  IF request.id \in DOMAIN models THEN models[request.id] ELSE "",
                  OrElse(request.started_at, "now"), request)

DesktopConversation(files, path, content) ==
    IF IsTorn(content) THEN <<>>
    ELSE LET cwds == LoadCwdMap(files)
             project == IF path.stem \in DOMAIN cwds THEN Last(cwds[path.stem]) ELSE path.dir
             models == LoadRequestModels(files, path)
         IN  FlattenSeq([i \in DOMAIN content |->
                            DesktopRecord(path, project, models, content[i])])

DesktopScan(files) ==
    FullScan([p \in DOMAIN DesktopSeen(files) |-> DesktopConversation(files, p, files[p])])

\* The two halves: only the CLI's files are compared with what the last scan saw.
CodebuddyBasis(files, roots) == CodebuddySeen(files, roots) ++ DesktopSeen(files)

CodebuddyScan(files, roots, known) ==
    LET seen == CodebuddySeen(files, roots)
        cli == IncrementalScan(seen, [p \in Changed(seen, known) |-> CodebuddyFile(p, seen[p])])
    IN  [cli EXCEPT !.records = @ \o DesktopScan(files).records]
=============================================================================
