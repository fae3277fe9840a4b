---------------------------- MODULE StoreAdapters ----------------------------
(***************************************************************************)
(* The adapters that read the SQLite store of a running tool: OpenCode,    *)
(* Qoder, CodeArts, TeleAgent and Antigravity.                             *)
(*                                                                         *)
(* A store is a file with extension "db" whose content is the sequence of  *)
(* its rows; while the tool has written without a checkpoint, a file       *)
(* "db-wal" beside it has the rows as a reader sees them. A row of kind    *)
(* "bad" is one whose columns do not have the type the query expects.      *)
(***************************************************************************)
EXTENDS UsageRows

Wal(path) == [path EXCEPT !.ext = "db-wal"]

IsDb(path) == path.ext = "db"
IsStoreFile(path) == path.ext \in {"db", "db-wal"}

\* What a connection to each store reads.
Stores(files, roots) ==
    [p \in DOMAIN Seen(files, roots, IsDb) |->
        IF Wal(p) \in DOMAIN files THEN files[Wal(p)] ELSE files[p]]

\* A row that cannot be read ends the scan of its store.
RowsBeforeBad(rows) ==
    LET bad == {i \in DOMAIN rows : rows[i].kind = "bad"}
    IN  SubSeq(rows, 1, IF bad = {} THEN Len(rows) ELSE Min(bad) - 1)

NoTokens == [input |-> 0, output |-> 0, reasoning |-> 0, read |-> 0, write |-> 0]

\* A message without usage, as its row is until the call ends.
InFlight(row, zero) ==
    {[row EXCEPT !.tokens = t, !.calls = {}] ++ [final |-> row] : t \in {None, Some(zero)}}

MessageRow(b, e) ==
    [kind |-> "message", role |-> "assistant", id |-> e.id, session_id |-> e.truth.session,
     time_created |-> "own", model_id |-> Some(e.truth.model),
     tokens |-> Some([input |-> b.fresh, output |-> b.output, reasoning |-> b.reasoning,
                      read |-> b.read, write |-> b.write])] ++ e

\* Reasoning is billed as input: there is no counter of its own for it.
MessageTokens(t) == Tokens(t.input + t.reasoning, t.output, t.read, t.write)

-----------------------------------------------------------------------------
(* OpenCode: two stores and the message files of earlier versions, which   *)
(* share one key space, so that a migrated message is one record.          *)

OpenCodeRows(b, e) ==
    {MessageRow(b, e) ++ [cwd |-> Some(<<"work", e.truth.project>>), created |-> created] :
     created \in {None, Some("own")}}

OpenCodeRecord(root, row) ==
    IF row.role # "assistant" \/ row.tokens = None THEN <<>>
    ELSE Emit(Label(root) \o <<"opencode.db", row.id>>, MessageTokens(row.tokens[1]),
              row.session_id, Basename(row.cwd), OrElse(row.model_id, ""),
              OrElse(row.created, row.time_created), row)

OpenCodeStore(path, rows) ==
    LET good == RowsBeforeBad(rows)
    IN  FlattenSeq([i \in DOMAIN good |-> OpenCodeRecord(path.root, good[i])])

IsLegacyMessage(path) == path.ext = "json" /\ path.dir = "storage/message"

\* A file that is not a whole document is an error.
OpenCodeLegacyFile(path, content) ==
    IF content[1].kind = "torn" THEN <<>>
    ELSE OpenCodeRecord(path.root, [content[1] EXCEPT !.time_created = "epoch"])

OpenCodeBasis(files, roots) ==
    Seen(files, roots, LAMBDA path : IsStoreFile(path) \/ IsLegacyMessage(path))

OpenCodeScan(files, roots, known) ==
    LET stores == Stores(files, roots)
        new == FullScan([p \in DOMAIN stores |-> OpenCodeStore(p, stores[p])])
        legacy == FullScan([p \in DOMAIN Seen(files, roots, IsLegacyMessage) |->
                              OpenCodeLegacyFile(p, files[p])])
    IN  [new EXCEPT !.records = @ \o legacy.records]

-----------------------------------------------------------------------------
(* Qoder: one store, on the local home only; what cannot be read in it is  *)
(* passed over.                                                            *)

QoderRows(b, e) == OpenCodeRows(b, e)

QoderRecord(row) ==
    IF row.role # "assistant" \/ row.tokens = None THEN <<>>
    ELSE Emit(<<"local.db", row.id>>, MessageTokens(row.tokens[1]), row.session_id,
              Basename(row.cwd), OrElse(row.model_id, ""),
              OrElse(row.created, row.time_created), row)

QoderStore(path, rows) ==
    FlattenSeq([i \in DOMAIN rows |->
                  IF rows[i].kind = "bad" THEN <<>> ELSE QoderRecord(rows[i])])

QoderRoots(homes) == {"home"}

QoderBasis(files, roots) == Seen(files, roots, IsStoreFile)

QoderScan(files, roots, known) ==
    LET stores == Stores(files, roots)
    IN  FullScan([p \in DOMAIN stores |-> QoderStore(p, stores[p])])

-----------------------------------------------------------------------------
(* CodeArts: any of several places on the local home; reasoning is in none *)
(* of the counters read, and the change detector does not look at the WAL. *)

CodeArtsRows(b, e) ==
    {MessageRow(b, e) ++ [directory |-> <<"work", e.truth.project>>, created |-> Some("own"),
                          json_time_created |-> None]}

ProjectName(directory) == IF directory = <<>> THEN "unknown" ELSE Last(directory)

ParseMessage(row) ==
    IF row.tokens = None THEN <<>>
    ELSE LET t == row.tokens[1]
         IN  Emit(<<"message", row.id>>, Tokens(t.input, t.output, t.read, t.write),
                  row.session_id, ProjectName(row.directory), OrElse(row.model_id, "unknown"),
                  OrElse(FirstOf(<<row.created, row.json_time_created>>), "epoch"), row)

CodeArtsStore(path, rows) ==
    FlattenSeq([i \in DOMAIN rows |->
                  IF rows[i].kind = "bad" THEN <<>> ELSE ParseMessage(rows[i])])

\* The places that have a store when the adapter first looks; it does not look again.
CodeArtsRoots(files) ==
    {p.root : p \in {q \in DOMAIN files : IsDb(q) /\ q.root \in {"home", "appdata"}}}

CodeArtsBasis(files, roots) == Seen(files, roots, IsDb)

CodeArtsScan(files, roots, known) ==
    LET stores == Stores(files, roots)
    IN  FullScan([p \in DOMAIN stores |-> CodeArtsStore(p, stores[p])])

-----------------------------------------------------------------------------
(* TeleAgent: one store for each user of the tool, who is the label.       *)

TeleAgentRows(b, e) ==
    {MessageRow(b, e) ++ [title |-> Some(e.truth.project), created |-> created] :
     created \in {None, Some("own")}}

TeleAgentRecord(root, row) ==
    IF row.role # "assistant" \/ row.tokens = None THEN <<>>
    ELSE Emit(Label(root) \o <<"teleagent.db", row.id>>, MessageTokens(row.tokens[1]),
              row.session_id, OrElse(row.title, "unknown"), OrElse(row.model_id, ""),
              OrElse(row.created, row.time_created), row)

TeleAgentStore(path, rows) ==
    LET good == RowsBeforeBad(rows)
    IN  FlattenSeq([i \in DOMAIN good |-> TeleAgentRecord(path.root, good[i])])

\* One root for each user's store that exists when the adapter first looks.
TeleAgentRoots(files) == {p.root : p \in {q \in DOMAIN files : IsDb(q)}}

TeleAgentBasis(files, roots) == Seen(files, roots, IsStoreFile)

TeleAgentScan(files, roots, known) ==
    LET stores == Stores(files, roots)
    IN  FullScan([p \in DOMAIN stores |-> TeleAgentStore(p, stores[p])])

-----------------------------------------------------------------------------
(* Antigravity: one store for each conversation. A step's metadata is an   *)
(* encoded message: a sequence of fields, each a number and either a       *)
(* varint or nested bytes, or "malformed".                                 *)

Varint(number, value) == [number |-> number, wire |-> "varint", value |-> value]
Bytes(number, fields) == [number |-> number, wire |-> "bytes", value |-> fields]
Text(number, uri) == [number |-> number, wire |-> "text", value |-> uri]

\* The first field of that number, if it is of that wire type.
FirstField(fields, number, wire) ==
    LET of == {i \in DOMAIN fields : fields[i].number = number}
    IN  IF of # {} /\ fields[Min(of)].wire = wire THEN Some(fields[Min(of)].value) ELSE None

FirstVarint(fields, number) == FirstField(fields, number, "varint")

\* The fields, with those of every nested message in its place.
Unnest(fields) ==
    FlattenSeq([i \in DOMAIN fields |->
                  IF fields[i].wire = "bytes" THEN fields[i].value ELSE <<fields[i]>>])

\* The first file URI among the fields, however deep, down to eight levels.
FirstFileUri(fields) ==
    LET down[depth \in 0 .. 8] == IF depth = 0 THEN fields ELSE Unnest(down[depth - 1])
        uris == {i \in DOMAIN down[8] : down[8][i].wire = "text"}
    IN  IF uris = {} THEN None ELSE Some(down[8][Min(uris)].value)

AntigravitySteps(b, e) ==
    LET stats == <<Varint(2, b.fresh + b.read + b.write), Varint(3, b.output + b.reasoning),
                   Varint(5, b.read)>>
    IN  {[kind |-> "step", idx |-> e.id,
          tokens |-> Some(<<Bytes(1, <<Varint(1, "own")>>), Bytes(9, stats)>>)] ++ e}

NoStats == <<Bytes(1, <<Varint(1, "own")>>)>>

DecodeGenMetadata(fields) ==
    LET ts == FirstField(fields, 1, "bytes")
        seconds == IF ts = None THEN None ELSE FirstVarint(ts[1], 1)
        stats == FirstField(fields, 9, "bytes")
    IN  IF seconds = None \/ stats = None THEN None
        ELSE LET total == OrZero(<<FirstVarint(stats[1], 2)>>)
                 cached == OrZero(<<FirstVarint(stats[1], 5)>>)
                 read == IF total < cached THEN total ELSE cached
             IN  Some([at |-> seconds[1],
                       tokens |-> Tokens(total - read, OrZero(<<FirstVarint(stats[1], 3)>>),
                                         read, 0)])

\* The model is the one configured when the scan runs.
RootModel(files, root) ==
    LET settings == Path(root, NoDir, "settings", "json")
    IN  IF settings \in DOMAIN files THEN OrElse(files[settings][1].model, "gemini")
        ELSE "gemini"

ConversationProject(rows) ==
    LET blobs == {i \in DOMAIN rows : rows[i].kind = "trajectory"}
    IN  Basename(IF blobs = {} THEN None ELSE FirstFileUri(rows[Min(blobs)].fields))

\* A step of which nothing can be decoded is passed over.
ScanConversation(files, path, rows) ==
    LET steps == RowsBeforeBad(rows)
        record(step) ==
            LET gen == IF step.kind # "step" \/ step.tokens = None THEN None
                       ELSE DecodeGenMetadata(step.tokens[1])
            IN  IF gen = None THEN <<>>
                ELSE Emit(Label(path.root) \o <<path.stem, step.idx>>, gen[1].tokens, path.stem,
                          ConversationProject(rows), RootModel(files, path.root), gen[1].at, step)
    IN  FlattenSeq([i \in DOMAIN steps |-> record(steps[i])])

\* The CLI and the IDE keep their conversations apart.
AntigravityRoots(homes) ==
    homes \cup {IF home = "home" THEN "ide" ELSE "wsl/ide" : home \in homes}

AntigravityBasis(files, roots) == Seen(files, roots, IsStoreFile)

AntigravityScan(files, roots, known) ==
    LET stores == Stores(files, roots)
    IN  FullScan([p \in DOMAIN stores |-> ScanConversation(files, p, stores[p])])
=============================================================================
