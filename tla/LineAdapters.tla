----------------------------- MODULE LineAdapters -----------------------------
(***************************************************************************)
(* The adapters that read a session file line by line: Claude, Codex,      *)
(* CodeBuddy, WorkBuddy, Pi, OpenClaw and DeepSeek.                        *)
(*                                                                         *)
(* For each of them, the lines its tool writes, as far as the adapter's    *)
(* line type names their fields; what the adapter makes of a file; which   *)
(* files it takes; and its scan. b is the bill of a call, e the fields no  *)
(* adapter reads: the calls an entry stands for and what is true of them.  *)
(***************************************************************************)
EXTENDS UsageRows

IsJsonl(path) == path.ext = "jsonl"

\* A line that carries no usage.
Noise(kind) == [kind |-> kind, calls |-> {}]

-----------------------------------------------------------------------------
(* Claude: keys are line numbers, the session is the file. *)

ClaudeLines(b, e) ==
    {[kind |-> "assistant", model |-> Some(e.truth.model), timestamp |-> Some("own"),
      usage |-> Some([input_tokens |-> b.fresh, output_tokens |-> b.output + b.reasoning,
                      cache_creation_input_tokens |-> b.write,
                      cache_read_input_tokens |-> b.read])] ++ e}

ClaudeRecord(path, line, idx) ==
    IF line.kind # "assistant" \/ line.usage = None THEN <<>>
    ELSE LET u == line.usage[1]
         IN  Emit(Rel(path) \o <<ToString(idx)>>,
                  Tokens(u.input_tokens, u.output_tokens, u.cache_read_input_tokens,
                         u.cache_creation_input_tokens),
                  path.stem, path.dir, OrElse(line.model, ""),
                  OrElse(line.timestamp, "now"), line)

ClaudeFile(path, lines) ==
    FlattenSeq([i \in DOMAIN lines |-> ClaudeRecord(path, lines[i], i)])

ClaudeSeen(files, roots) == Seen(files, roots, IsJsonl)

ClaudeScan(files, roots, known) ==
    LET seen == ClaudeSeen(files, roots)
    IN  IncrementalScan(seen, [p \in Changed(seen, known) |-> ClaudeFile(p, seen[p])])

-----------------------------------------------------------------------------
(* Codex: the session, the project and the model come from earlier lines.  *)

CodexLines(b, e) ==
    {[kind |-> "token_count", timestamp |-> Some("own"),
      usage |-> Some([input_tokens |-> b.fresh + b.read, cached_input_tokens |-> b.read,
                      cache_write_input_tokens |-> b.write,
                      output_tokens |-> b.output + b.reasoning])] ++ e}

\* SessionState once the first i lines are read: what the last line of each kind has left.
CodexState(lines, i) ==
    LET meta == Latest(lines, i, LAMBDA line : line.kind = "session_meta")
        turn == Latest(lines, i, LAMBDA line : line.kind = "turn_context" /\ line.model # None)
    IN  [session |-> IF meta = None THEN ""
                     ELSE OrElse(FirstOf(<<meta[1].session_id, meta[1].id>>), ""),
         project |-> IF meta = None THEN "" ELSE Basename(meta[1].cwd),
         model |-> IF turn = None THEN "" ELSE turn[1].model[1]]

\* Mutant: the cached tokens stay in the input.
CodexTokens_InputWithCached(u) ==
    Tokens(u.input_tokens, u.output_tokens, u.cached_input_tokens, u.cache_write_input_tokens)

CodexTokens(u) ==
    Tokens(Minus(u.input_tokens, u.cached_input_tokens), u.output_tokens,
           u.cached_input_tokens, u.cache_write_input_tokens)

CodexLine(path, lines, i) ==
    LET line == lines[i]
        state == CodexState(lines, i)
    IN  IF line.kind # "token_count" \/ line.usage = None THEN <<>>
        ELSE Emit(Rel(path) \o <<ToString(i)>>, CodexTokens(line.usage[1]), state.session,
                  state.project, state.model, OrElse(line.timestamp, "now"), line)

CodexFile(path, lines) ==
    FlattenSeq([i \in DOMAIN lines |-> CodexLine(path, lines, i)])

CodexSeen(files, roots) == Seen(files, roots, IsJsonl)

CodexScan(files, roots, known) ==
    LET seen == CodexSeen(files, roots)
    IN  IncrementalScan(seen, [p \in Changed(seen, known) |-> CodexFile(p, seen[p])])
-----------------------------------------------------------------------------
(* CodeBuddy, the CLI half: usage in any of three places, keyed by the id  *)
(* of the request where the line has one.                                  *)

IsAssistantSide(line) ==
    \/ line.kind = "message" /\ line.role = "assistant"
    \/ line.kind = "function_call"

\* An option's field, for a usage object that may be missing (and_then).
Field(object, name) == IF object = None THEN None ELSE object[1][name]

CodebuddyLines(b, e) ==
    LET input == b.fresh + b.read + b.write
        line == [role |-> "assistant", session_id |-> Some(e.truth.session),
                 cwd |-> Some(<<"work", e.truth.project>>), timestamp |-> Some("own"),
                 message_id |-> None, trace_id |-> None,
                 conversation_request_id |-> None, model |-> Some("requested"),
                 request_model_id |-> Some(<<"custom-local", e.truth.model>>),
                 message |-> None, provider |-> None, raw |-> None] ++ e
        lean == [input |-> Some(input), output |-> Some(b.output + b.reasoning),
                 cache_read |-> Some(b.read)]
        provider == [input |-> Some(input), output |-> Some(b.output + b.reasoning),
                     cached |-> Some(b.read)]
        raw == [prompt |-> Some(input), completion |-> Some(b.output + b.reasoning),
                hit |-> Some(b.read), cache_read |-> Some(0), cached |-> None,
                creation |-> None, write |-> Some(b.write)]
    IN  {[line EXCEPT !.message = Some(lean), !.message_id = Some(e.id)] ++ [kind |-> "message"],
         [line EXCEPT !.message = Some(lean), !.raw = Some(raw), !.trace_id = Some(e.id)]
           ++ [kind |-> "message"],
         [line EXCEPT !.provider = Some(provider), !.model = Some(e.truth.model),
                      !.request_model_id = None] ++ [kind |-> "function_call"]}

CodebuddyTokens(line) ==
    LET msg == line.message
        prov == line.provider
        raw == line.raw
        input == OrZero(<<Field(msg, "input"), Field(prov, "input"), Field(raw, "prompt")>>)
        output == OrZero(<<Field(msg, "output"), Field(prov, "output"),
                           Field(raw, "completion")>>)
        cached == IF prov = None THEN None ELSE Some(OrZero(<<prov[1].cached>>))
        read == OrZero(<<Field(raw, "hit"), Field(raw, "cache_read"), cached,
                         Field(raw, "cached"), Field(msg, "cache_read")>>)
        write == OrZero(<<Field(raw, "creation"), Field(raw, "write")>>)
    IN  Tokens(Minus(Minus(input, read), write), output, read, write)

\* Mutant: every line is keyed by its index.
CodebuddyRecord_ByIndex(path, line, idx) ==
    IF ~IsAssistantSide(line) THEN <<>>
    ELSE Emit(Rel(path) \o <<ToString(idx)>>, CodebuddyTokens(line),
              OrElse(line.session_id, ""), Basename(line.cwd),
              IF line.request_model_id = None THEN OrElse(line.model, "")
              ELSE Last(line.request_model_id[1]),
              OrElse(line.timestamp, "now"), line)

CodebuddyRecord(path, line, idx) ==
    IF ~IsAssistantSide(line) THEN <<>>
    ELSE LET identity == FirstOf(<<line.message_id, line.trace_id,
                                   line.conversation_request_id>>)
             model == IF line.request_model_id = None THEN OrElse(line.model, "")
                      ELSE Last(line.request_model_id[1])
         IN  Emit(Rel(path) \o <<OrElse(identity, ToString(idx))>>, CodebuddyTokens(line),
                  OrElse(line.session_id, ""), Basename(line.cwd), model,
                  OrElse(line.timestamp, "now"), line)

CodebuddyFile(path, lines) ==
    FlattenSeq([i \in DOMAIN lines |-> CodebuddyRecord(path, lines[i], i)])

CodebuddySeen(files, roots) == Seen(files, roots, IsJsonl)

-----------------------------------------------------------------------------
(* WorkBuddy: transcripts, and a ledger beside them with one figure per    *)
(* session, for sessions whose transcript has no usage.                    *)

\* A workspace named after its launch time is called after the directory it is in.
ProjectFromCwd(cwd) ==
    IF cwd = None THEN "unknown"
    ELSE LET parts == cwd[1]
         IN  IF Last(parts) = "launch-time" /\ Len(parts) > 1 THEN Last(Front(parts))
             ELSE Last(parts)

WorkbuddyLines(b, e) ==
    LET line == [role |-> "assistant", session_id |-> Some(e.truth.session),
                 model |-> Some(e.truth.model), timestamp |-> Some("own"),
                 message |-> None, provider |-> None, raw |-> None] ++ e
        usage == [input |-> b.fresh + b.read, output |-> b.output + b.reasoning,
                  cache_read |-> b.read]
        raw == [prompt |-> b.fresh + b.read, completion |-> b.output + b.reasoning,
                hit |-> b.read, write |-> Some(b.write), creation |-> None]
        launched == [cwd |-> Some(<<"work", e.truth.project, "launch-time">>)]
        opened == [cwd |-> Some(<<"work", e.truth.project>>)]
    IN  {[line EXCEPT !.message = Some(usage), !.raw = Some(raw)] ++ opened
           ++ [kind |-> "message"],
         [line EXCEPT !.raw = Some(raw)] ++ launched ++ [kind |-> "function_call"]}

WorkbuddyTokens(line) ==
    LET usage == FirstOf(<<line.message, line.provider>>)
        write == OrZero(<<Field(line.raw, "write"), Field(line.raw, "creation")>>)
        of(input, output, read) == Tokens(Minus(input, read), output, read, write)
    IN  CASE usage # None -> of(usage[1].input, usage[1].output, usage[1].cache_read)
          [] usage = None /\ line.raw # None ->
               of(line.raw[1].prompt, line.raw[1].completion, line.raw[1].hit)
          [] OTHER -> Tokens(0, 0, 0, 0)

WorkbuddyRecord(path, line, idx) ==
    IF ~IsAssistantSide(line) THEN <<>>
    ELSE Emit(Rel(path) \o <<ToString(idx)>>, WorkbuddyTokens(line),
              OrElse(line.session_id, ""), ProjectFromCwd(line.cwd), OrElse(line.model, ""),
              OrElse(line.timestamp, "now"), line)

WorkbuddyFile(path, lines) ==
    FlattenSeq([i \in DOMAIN lines |-> WorkbuddyRecord(path, lines[i], i)])

IsLedger(path) == path.ext = "db"

WorkbuddySeen(files, roots) == Seen(files, roots, IsJsonl)

\* The ledger is beside the transcripts, and part of what the change detector reads.
WorkbuddyBasis(files, roots) ==
    Seen(files, roots, LAMBDA path : IsJsonl(path) \/ IsLedger(path))

\* A row of the ledger, for calls that come to used tokens.
WorkbuddySession(used, e) ==
    [kind |-> "session", id |-> e.truth.session, cwd |-> Some(<<"work", e.truth.project>>),
     model |-> Some(e.truth.model), created_at |-> "own", used |-> used,
     calls |-> e.calls, truth |-> e.truth]

WorkbuddyLedgerRow(path, row, covered) ==
    IF row.id \in covered \/ row.used = 0 THEN <<>>
    ELSE Emit(Label(path.root) \o <<"workbuddy.db", row.id>>, Tokens(row.used, 0, 0, 0),
              row.id, ProjectFromCwd(row.cwd), OrElse(row.model, ""), row.created_at, row)

\* covered: the sessions that had a record in this scan.
WorkbuddyLedger(path, rows, covered) ==
    FlattenSeq([i \in DOMAIN rows |-> WorkbuddyLedgerRow(path, rows[i], covered)])

WorkbuddyScan(files, roots, known) ==
    LET seen == WorkbuddySeen(files, roots)
        lines == IncrementalScan(seen, [p \in Changed(seen, known) |-> WorkbuddyFile(p, seen[p])])
        covered == {r.session : r \in ToSet(lines.records)}
        ledgers == FullScan([p \in DOMAIN Seen(files, roots, IsLedger) |->
                               WorkbuddyLedger(p, files[p], covered)])
    IN  [lines EXCEPT !.records = @ \o ledgers.records]
-----------------------------------------------------------------------------
(* Pi: keyed by entry id; usage that names no model belongs to the last    *)
(* model named before it.                                                  *)

PiLines(b, e) ==
    LET usage == Some([input |-> b.fresh + b.reasoning, output |-> b.output,
                       cache_read |-> b.read, cache_write |-> b.write])
        entry == [id |-> Some(e.id), timestamp |-> Some("own"), usage |-> usage] ++ e
    IN  {[kind |-> "message", role |-> "assistant", model |-> Some(e.truth.model)] ++ entry,
         [kind |-> "message", role |-> "toolResult", model |-> None] ++ entry,
         [kind |-> "compaction"] ++ entry}

\* Mutant: only messages tell the model.
PiModel_NoModelChange(lines, i) ==
    Latest(lines, i, LAMBDA line : /\ line.kind = "message" /\ line.role = "assistant"
                                   /\ line.model # None)

PiModel(lines, i) ==
    Latest(lines, i, LAMBDA line :
        /\ \/ line.kind = "model_change"
           \/ line.kind = "message" /\ line.role = "assistant"
        /\ line.model # None)

PiState(lines, i) ==
    LET session == Latest(lines, i, LAMBDA line : line.kind = "session")
        named == Latest(lines, i, LAMBDA line : line.kind = "session" /\ line.id # None)
        model == PiModel(lines, i)
    IN  [session |-> IF named = None THEN "" ELSE named[1].id[1],
         project |-> IF session = None THEN "" ELSE Basename(session[1].cwd),
         model |-> IF model = None THEN "" ELSE model[1].model[1]]

PiIsBilled(line) ==
    \/ line.kind = "message" /\ line.role \in {"assistant", "toolResult"}
    \/ line.kind = "compaction"

PiLine(path, lines, i) ==
    LET line == lines[i]
        state == PiState(lines, i)
    IN  IF ~PiIsBilled(line) \/ line.usage = None \/ line.id = None THEN <<>>
        ELSE LET u == line.usage[1]
             IN  Emit(Rel(path) \o <<line.id[1]>>,
                      Tokens(u.input, u.output, u.cache_read, u.cache_write), state.session,
                      state.project, state.model, OrElse(line.timestamp, "now"), line)

PiFile(path, lines) == FlattenSeq([i \in DOMAIN lines |-> PiLine(path, lines, i)])

PiSeen(files, roots) == Seen(files, roots, IsJsonl)

PiScan(files, roots, known) ==
    LET seen == PiSeen(files, roots)
    IN  IncrementalScan(seen, [p \in Changed(seen, known) |-> PiFile(p, seen[p])])

-----------------------------------------------------------------------------
(* OpenClaw: a usage object has its keys in the spelling of the provider   *)
(* it came from (those of a nested object with its name in front); only    *)
(* some spellings count the cached tokens as input.                        *)

CacheReadKeys == <<"cacheRead", "cache_read_input_tokens", "details_cached_tokens">>
CacheWriteKeys == <<"cacheWrite", "cache_creation_input_tokens", "details_cache_write_tokens">>
InputKeys == <<"input", "input_tokens", "prompt_tokens">>
OutputKeys == <<"output", "output_tokens", "completion_tokens">>
ReasoningKeys == <<"reasoningTokens", "details_reasoning_tokens">>

OpenClawLines(b, e) ==
    LET line == [kind |-> "message", role |-> "assistant", id |-> Some(e.id),
                 timestamp |-> Some("own"), model |-> Some(e.truth.model)] ++ e
        own == [input |-> b.fresh, output |-> b.output, cacheRead |-> b.read,
                cacheWrite |-> b.write, reasoningTokens |-> b.reasoning]
        openai == [prompt_tokens |-> b.fresh + b.read + b.write, completion_tokens |-> b.output,
                   details_cached_tokens |-> b.read, details_cache_write_tokens |-> b.write,
                   details_reasoning_tokens |-> b.reasoning]
        anthropic == [input_tokens |-> b.fresh, output_tokens |-> b.output + b.reasoning,
                      cache_read_input_tokens |-> b.read,
                      cache_creation_input_tokens |-> b.write]
    IN  {[usage |-> u] ++ line : u \in {own, openai, anthropic}}

PickNumber(u, keys) ==
    OrZero([i \in DOMAIN keys |-> IF keys[i] \in DOMAIN u THEN Some(u[keys[i]]) ELSE None])

HasAny(u, keys) == keys \cap DOMAIN u # {}

ParseUsage(u) ==
    LET read == PickNumber(u, CacheReadKeys)
        write == PickNumber(u, CacheWriteKeys)
        direct == HasAny(u, {"input"})
        readInInput == HasAny(u, {"details_cached_tokens"})
        writeInInput == ~direct /\ HasAny(u, {"details_cache_write_tokens"})
        input == Minus(PickNumber(u, InputKeys),
                       (IF readInInput THEN read ELSE 0) + (IF writeInInput THEN write ELSE 0))
    IN  Tokens(input, PickNumber(u, OutputKeys) + PickNumber(u, ReasoningKeys), read, write)

\* Only the sessions directories count, and not the trajectory traces in them.
OpenClawSeen(files, roots) ==
    Seen(files, roots, LAMBDA path : IsJsonl(path) /\ path.dir = "sessions")

\* The state directory of an earlier name of the tool is a root with a label of its own.
OpenClawRoots(homes) ==
    homes \cup {IF home = "home" THEN "clawdbot" ELSE "clawdbot/wsl" : home \in homes}

OpenClawRecord(path, lines, i) ==
    LET line == lines[i]
        header == Latest(lines, i, LAMBDA l : l.kind = "session")
    IN  IF line.kind # "message" \/ line.role # "assistant" THEN <<>>
        ELSE Emit(Rel(path) \o <<OrElse(line.id, "")>>, ParseUsage(line.usage),
                  IF header = None THEN "" ELSE OrElse(header[1].id, ""),
                  IF header = None THEN "unknown" ELSE Basename(header[1].cwd),
                  OrElse(line.model, ""), OrElse(line.timestamp, "now"), line)

OpenClawFile(path, lines) ==
    FlattenSeq([i \in DOMAIN lines |-> OpenClawRecord(path, lines, i)])

OpenClawScan(files, roots, known) ==
    FullScan([p \in DOMAIN OpenClawSeen(files, roots) |-> OpenClawFile(p, files[p])])

-----------------------------------------------------------------------------
(* DeepSeek: compressed or plain files, keyed by turn and step.            *)

DefaultModel == "deepseek-v4-pro"

DeepSeekLines(b, e) ==
    {[kind |-> "assistant/message", time |-> Some("own"), turn |-> Some(e.id),
      step |-> Some("1"), model |-> model,
      usage |-> Some([input |-> b.fresh, output |-> b.output + b.reasoning,
                      cache_read |-> b.read, cache_write |-> b.write])] ++ e :
     model \in {None, Some(e.truth.model)}}

\* The session, the project and the model that a message has if it does not name its own.
DeepSeekState(path, lines, i) ==
    LET named == Latest(lines, i, LAMBDA line : line.kind = "session" /\ line.id # None)
        placed == Latest(lines, i, LAMBDA line : line.kind = "session" /\ line.cwd # None)
        header == Latest(lines, i, LAMBDA line : line.kind = "request/header" /\ line.model # None)
    IN  [session |-> IF named = None THEN path.stem ELSE named[1].id[1],
         project |-> IF placed = None THEN "unknown" ELSE Basename(placed[1].cwd),
         model |-> IF header = None THEN DefaultModel ELSE header[1].model[1]]

MessageRecord(path, lines, i) ==
    LET line == lines[i]
        state == DeepSeekState(path, lines, i)
    IN  IF \/ line.kind # "assistant/message"
           \/ line.turn = None \/ line.step = None \/ line.usage = None \/ line.time = None
        THEN <<>>
        ELSE LET u == line.usage[1]
             IN  Emit(Rel(path) \o <<line.turn[1], line.step[1]>>,
                      Tokens(u.input, u.output, u.cache_read, u.cache_write), state.session,
                      state.project, OrElse(line.model, state.model), line.time[1], line)

IsHarnessFile(path) == path.ext \in {"jsonl", "jsonl.zstd"}

\* A compressed file that ends in the middle of a block cannot be read further.
SessionLines(path, lines) ==
    IF path.ext = "jsonl" THEN lines
    ELSE LET torn == {i \in DOMAIN lines : lines[i].kind = "torn"}
         IN  SubSeq(lines, 1, IF torn = {} THEN Len(lines) ELSE Min(torn) - 1)

DeepSeekFile(path, content) ==
    LET lines == SessionLines(path, content)
    IN  FlattenSeq([i \in DOMAIN lines |-> MessageRecord(path, lines, i)])

DeepSeekSeen(files, roots) == Seen(files, roots, IsHarnessFile)

DeepSeekScan(files, roots, known) ==
    FullScan([p \in DOMAIN DeepSeekSeen(files, roots) |-> DeepSeekFile(p, files[p])])
=============================================================================
