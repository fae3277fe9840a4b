------------------------------ MODULE UsageRows ------------------------------
(***************************************************************************)
(* What the fifteen adapters share: optional fields, scan roots, the       *)
(* record an adapter emits and the table it is entered in.                 *)
(*                                                                         *)
(* Token counters are small numbers and every text is an opaque value: the *)
(* adapters only compare, join and take apart names. A path is its root,   *)
(* the directory under it, its stem and its extension; a working directory *)
(* is the sequence of its components. A record carries two fields the      *)
(* program does not have: the calls to a model it stands for, and what is  *)
(* true of them; properties compare them with what the adapter made of it. *)
(***************************************************************************)
EXTENDS Naturals, Sequences, FiniteSets, SequencesExt, FiniteSetsExt, TLC

\* An optional value is a sequence of at most one element.
None == <<>>
Some(x) == <<x>>
OrElse(option, default) == IF option = None THEN default ELSE option[1]

\* The first of several options that has a value (Option::or_else).
FirstOf(options) ==
    LET present == {i \in DOMAIN options : options[i] # None}
    IN  IF present = {} THEN None ELSE options[Min(present)]

OrZero(options) == OrElse(FirstOf(options), 0)

\* saturating_sub of two unsigned counters
Minus(a, b) == IF a > b THEN a - b ELSE 0

\* Path::file_name of a working directory
Basename(cwd) == IF cwd = None THEN "unknown" ELSE Last(cwd[1])

\* The last line that is one of these, of those up to the i-th.
Latest(lines, i, Admits(_)) ==
    LET of == {k \in 1 .. i : Admits(lines[k])}
    IN  IF of = {} THEN None ELSE Some(lines[Max(of)])

\* What f has, and what only g has.
f ++ g == [x \in DOMAIN f \cup DOMAIN g |-> IF x \in DOMAIN f THEN f[x] ELSE g[x]]

-----------------------------------------------------------------------------
(* Scan roots: one root per home directory. Only the local home has no     *)
(* label; the label goes in front of every key.                            *)

\* The directory of a file that is right under its root.
NoDir == ""

Path(root, dir, stem, ext) == [root |-> root, dir |-> dir, stem |-> stem, ext |-> ext]

\* One file and its content.
File(path, content) == [p \in {path} |-> content]

Label(root) == IF root = "home" THEN <<>> ELSE <<root>>

\* Mutant: the label is left out of the key.
Rel_NoLabel(path) == <<path.dir, path.stem, path.ext>>

Rel(path) == Label(path.root) \o <<path.dir, path.stem, path.ext>>

\* The files of a directory tree that an adapter's filter admits (scan_roots_inner).
Seen(files, roots, Admits(_)) ==
    [p \in {q \in DOMAIN files : q.root \in roots /\ Admits(q)} |-> files[p]]

-----------------------------------------------------------------------------
(* Records *)

\* The four counters of a call.
Tokens(input, output, read, write) ==
    [input |-> input, output |-> output, read |-> read, write |-> write]

TotalTokens(t) == t.input + t.output + t.read + t.write

\* An adapter drops a record whose counters are all zero.
Emit(key, tokens, session, project, model, at, entry) ==
    IF TotalTokens(tokens) = 0 THEN <<>>
    ELSE <<[key |-> key, tokens |-> tokens, session |-> session, project |-> project,
            model |-> model, at |-> at, calls |-> entry.calls, truth |-> entry.truth]>>

\* Mutant: a plain INSERT into a table without the constraint.
InsertOrIgnore_Inserts(rows, records) == rows \cup ToSet(records)

\* The key is unique in the table: what has been entered stays as it is.
InsertOrIgnore(rows, records) ==
    LET isNew(i) == \A q \in rows \cup {records[j] : j \in 1 .. i - 1} : q.key # records[i].key
    IN  rows \cup {records[i] : i \in {k \in DOMAIN records : isNew(k)}}

-----------------------------------------------------------------------------
(* Scans. What a change detector reads of a file stands for its size and   *)
(* modification time, so here it tells any two contents apart; ScanStore   *)
(* models what happens when it does not.                                   *)

\* The files that differ from what the last scan saw.
Changed(seen, known) == {p \in DOMAIN seen : p \notin DOMAIN known \/ known[p] # seen[p]}

\* parsed has what an adapter makes of each file that it parses. A record keeps, for the
\* properties, which file it was read from.
FullScan(parsed) ==
    LET paths == SetToSeq(DOMAIN parsed)
        read(path) == [i \in DOMAIN parsed[path] |-> parsed[path][i] ++ [file |-> path]]
    IN  [records |-> FlattenSeq([i \in DOMAIN paths |-> read(paths[i])]), known |-> <<>>]

\* Only changed files are parsed, and what was seen is kept for the next scan.
IncrementalScan(seen, parsed) == [FullScan(parsed) EXCEPT !.known = seen]
=============================================================================
