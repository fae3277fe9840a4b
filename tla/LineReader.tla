----------------------------- MODULE LineReader -----------------------------
(***************************************************************************)
(* Reading one growing JSONL file: providers/source.rs `for_each_line`     *)
(* under the incremental walk, with the record keys an adapter gives the   *)
(* lines ("rel:line_idx", e.g. providers/claude `parse_line`).  ScanStore  *)
(* takes a read to be atomic; this module is what that rests on.           *)
(*                                                                         *)
(* A line is Body bytes and a newline.  The file is the number of its      *)
(* complete lines and the bytes present of the line after them: all of     *)
(* Body is a whole JSON object that lacks only its newline.  BufReader     *)
(* buffers what was there, and a file only grows, so one `read_until` call *)
(* takes what there is at its last read: up to a newline, or else to the   *)
(* end of the file.                                                        *)
(***************************************************************************)
EXTENDS Naturals

CONSTANTS
    MaxLines,   \* bound: lines the tool writes
    MaxFaults,  \* bound: reads that fail, scans that die, changes of other files
    Body        \* bytes of a line before its newline

ASSUME ConstantsAreTyped ==
    MaxLines \in Nat /\ MaxFaults \in Nat /\ Body \in Nat \ {0}

Line == 1 .. MaxLines
Size == [lines : 0 .. MaxLines, torn : 0 .. Body]
Empty == [lines |-> 0, torn |-> 0]

VARIABLES
    file,    \* the file's size
    known,   \* the size in the stored state map (Empty: the file is not in it)
    seen,    \* the stored fingerprint: the size it was made of, if it still
             \* is that of the tree with a file of some size
    print,   \* the same for the fingerprint this scan has made
    pc,      \* "idle", "walk" or "read"
    stat,    \* the size at the stat before the parse
    at,      \* the reader's position
    idx,     \* line_idx: read_until calls that returned something
    rows,    \* the stored records, <<key, line>>: the key is a line_idx + 1
    faults,
    split    \* history: was some line read in two pieces?

vars == <<file, known, seen, print, pc, stat, at, idx, rows, faults, split>>

TypeOK ==
    /\ file \in Size /\ (file.torn > 0 => file.lines < MaxLines)
    /\ known \in Size /\ stat \in Size /\ at \in Size
    /\ seen \subseteq Size /\ print \subseteq Size
    /\ pc \in {"idle", "walk", "read"} /\ idx \in Nat
    /\ rows \subseteq (Nat \ {0}) \X Line
    /\ faults \in 0 .. MaxFaults /\ split \in BOOLEAN

Init ==
    /\ file = Empty /\ known = Empty /\ seen = {} /\ print = {}
    /\ pc = "idle" /\ stat = Empty /\ at = Empty
    /\ idx = 0 /\ rows = {} /\ faults = 0 /\ split = FALSE

\* The tool appends a line at once, or a part of one.
Append ==
    /\ file.lines < MaxLines
    /\ \/ file.torn = 0 /\ file' = [file EXCEPT !.lines = @ + 1]
       \/ file.torn < Body /\ file' = [file EXCEPT !.torn = @ + 1]
       \/ file.torn = Body /\ file' = [lines |-> file.lines + 1, torn |-> 0]
    /\ UNCHANGED <<known, seen, print, pc, stat, at, idx, rows, faults, split>>

\* Another file of the tree changes: no fingerprint made before is that of the
\* tree any more.
Elsewhere ==
    /\ faults < MaxFaults /\ faults' = faults + 1
    /\ seen' = {} /\ print' = {}
    /\ UNCHANGED <<file, known, pc, stat, at, idx, rows, split>>

\* A scan makes the tree's fingerprint.  When it is the stored one the scan
\* ends there, whatever the state map says of the file.
Begin ==
    /\ pc = "idle" /\ seen # {file}
    /\ pc' = "walk" /\ print' = {file}
    /\ UNCHANGED <<file, known, seen, stat, at, idx, rows, faults, split>>

\* Mutation: the scan goes on where the last one stopped.
WalkFile_Resumes ==
    /\ pc = "walk"
    /\ IF file = known
       THEN pc' = "idle" /\ seen' = print /\ UNCHANGED <<stat, at, idx>>
       ELSE pc' = "read" /\ stat' = file /\ at' = known /\ idx' = 0 /\ UNCHANGED seen
    /\ UNCHANGED <<file, known, print, rows, faults, split>>

\* The walk passes over the file when it is known at its size, and parses it
\* from its start otherwise.
WalkFile ==
    /\ pc = "walk"
    /\ IF file = known
       THEN pc' = "idle" /\ seen' = print /\ UNCHANGED <<stat, at, idx>>
       ELSE pc' = "read" /\ stat' = file /\ at' = Empty /\ idx' = 0 /\ UNCHANGED seen
    /\ UNCHANGED <<file, known, print, rows, faults, split>>

\* INSERT OR IGNORE of the record of line l under the current line_idx.
Emit(l) ==
    rows' = IF \E r \in rows : r[1] = idx + 1 THEN rows ELSE rows \cup {<<idx + 1, l>>}

\* One read_until: to the next newline, or the rest of the file.  Only a
\* piece that is a whole JSON object gives a record.
ReadUntil ==
    /\ pc = "read" /\ at # file
    /\ \/ /\ at.lines < file.lines
          /\ at' = [lines |-> at.lines + 1, torn |-> 0]
          /\ IF at.torn = 0 THEN Emit(at.lines + 1) ELSE UNCHANGED rows
       \/ /\ at.lines = file.lines
          /\ at' = file
          /\ IF at.torn = 0 /\ file.torn = Body THEN Emit(at.lines + 1) ELSE UNCHANGED rows
    /\ idx' = idx + 1
    /\ split' = (split \/ at.torn > 0)
    /\ UNCHANGED <<file, known, seen, print, pc, stat, faults>>

\* Mutation: the fingerprint is made when it is stored.
EndOfFile_FingerprintAtEnd ==
    /\ pc = "read" /\ at = file
    /\ pc' = "idle" /\ known' = stat /\ seen' = {file}
    /\ UNCHANGED <<file, print, stat, at, idx, rows, faults, split>>

\* read_until returns 0: the file is known with the stat from before, and the
\* fingerprint from before that is stored.
EndOfFile ==
    /\ pc = "read" /\ at = file
    /\ pc' = "idle" /\ known' = stat /\ seen' = print
    /\ UNCHANGED <<file, print, stat, at, idx, rows, faults, split>>

\* Mutation: the file counts as known although the read failed.
ReadFails_Recorded ==
    /\ pc = "read" /\ faults < MaxFaults /\ faults' = faults + 1
    /\ pc' = "idle" /\ known' = stat /\ seen' = print
    /\ UNCHANGED <<file, print, stat, at, idx, rows, split>>

\* A read fails half-way: the file is left out of the state map, but the scan
\* ends as any other and stores its fingerprint.
ReadFails ==
    /\ pc = "read" /\ faults < MaxFaults /\ faults' = faults + 1
    /\ pc' = "idle" /\ known' = Empty /\ seen' = print
    /\ UNCHANGED <<file, print, stat, at, idx, rows, split>>

\* The process dies or the database fails: what was emitted may be stored, and
\* the state map too when the file was read to its end.
Die ==
    /\ pc # "idle" /\ faults < MaxFaults /\ faults' = faults + 1
    /\ pc' = "idle"
    /\ \/ UNCHANGED known
       \/ pc = "read" /\ at = file /\ known' = stat
    /\ UNCHANGED <<file, seen, print, stat, at, idx, rows, split>>

Scan == Begin \/ WalkFile \/ ReadUntil \/ EndOfFile

Next == Append \/ Elsewhere \/ Scan \/ ReadFails \/ Die

Spec == Init /\ [][Next]_vars

FairSpec == Spec /\ WF_vars(Scan)

-----------------------------------------------------------------------------
\* Some row has key i.
Filled(i) == \E r \in rows : r[1] = i

\* "Per-line indexes, and therefore record fingerprints, stay identical"
\* (source.rs:133-136): the record under a key is the record of that line,
\* however far the file grew during which scan.
RowsAreTheirLine == \A r \in rows : r[1] = r[2]

\* The claim holds, however the file grows under the reader and wherever scans
\* die, as long as no read has met a line half written and gone on in it.
UnsplitRowsAreTheirLine == ~ split => RowsAreTheirLine

\* What ScanStore takes from a read: once the file is known at some size, the
\* keys of all the lines it had at that size are stored, although the file
\* grew while it was read and earlier scans died half-way.
KnownLinesAreFilled == \A i \in 1 .. known.lines : Filled(i)

\* A failed read left the file out of the state map, and the fingerprint that
\* scan stored is still the tree's: until something changes no scan looks at it.
Overlooked == seen = {file} /\ known = Empty

\* When the tool has stopped writing, every line's key comes to be stored,
\* unless the last read failed and its fingerprint hides that (scanner.rs
\* 161-163).  A file that grows while it is read, and scans that die at any
\* point, are no such excuse.
EventuallyFilled == <>[](Overlooked \/ \A i \in 1 .. file.lines : Filled(i))

(***************************************************************************)
(* The inductive invariant.  The lines below the stat are complete before  *)
(* the read starts: the reader is never torn among them and line_idx is    *)
(* its line count there.                                                   *)
(***************************************************************************)
Position ==
    /\ stat.lines <= file.lines /\ at.lines <= file.lines
    /\ at.lines = file.lines => at.torn <= file.torn

PrefixInv ==
    pc = "read" =>
        /\ Position
        /\ at.lines < stat.lines => at.torn = 0 /\ idx = at.lines
        /\ \A i \in 1 .. stat.lines : i <= at.lines => Filled(i)

UnsplitInv ==
    ~ split => RowsAreTheirLine /\ (pc = "read" /\ at.torn = 0 => idx = at.lines)

ReadInv == TypeOK /\ PrefixInv /\ UnsplitInv /\ KnownLinesAreFilled

=============================================================================
