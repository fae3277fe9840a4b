-------------------------- MODULE LineReaderProofs --------------------------
(***************************************************************************)
(* LineReader for any number of lines, bytes and failures.                 *)
(***************************************************************************)
EXTENDS LineReader, TLAPS

\* The reader's position moves inside the file and its index counts on.
LEMMA TypeStep == TypeOK /\ PrefixInv /\ [Next]_vars => TypeOK'
<1> SUFFICES ASSUME TypeOK, PrefixInv, [Next]_vars PROVE TypeOK'
    OBVIOUS
<1> USE ConstantsAreTyped DEF TypeOK, Size, Line
<1>1. CASE Append
    BY <1>1 DEF Append
<1>7. CASE Elsewhere
    BY <1>7 DEF Elsewhere
<1>2. CASE Begin
    BY <1>2 DEF Begin
<1>8. CASE WalkFile
    BY <1>8 DEF WalkFile, Empty
<1>3. CASE ReadUntil
  <2>1. CASE at.lines < file.lines
    <3>1. at' = [lines |-> at.lines + 1, torn |-> 0]
        BY <1>3, <2>1 DEF ReadUntil
    <3>2. rows' \subseteq (Nat \ {0}) \X Line
        BY <1>3, <2>1 DEF ReadUntil, Emit
    <3> QED
        BY <1>3, <2>1, <3>1, <3>2 DEF ReadUntil
  <2>2. CASE ~ at.lines < file.lines
    <3>1. at' = file /\ at.lines = file.lines
        BY <1>3, <2>2 DEF ReadUntil
    <3>2. rows' \subseteq (Nat \ {0}) \X Line
        BY <1>3, <2>2 DEF ReadUntil, Emit
    <3> QED
        BY <1>3, <3>1, <3>2 DEF ReadUntil
  <2> QED
      BY <2>1, <2>2
<1>4. CASE EndOfFile
    BY <1>4 DEF EndOfFile
<1>5. CASE ReadFails
    BY <1>5 DEF ReadFails, Empty
<1>9. CASE Die
    BY <1>9 DEF Die
<1>6. CASE UNCHANGED vars
    BY <1>6 DEF vars
<1> QED
    BY <1>1, <1>2, <1>3, <1>4, <1>5, <1>6, <1>7, <1>8, <1>9 DEF Next, Scan

\* A key stays taken: rows are only added.
LEMMA FilledStays ==
    ASSUME [Next]_vars, NEW i \in Nat, Filled(i) PROVE Filled(i)'
BY DEF Next, Scan, vars, Append, Elsewhere, Begin, WalkFile, ReadUntil, EndOfFile, ReadFails,
       Die, Emit, Filled

\* The step that reads a line below the stat fills its key; every other step
\* keeps the reader's position among those lines.
LEMMA PrefixStep == TypeOK /\ PrefixInv /\ [Next]_vars => PrefixInv'
<1> SUFFICES ASSUME TypeOK, PrefixInv, [Next]_vars PROVE PrefixInv'
    OBVIOUS
<1>0. \A i \in Nat : Filled(i) => Filled(i)'
    BY FilledStays
<1> USE ConstantsAreTyped DEF TypeOK, Size, Line
<1>1. CASE Append
    BY <1>1, <1>0 DEF Append, PrefixInv, Position
<1>7. CASE Elsewhere
    BY <1>7 DEF Elsewhere, PrefixInv, Position, Filled
<1>2. CASE Begin
    BY <1>2 DEF Begin, PrefixInv
<1>8. CASE WalkFile
    BY <1>8 DEF WalkFile, PrefixInv, Position, Empty
<1>3. CASE ReadUntil
  <2>1. pc = "read" /\ pc' = "read" /\ Position /\ stat' = stat /\ file' = file
        /\ idx' = idx + 1
      BY <1>3 DEF ReadUntil, PrefixInv
  <2>2. CASE at.lines < file.lines
    <3>1. at' = [lines |-> at.lines + 1, torn |-> 0]
        BY <1>3, <2>2 DEF ReadUntil
    <3>2. Position'
        BY <2>1, <2>2, <3>1 DEF Position
    <3>3. at'.lines < stat'.lines => at'.torn = 0 /\ idx' = at'.lines
        BY <2>1, <3>1 DEF PrefixInv
    <3>4. ASSUME NEW n \in Nat, n = at.lines + 1, at.lines < stat.lines PROVE Filled(n)'
      <4>1. at.torn = 0 /\ idx = at.lines
          BY <2>1, <3>4 DEF PrefixInv
      <4>2. Emit(at.lines + 1)
          BY <1>3, <2>2, <4>1 DEF ReadUntil
      <4>3. CASE \E r \in rows : r[1] = n
          BY <4>1, <4>2, <4>3, <3>4 DEF Emit, Filled
      <4>4. CASE ~ \E r \in rows : r[1] = n
        <5>1. <<n, n>> \in rows'
            BY <4>1, <4>2, <4>4, <3>4 DEF Emit
        <5> QED
            BY <5>1 DEF Filled
      <4> QED
          BY <4>3, <4>4
    <3>5. \A i \in 1 .. stat'.lines : i <= at'.lines => Filled(i)'
      <4> SUFFICES ASSUME NEW i \in 1 .. stat.lines, i <= at.lines + 1 PROVE Filled(i)'
          BY <2>1, <3>1
      <4>1. CASE i <= at.lines
          BY <4>1, <1>0, <2>1 DEF PrefixInv
      <4>2. CASE i = at.lines + 1
          BY <4>2, <3>4, i \in Nat, at.lines < stat.lines
      <4> QED
          BY <4>1, <4>2
    <3> QED
        BY <2>1, <3>2, <3>3, <3>5 DEF PrefixInv
  <2>3. CASE ~ at.lines < file.lines
    <3>1. at' = file /\ at.lines = file.lines
        BY <1>3, <2>3 DEF ReadUntil
    <3> QED
        BY <2>1, <3>1, <1>0 DEF PrefixInv, Position
  <2> QED
      BY <2>2, <2>3
<1>4. CASE EndOfFile
    BY <1>4 DEF EndOfFile, PrefixInv
<1>5. CASE ReadFails
    BY <1>5 DEF ReadFails, PrefixInv
<1>9. CASE Die
    BY <1>9 DEF Die, PrefixInv
<1>6. CASE UNCHANGED vars
    BY <1>6 DEF vars, PrefixInv, Position, Filled
<1> QED
    BY <1>1, <1>2, <1>3, <1>4, <1>5, <1>6, <1>7, <1>8, <1>9 DEF Next, Scan

\* While no line comes in two pieces the index is the line's number.
LEMMA UnsplitStep == TypeOK /\ PrefixInv /\ UnsplitInv /\ [Next]_vars => UnsplitInv'
<1> SUFFICES ASSUME TypeOK, PrefixInv, UnsplitInv, [Next]_vars, ~ split' PROVE UnsplitInv'
    BY DEF UnsplitInv
<1>0. ~ split
    BY DEF Next, Scan, vars, Append, Elsewhere, Begin, WalkFile, ReadUntil, EndOfFile,
           ReadFails, Die, TypeOK
<1> USE <1>0, ConstantsAreTyped DEF TypeOK, Size, Line
<1>1. CASE Append
    BY <1>1 DEF Append, UnsplitInv, RowsAreTheirLine
<1>7. CASE Elsewhere
    BY <1>7 DEF Elsewhere, UnsplitInv, RowsAreTheirLine
<1>2. CASE Begin
    BY <1>2 DEF Begin, UnsplitInv, RowsAreTheirLine
<1>8. CASE WalkFile
    BY <1>8 DEF WalkFile, UnsplitInv, RowsAreTheirLine, Empty
<1>3. CASE ReadUntil
  <2>0. at.torn = 0
    <3>1. ~ at.torn > 0
        BY <1>3 DEF ReadUntil
    <3>2. at.torn \in Nat
        OBVIOUS
    <3> QED
        BY <3>1, <3>2
  <2>1. pc = "read" /\ at.torn = 0 /\ idx = at.lines /\ idx' = idx + 1 /\ RowsAreTheirLine
      BY <2>0, <1>3 DEF ReadUntil, UnsplitInv
  <2>2. RowsAreTheirLine'
      BY <1>3, <2>1 DEF ReadUntil, Emit, RowsAreTheirLine
  <2>3. CASE at' = [lines |-> at.lines + 1, torn |-> 0]
      BY <2>1, <2>2, <2>3 DEF UnsplitInv
  <2>4. CASE at.lines = file.lines /\ at' = file
    <3>1. at # file
        BY <1>3 DEF ReadUntil
    <3>2. at = [lines |-> at.lines, torn |-> at.torn]
          /\ file = [lines |-> file.lines, torn |-> file.torn]
        OBVIOUS
    <3>3. file.torn # 0
        BY <2>1, <2>4, <3>1, <3>2
    <3> QED
        BY <2>2, <2>4, <3>3 DEF UnsplitInv
  <2> QED
      BY <1>3, <2>3, <2>4 DEF ReadUntil
<1>4. CASE EndOfFile
    BY <1>4 DEF EndOfFile, UnsplitInv, RowsAreTheirLine
<1>5. CASE ReadFails
    BY <1>5 DEF ReadFails, UnsplitInv, RowsAreTheirLine
<1>9. CASE Die
    BY <1>9 DEF Die, UnsplitInv, RowsAreTheirLine
<1>6. CASE UNCHANGED vars
    BY <1>6 DEF vars, UnsplitInv, RowsAreTheirLine
<1> QED
    BY <1>1, <1>2, <1>3, <1>4, <1>5, <1>6, <1>7, <1>8, <1>9 DEF Next, Scan

\* At the end of the file the reader is past every line the stat counted.
LEMMA KnownStep ==
    TypeOK /\ PrefixInv /\ KnownLinesAreFilled /\ [Next]_vars => KnownLinesAreFilled'
<1> SUFFICES ASSUME TypeOK, PrefixInv, KnownLinesAreFilled, [Next]_vars
             PROVE  KnownLinesAreFilled'
    OBVIOUS
<1>0. \A i \in Nat : Filled(i) => Filled(i)'
    BY FilledStays
<1>1. CASE known' = stat /\ at = file /\ pc = "read"
  <2>1. \A i \in 1 .. stat.lines : Filled(i)
      BY <1>1, ConstantsAreTyped DEF PrefixInv, Position, TypeOK, Size
  <2> QED
      BY <1>1, <2>1, <1>0, ConstantsAreTyped DEF KnownLinesAreFilled, TypeOK, Size
<1>2. CASE known' = Empty
    BY <1>2 DEF KnownLinesAreFilled, Empty
<1>3. CASE known' = known
    BY <1>3, <1>0, ConstantsAreTyped DEF KnownLinesAreFilled, TypeOK, Size
<1>4. (known' = stat /\ at = file /\ pc = "read") \/ known' = Empty \/ known' = known
    BY DEF Next, Scan, vars, Append, Elsewhere, Begin, WalkFile, ReadUntil, EndOfFile,
           ReadFails, Die
<1> QED
    BY <1>1, <1>2, <1>3, <1>4

\* Nothing is stored, known or being read at the start.
LEMMA InitRead == Init => ReadInv
<1> SUFFICES ASSUME Init PROVE ReadInv
    OBVIOUS
<1>1. TypeOK
  <2>1. Empty \in Size /\ ~ Empty.torn > 0
      BY ConstantsAreTyped DEF Empty, Size
  <2>2. /\ file = Empty /\ known = Empty /\ stat = Empty /\ at = Empty
        /\ seen = {} /\ print = {}
      BY DEF Init
  <2>3. rows \subseteq (Nat \ {0}) \X Line /\ idx \in Nat /\ faults \in 0 .. MaxFaults
      BY ConstantsAreTyped DEF Init
  <2>4. pc \in {"idle", "walk", "read"} /\ split \in BOOLEAN
      BY DEF Init
  <2> QED
      BY <2>1, <2>2, <2>3, <2>4 DEF TypeOK
<1>2. PrefixInv /\ KnownLinesAreFilled
    BY DEF Init, Empty, PrefixInv, KnownLinesAreFilled
<1>3. UnsplitInv
    BY DEF Init, UnsplitInv, RowsAreTheirLine
<1> QED
    BY <1>1, <1>2, <1>3 DEF ReadInv

\* The invariant of the reader holds throughout.
THEOREM ReadInvCorrect == Spec => []ReadInv
<1>1. Init => ReadInv
    BY InitRead
<1>2. ReadInv /\ [Next]_vars => ReadInv'
    BY TypeStep, PrefixStep, UnsplitStep, KnownStep DEF ReadInv
<1> QED
    BY <1>1, <1>2, PTL DEF Spec

\* However the file grows while it is read, and wherever scans die, a file
\* known at some size has a row under the key of each line it had then
\* (source.rs scan_roots_inner with for_each_line).
THEOREM KnownLinesCorrect == Spec => []KnownLinesAreFilled
<1>1. ReadInv => KnownLinesAreFilled
    BY DEF ReadInv
<1> QED
    BY <1>1, ReadInvCorrect, PTL

\* Until a line is read in two pieces, for_each_line numbers a line the same
\* in every scan: a key never holds another line's record.
THEOREM RowsCorrect == Spec => []UnsplitRowsAreTheirLine
<1>1. ReadInv => UnsplitRowsAreTheirLine
    BY DEF ReadInv, UnsplitInv, UnsplitRowsAreTheirLine
<1> QED
    BY <1>1, ReadInvCorrect, PTL
=============================================================================
