--------------------------- MODULE ScanStoreProofs ---------------------------
(***************************************************************************)
(* Proofs about ScanStore, for any set of files, any number of processes   *)
(* and any bounds.                                                         *)
(***************************************************************************)
EXTENDS ScanStore, TLAPS, FiniteSetTheorems, WellFoundedInduction

\* A stat in a state map is one a walk took, or none.
LEMMA NoCurType == NoCur \in [path : Path, stat : Stat \cup {NoFile},
                              upto : 0 .. MaxBytes, line : 0 .. MaxBytes]
  <1>1. (CHOOSE p \in Path : TRUE) \in Path
    BY ConstantsAreTyped
  <1> QED
    BY <1>1, ConstantsAreTyped DEF NoCur

\* A line the reader reaches is a line of the file: its number fits.
LEMMA LineFits ==
  ASSUME NEW n \in 0 .. MaxBytes, NEW i \in Nat, i < Lines(n)
  PROVE  i + 1 \in 1 .. MaxBytes
  BY ConstantsAreTyped DEF Lines, LineBytes

\* A step keeps the types.
LEMMA TypeStep ==
  ASSUME TypeOK, [Next]_vars
  PROVE  TypeOK'
  <1> USE DEF TypeOK, fileVars, dbVars, walkVars, readVars
  <1>a. Nothing \in Snapshot
    BY DEF Nothing, Snapshot
  <1>b. ASSUME NEW s \in Process, Return(s)
        PROVE  /\ pc' \in [Process -> Phase]
               /\ seen' \in [Process -> Snapshot] /\ todo' \in [Process -> SUBSET Path]
               /\ known' \in [Process -> Snapshot] /\ fresh' \in [Process -> Snapshot]
               /\ cur' \in [Process -> [path : Path, stat : Stat \cup {NoFile},
                                        upto : 0 .. MaxBytes, line : 0 .. MaxBytes]]
               /\ batch' \in [Process -> SUBSET Record]
               /\ touched' \in [Process -> SUBSET Project]
               /\ flushErr' \in [Process -> BOOLEAN]
    <2>1. cur' \in [Process -> [path : Path, stat : Stat \cup {NoFile},
                                upto : 0 .. MaxBytes, line : 0 .. MaxBytes]]
      BY <1>b, NoCurType DEF Return
    <2> QED
      BY <2>1, <1>b, <1>a DEF Return, Phase
  <1>c. ASSUME NEW p \in Path
        PROVE tree[p] \in Stat \cup {NoFile}
    BY DEF Snapshot
  <1>2. ASSUME NEW p \in Path, Write(p) PROVE TypeOK'
    <2>0. clock' \in 0 .. MaxClock
      BY <1>2, ConstantsAreTyped DEF Write
    <2>1. PICK st \in Stat : tree' = [tree EXCEPT ![p] = st]
      <3>1. CASE tree[p] = NoFile /\ tree' = [tree EXCEPT ![p] = [mtime |-> clock', size |-> 0]]
        <4>1. [mtime |-> clock', size |-> 0] \in Stat
          BY <2>0, ConstantsAreTyped DEF Stat
        <4> QED
          BY <3>1, <4>1
      <3>2. CASE /\ tree[p] # NoFile /\ tree[p].size < MaxBytes
                 /\ tree' = [tree EXCEPT ![p] = [mtime |-> clock', size |-> tree[p].size + 1]]
        <4>1. tree[p].size \in 0 .. MaxBytes
          BY <3>2, <1>c DEF Stat
        <4>2. [mtime |-> clock', size |-> tree[p].size + 1] \in Stat
          BY <2>0, <3>2, <4>1, ConstantsAreTyped DEF Stat
        <4> QED
          BY <3>2, <4>2
      <3> QED
        BY <1>2, <3>1, <3>2 DEF Write
    <2>2. tree' \in Snapshot
      BY <2>1 DEF Snapshot
    <2> QED
      BY <2>0, <2>2, <1>2 DEF Write
  <1>3. ASSUME NEW p \in Path, Remove(p) PROVE TypeOK'
    BY <1>3 DEF Remove, Snapshot
  <1>4. ASSUME NEW s \in Process, Begin(s) PROVE TypeOK'
    BY <1>4 DEF Begin, Phase
  <1>5. ASSUME NEW s \in Process, NEW p \in Path, StatFile(s, p) PROVE TypeOK'
    BY <1>5 DEF StatFile, Snapshot
  <1>6. ASSUME NEW s \in Process, SkipUnchanged(s) PROVE TypeOK'
    BY <1>6, <1>b DEF SkipUnchanged
  <1>7. ASSUME NEW s \in Process, FingerprintChanged(s) PROVE TypeOK'
    BY <1>7 DEF FingerprintChanged, Phase
  <1>8. ASSUME NEW s \in Process, LoadStates(s) PROVE TypeOK'
    BY <1>8, <1>a DEF LoadStates, Phase
  <1>9. ASSUME NEW s \in Process, NEW p \in Path, WalkFile(s, p) PROVE TypeOK'
    <2>1. fresh' \in [Process -> Snapshot]
      <3>1. CASE fresh' = fresh
        BY <3>1
      <3>2. CASE fresh' = [fresh EXCEPT ![s][p] = tree[p]]
        BY <3>2, <1>c DEF Snapshot
      <3> QED
        BY <1>9, <3>1, <3>2 DEF WalkFile
    <2>2. 0 \in 0 .. MaxBytes
      BY ConstantsAreTyped
    <2>3. cur' \in [Process -> [path : Path, stat : Stat \cup {NoFile},
                                upto : 0 .. MaxBytes, line : 0 .. MaxBytes]]
      BY <1>9, <1>c, <2>2 DEF WalkFile
    <2> QED
      BY <1>9, <2>1, <2>3 DEF WalkFile, Phase
  <1>10. ASSUME NEW s \in Process, OpenFile(s) PROVE TypeOK'
    <2>1. tree[cur[s].path].size \in 0 .. MaxBytes
      BY <1>10, <1>c DEF OpenFile, Stat
    <2> QED
      BY <1>10, <2>1 DEF OpenFile, Phase
  <1>11. ASSUME NEW s \in Process, Emit(s) PROVE TypeOK'
    <2> DEFINE r == <<cur[s].path, cur[s].line + 1>>
    <2>1. cur[s].line + 1 \in 1 .. MaxBytes
      BY <1>11, LineFits, ConstantsAreTyped DEF Emit
    <2>2. r \in Record
      BY <2>1 DEF Record
    <2>3. batch[s] \cup {r} \subseteq Record
      BY <2>2
    <2>4. rows' \subseteq Record /\ batch' \in [Process -> SUBSET Record]
      BY <1>11, <2>3 DEF Emit
    <2>5. cur' \in [Process -> [path : Path, stat : Stat \cup {NoFile},
                                upto : 0 .. MaxBytes, line : 0 .. MaxBytes]]
      BY <1>11, <2>1, ConstantsAreTyped DEF Emit
    <2>6. touched' \in [Process -> SUBSET Project]
      BY <1>11, ConstantsAreTyped DEF Emit
    <2>7. flushErr' = flushErr \/ flushErr' = [flushErr EXCEPT ![s] = TRUE]
      BY <1>11 DEF Emit
    <2>8. flushErr' \in [Process -> BOOLEAN]
      BY <2>7
    <2>9. faults' \in 0 .. MaxFaults
      BY <1>11, ConstantsAreTyped DEF Emit
    <2> QED
      BY <1>11, <2>4, <2>5, <2>6, <2>8, <2>9 DEF Emit
  <1>12. ASSUME NEW s \in Process, EndOfFile(s) PROVE TypeOK'
    <2>1. fresh' \in [Process -> Snapshot]
      BY <1>12 DEF EndOfFile, Snapshot
    <2> QED
      BY <1>12, <2>1, NoCurType DEF EndOfFile, Phase
  <1>13. ASSUME NEW s \in Process, ReadFails(s) PROVE TypeOK'
    BY <1>13, NoCurType DEF ReadFails, Phase
  <1>14. ASSUME NEW s \in Process, EndWalk(s) PROVE TypeOK'
    BY <1>14, <1>b DEF EndWalk, Phase
  <1>15. ASSUME NEW s \in Process, InsertRest(s) PROVE TypeOK'
    BY <1>15 DEF InsertRest, Phase
  <1>16. ASSUME NEW s \in Process, UpsertProject(s) PROVE TypeOK'
    BY <1>16 DEF UpsertProject
  <1>17. ASSUME NEW s \in Process, SaveStates(s) PROVE TypeOK'
    BY <1>17 DEF SaveStates, Phase
  <1>18. ASSUME NEW s \in Process, SaveFingerprint(s) PROVE TypeOK'
    BY <1>18, <1>b DEF SaveFingerprint, Fingerprints
  <1>19. ASSUME NEW s \in Process, Abort(s) PROVE TypeOK'
    BY <1>19, <1>b, ConstantsAreTyped DEF Abort
  <1>20. CASE UNCHANGED vars
    BY <1>20 DEF vars
  <1> QED
    BY <1>2, <1>3, <1>4, <1>5, <1>6, <1>7, <1>8, <1>9, <1>10, <1>11, <1>12, <1>13,
       <1>14, <1>15, <1>16, <1>17, <1>18, <1>19, <1>20 DEF Next, Scan

\* The first launch starts from typed values: no file, no row, no state.
LEMMA InitTyped == Init => TypeOK
  <1> SUFFICES ASSUME Init PROVE TypeOK
    OBVIOUS
  <1>1. Nothing \in Snapshot
    BY DEF Nothing, Snapshot
  <1> QED
    BY <1>1, NoCurType, ConstantsAreTyped DEF Init, TypeOK, Phase

\* Every state of the pipeline is well typed.
THEOREM TypeCorrect == Spec => []TypeOK
  BY InitTyped, TypeStep, PTL DEF Spec

-----------------------------------------------------------------------------
(***************************************************************************)
(* What a step leaves alone.                                               *)
(***************************************************************************)
\* The locals of process t stay as they are.
Kept(t) ==
    /\ pc'[t] = pc[t] /\ seen'[t] = seen[t] /\ todo'[t] = todo[t]
    /\ known'[t] = known[t] /\ fresh'[t] = fresh[t] /\ cur'[t] = cur[t]
    /\ batch'[t] = batch[t] /\ touched'[t] = touched[t] /\ flushErr'[t] = flushErr[t]

\* The locals of process t are those of a process that is not scanning.
Reset(t) ==
    /\ pc'[t] = "idle" /\ seen'[t] = Nothing /\ todo'[t] = {}
    /\ known'[t] = Nothing /\ fresh'[t] = Nothing /\ cur'[t] = NoCur
    /\ batch'[t] = {} /\ touched'[t] = {} /\ flushErr'[t] = FALSE

\* The database only gains rows and projects.
Gains == rows \subseteq rows' /\ projects \subseteq projects'

\* scan_one returning resets its process and no other.
LEMMA ReturnResets ==
  ASSUME TypeOK, NEW s \in Process, Return(s)
  PROVE  Reset(s) /\ \A t \in Process \ {s} : Kept(t)
  BY DEF TypeOK, Return, Reset, Kept

\* A step of one scan touches no file, no other scan, and takes nothing out
\* of the database.
LEMMA ScanKeepsOthers ==
  ASSUME TypeOK, NEW s \in Process, Scan(s) \/ Abort(s)
  PROVE  tree' = tree /\ Gains /\ \A t \in Process \ {s} : Kept(t)
  <1> USE DEF fileVars, dbVars, walkVars, readVars, Gains
  <1>1. CASE Begin(s)
    BY <1>1 DEF Begin, TypeOK, Kept
  <1>2. CASE SkipUnchanged(s)
    BY <1>2, ReturnResets DEF SkipUnchanged
  <1>3. CASE FingerprintChanged(s)
    BY <1>3 DEF FingerprintChanged, TypeOK, Kept
  <1>4. CASE LoadStates(s)
    BY <1>4 DEF LoadStates, TypeOK, Kept
  <1>5. ASSUME NEW p \in Path, StatFile(s, p) PROVE tree' = tree /\ Gains /\ \A t \in Process \ {s} : Kept(t)
    BY <1>5 DEF StatFile, TypeOK, Kept
  <1>6. ASSUME NEW p \in Path, WalkFile(s, p) PROVE tree' = tree /\ Gains /\ \A t \in Process \ {s} : Kept(t)
    BY <1>6 DEF WalkFile, TypeOK, Kept
  <1>7. CASE OpenFile(s)
    BY <1>7 DEF OpenFile, TypeOK, Kept
  <1>8. CASE Emit(s)
    BY <1>8 DEF Emit, TypeOK, Kept
  <1>9. CASE EndOfFile(s)
    BY <1>9 DEF EndOfFile, TypeOK, Kept
  <1>10. CASE ReadFails(s)
    BY <1>10 DEF ReadFails, TypeOK, Kept
  <1>11. CASE EndWalk(s)
    <2>1. CASE Return(s)
      BY <1>11, <2>1, ReturnResets DEF EndWalk
    <2>2. CASE ~ flushErr[s]
      BY <1>11, <2>2 DEF EndWalk, TypeOK, Kept
    <2> QED
      BY <1>11, <2>1, <2>2 DEF EndWalk
  <1>12. CASE InsertRest(s)
    BY <1>12 DEF InsertRest, TypeOK, Kept
  <1>13. CASE UpsertProject(s)
    BY <1>13 DEF UpsertProject, TypeOK, Kept
  <1>14. CASE SaveStates(s)
    BY <1>14 DEF SaveStates, TypeOK, Kept
  <1>15. CASE SaveFingerprint(s)
    BY <1>15, ReturnResets DEF SaveFingerprint
  <1>16. CASE Abort(s)
    BY <1>16, ReturnResets DEF Abort
  <1> QED
    BY <1>1, <1>2, <1>3, <1>4, <1>5, <1>6, <1>7, <1>8, <1>9, <1>10, <1>11, <1>12, <1>13,
       <1>14, <1>15, <1>16 DEF Scan

\* The files that are never removed only grow.
LEMMA FilesGrow ==
  ASSUME TypeOK, [Next]_vars, NEW p \in Path \ Deletable, tree[p] # NoFile
  PROVE  tree'[p] # NoFile /\ tree[p].size <= tree'[p].size
  <1>0. tree[p] \in Stat /\ tree[p].size \in Nat
    BY DEF TypeOK, Snapshot, Stat
  <1>1. CASE tree' = tree
    BY <1>0, <1>1
  <1>2. ASSUME NEW q \in Path, Write(q)
        PROVE tree'[p] # NoFile /\ tree[p].size <= tree'[p].size
    <2>1. CASE q # p
      <3>1. tree'[p] = tree[p]
        BY <1>2, <2>1 DEF Write, TypeOK, Snapshot
      <3> QED
        BY <3>1, <1>0
    <2>2. CASE q = p
      <3>1. tree'[p] = [mtime |-> clock', size |-> tree[p].size + 1] /\ tree[p].size < MaxBytes
        BY <1>2, <2>2 DEF Write, TypeOK, Snapshot
      <3>2. tree'[p] \in Stat
        BY <1>0, <1>2, <3>1, ConstantsAreTyped DEF Stat, TypeOK, Write
      <3> QED
        BY <1>0, <3>1, <3>2, ConstantsAreTyped
    <2> QED
      BY <2>1, <2>2
  <1>3. ASSUME NEW q \in Path, Remove(q)
        PROVE tree'[p] # NoFile /\ tree[p].size <= tree'[p].size
    <2>1. tree'[p] = tree[p]
      BY <1>3 DEF Remove, TypeOK, Snapshot
    <2> QED
      BY <2>1, <1>0
  <1>5. CASE \E s \in Process : Scan(s) \/ Abort(s)
    BY <1>1, <1>5, ScanKeepsOthers
  <1>6. CASE UNCHANGED vars
    BY <1>1, <1>6 DEF vars, fileVars
  <1> QED
    BY <1>2, <1>3, <1>5, <1>6 DEF Next

-----------------------------------------------------------------------------
(***************************************************************************)
(* KnownInv is inductive.                                                  *)
(***************************************************************************)
\* A file's records at a stat are among its records at a later one.
LEMMA RecordsGrow ==
  ASSUME NEW p, NEW m \in Nat, NEW n \in Nat, m <= n
  PROVE  RecordsIn(p, m) \subseteq RecordsIn(p, n)
  BY DEF RecordsIn, Lines, LineBytes

\* The numbers the invariant compares.
LEMMA Sizes ==
  ASSUME TypeOK
  PROVE  /\ \A p \in Path : tree[p] # NoFile => tree[p].size \in Nat
         /\ \A p \in Path : storedStates[p] # NoFile => storedStates[p].size \in Nat
         /\ \A s \in Process :
              /\ cur[s].path \in Path /\ cur[s].upto \in Nat /\ cur[s].line \in Nat
              /\ cur[s].stat # NoFile => cur[s].stat.size \in Nat
              /\ \A p \in Path :
                   /\ seen[s][p] # NoFile => seen[s][p].size \in Nat
                   /\ known[s][p] # NoFile => known[s][p].size \in Nat
                   /\ fresh[s][p] # NoFile => fresh[s][p].size \in Nat
  <1>1. \A f \in Snapshot, p \in Path : f[p] # NoFile => f[p].size \in Nat
    BY DEF Snapshot, Stat
  <1>2. \A st \in Stat : st.size \in Nat
    BY DEF Stat
  <1> QED
    BY <1>1, <1>2 DEF TypeOK

\* What process t has secured is not undone by a step of anybody else.
LEMMA BystanderKnown ==
  ASSUME TypeOK, [Next]_vars, NEW t \in Process, Kept(t), Gains, ReaderInv(t), ProcessInv(t)
  PROVE  ReaderInv(t)' /\ ProcessInv(t)'
  <1>1. ReaderInv(t)'
    <2>1. cur[t].path \in Path
      BY Sizes
    <2>2. ASSUME cur[t].path \notin Deletable, tree[cur[t].path] # NoFile, cur[t].stat # NoFile,
                 cur[t].stat.size <= tree[cur[t].path].size
          PROVE  tree'[cur[t].path] # NoFile /\ cur[t].stat.size <= tree'[cur[t].path].size
      <3>1. tree'[cur[t].path] # NoFile /\ tree[cur[t].path].size <= tree'[cur[t].path].size
        BY <2>1, <2>2, FilesGrow
      <3>2. TypeOK'
        BY TypeStep
      <3>3. tree'[cur[t].path].size \in Nat
        BY <3>1, <3>2, <2>1, Sizes DEF TypeOK, Snapshot, Stat
      <3> QED
        BY <2>1, <2>2, <3>1, <3>3, Sizes
    <2> QED
      BY <2>2 DEF ReaderInv, Kept, Gains
  <1>2. ProcessInv(t)'
    BY DEF ProcessInv, HeldAt, GatheredAt, Kept, Gains
  <1> QED
    BY <1>1, <1>2

\* A process that is not scanning has nothing to secure.
LEMMA ResetKnown ==
  ASSUME NEW s \in Process, Reset(s)
  PROVE  ReaderInv(s)' /\ ProcessInv(s)'
  BY DEF Reset, ReaderInv, ProcessInv, Nothing

\* Each statement of scan_one leaves its own process secured and the stored
\* state map true.
LEMMA ScannerKnown ==
  ASSUME TypeOK, KnownInv, NEW s \in Process, Scan(s) \/ Abort(s)
  PROVE  KnownFilesAreHeld' /\ ReaderInv(s)' /\ ProcessInv(s)'
  <1> DEFINE Goal == KnownFilesAreHeld' /\ ReaderInv(s)' /\ ProcessInv(s)'
  <1> USE DEF fileVars, dbVars, walkVars, readVars
  <1>a. KnownFilesAreHeld /\ ReaderInv(s) /\ ProcessInv(s)
    BY DEF KnownInv
  <1>b. tree' = tree /\ Gains
    BY ScanKeepsOthers
  <1>c. storedStates' = storedStates => KnownFilesAreHeld'
    BY <1>a, <1>b DEF KnownFilesAreHeld, HeldAt, Gains
  <1>d. ASSUME Return(s), UNCHANGED storedStates PROVE Goal
    BY <1>c, <1>d, ReturnResets, ResetKnown
  <1>1. CASE Begin(s)
    BY <1>1, <1>a, <1>c DEF Begin, TypeOK, ReaderInv, ProcessInv, HeldAt, GatheredAt
  <1>2. CASE SkipUnchanged(s)
    BY <1>2, <1>d DEF SkipUnchanged
  <1>3. CASE FingerprintChanged(s)
    BY <1>3, <1>a, <1>c DEF FingerprintChanged, TypeOK, ReaderInv, ProcessInv, HeldAt, GatheredAt
  <1>4. CASE LoadStates(s)
    <2>1. known'[s] = storedStates \/ known'[s] = Nothing
      BY <1>4 DEF LoadStates, TypeOK
    <2>2. ProcessInv(s)'
      BY <1>4, <2>1, <1>a DEF LoadStates, TypeOK, ProcessInv, HeldAt, GatheredAt,
                               KnownFilesAreHeld, Nothing
    <2>3. ReaderInv(s)'
      BY <1>4 DEF LoadStates, TypeOK, ReaderInv
    <2> QED
      BY <2>2, <2>3, <1>4, <1>c DEF LoadStates
  <1>5. ASSUME NEW p \in Path, StatFile(s, p) PROVE Goal
    BY <1>5, <1>a, <1>c DEF StatFile, TypeOK, ReaderInv, ProcessInv, HeldAt, GatheredAt
  <1>6. ASSUME NEW p \in Path, WalkFile(s, p) PROVE Goal
    <2>0. /\ UNCHANGED <<tree, rows, projects, storedStates, known, batch, touched, flushErr>>
          /\ pc[s] = "walk"
      BY <1>6 DEF WalkFile
    <2>1. CASE UNCHANGED <<pc, fresh, cur>>
      BY <2>0, <2>1, <1>a, <1>c DEF ReaderInv, ProcessInv, HeldAt, GatheredAt
    <2>2. CASE /\ Visible(tree[p]) /\ known[s][p] = tree[p]
               /\ fresh' = [fresh EXCEPT ![s][p] = tree[p]] /\ UNCHANGED <<pc, cur>>
      <3>1. fresh'[s] = [fresh[s] EXCEPT ![p] = known[s][p]] /\ known[s][p] # NoFile
        BY <2>2 DEF Visible, TypeOK
      <3>2. ASSUME NEW q \in Path \ Deletable, fresh'[s][q] # NoFile, ~ flushErr[s]
            PROVE  GatheredAt(s, q, fresh'[s][q])
        <4>1. CASE q = p
          BY <4>1, <3>1, <1>a DEF ProcessInv, HeldAt, GatheredAt, TypeOK, Snapshot
        <4>2. CASE q # p
          BY <4>2, <3>1, <3>2, <1>a DEF ProcessInv, TypeOK, Snapshot
        <4> QED
          BY <4>1, <4>2
      <3>3. ProcessInv(s)'
        BY <2>0, <2>2, <3>2, <1>a DEF ProcessInv, HeldAt, GatheredAt
      <3>4. ReaderInv(s)'
        BY <2>0, <2>2 DEF ReaderInv
      <3> QED
        BY <3>3, <3>4, <2>0, <1>c
    <2>3. CASE /\ Visible(tree[p])
               /\ cur' = [cur EXCEPT ![s] = [path |-> p, stat |-> tree[p], upto |-> 0, line |-> 0]]
               /\ pc' = [pc EXCEPT ![s] = "open"] /\ UNCHANGED fresh
      <3>1. pc'[s] = "open" /\ cur'[s].path = p /\ cur'[s].stat = tree[p] /\ cur'[s].line = 0
        BY <2>3 DEF TypeOK
      <3>2. ReaderInv(s)'
        BY <3>1, <2>0, <2>3, Sizes DEF ReaderInv, Visible
      <3>3. ProcessInv(s)'
        BY <3>1, <2>0, <2>3, <1>a DEF ProcessInv, HeldAt, GatheredAt
      <3> QED
        BY <3>2, <3>3, <2>0, <1>c
    <2> QED
      BY <1>6, <2>1, <2>2, <2>3 DEF WalkFile
  <1>7. CASE OpenFile(s)
    <2>1. /\ pc[s] = "open" /\ pc'[s] = "read" /\ cur'[s].path = cur[s].path
          /\ cur'[s].stat = cur[s].stat /\ cur'[s].line = cur[s].line
          /\ cur'[s].upto = tree[cur[s].path].size
      BY <1>7 DEF OpenFile, TypeOK
    <2>2. ReaderInv(s)'
      BY <2>1, <1>7, <1>a DEF OpenFile, ReaderInv, RecordsIn
    <2>3. ProcessInv(s)'
      BY <2>1, <1>7, <1>a DEF OpenFile, ProcessInv, HeldAt, GatheredAt
    <2> QED
      BY <2>2, <2>3, <1>7, <1>c DEF OpenFile
  <1>8. CASE Emit(s)
    <2> DEFINE r == <<cur[s].path, cur[s].line + 1>>
               filled == batch[s] \cup {r}
    <2>1. /\ pc[s] = "read" /\ pc'[s] = "read" /\ cur[s].line \in Nat
          /\ cur'[s].path = cur[s].path /\ cur'[s].stat = cur[s].stat
          /\ cur'[s].upto = cur[s].upto /\ cur'[s].line = cur[s].line + 1
          /\ touched'[s] = touched[s] \cup {ProjectOf[cur[s].path]}
          /\ UNCHANGED <<projects, storedStates, known, fresh>>
      BY <1>8, Sizes DEF Emit, TypeOK
    <2>2. flushErr'[s] \in BOOLEAN /\ (~ flushErr'[s] => ~ flushErr[s])
      BY <1>8, TypeStep DEF Emit, TypeOK
    <2>3. ~ flushErr'[s] => rows' \cup batch'[s] = rows \cup batch[s] \cup {r}
      BY <1>8 DEF Emit, TypeOK
    <2>4. ReaderInv(s)'
      <3>1. \A i \in 1 .. cur'[s].line : i \in 1 .. cur[s].line \/ i = cur[s].line + 1
        BY <2>1
      <3> QED
        BY <2>1, <2>2, <2>3, <3>1, <1>a, <1>b DEF ReaderInv
    <2>5. ProcessInv(s)'
      <3>1. \A p \in Path \ Deletable : known'[s][p] # NoFile => HeldAt(p, known[s][p])'
        BY <2>1, <1>a, <1>b DEF ProcessInv, HeldAt, Gains
      <3>2. \A p \in Path \ Deletable :
              fresh'[s][p] # NoFile /\ ~ flushErr'[s] => GatheredAt(s, p, fresh[s][p])'
        BY <2>1, <2>2, <2>3, <1>a DEF ProcessInv, GatheredAt
      <3> QED
        BY <2>1, <3>1, <3>2 DEF ProcessInv
    <2> QED
      BY <2>1, <2>4, <2>5, <1>c
  <1>9. CASE EndOfFile(s)
    <2>1. /\ pc[s] = "read" /\ pc'[s] = "walk" /\ cur[s].line >= Lines(cur[s].upto)
          /\ fresh'[s] = [fresh[s] EXCEPT ![cur[s].path] = cur[s].stat]
          /\ UNCHANGED <<rows, projects, storedStates, known, batch, touched, flushErr>>
      BY <1>9 DEF EndOfFile, TypeOK
    <2>2. ASSUME cur[s].path \notin Deletable, ~ flushErr[s]
          PROVE  GatheredAt(s, cur[s].path, cur[s].stat)
      <3> DEFINE p == cur[s].path  st == cur[s].stat
      <3>1. st.size <= cur[s].upto /\ st.size \in Nat /\ cur[s].upto \in Nat /\ cur[s].line \in Nat
        BY <2>1, <2>2, <1>a, Sizes DEF ReaderInv
      <3>2. Lines(st.size) <= cur[s].line /\ Lines(st.size) \in Nat
        BY <2>1, <3>1 DEF Lines, LineBytes
      <3>3. \A i \in 1 .. Lines(st.size) : i \in 1 .. cur[s].line /\ cur[s].line > 0
        BY <3>1, <3>2
      <3> QED
        BY <2>1, <2>2, <3>3, <1>a DEF ReaderInv, GatheredAt, RecordsIn
    <2>3. ASSUME NEW q \in Path \ Deletable, fresh'[s][q] # NoFile, ~ flushErr[s]
          PROVE  GatheredAt(s, q, fresh'[s][q])
      <3>1. CASE q = cur[s].path
        BY <3>1, <2>1, <2>2, <2>3 DEF TypeOK, Snapshot
      <3>2. CASE q # cur[s].path
        BY <3>2, <2>1, <2>3, <1>a DEF ProcessInv, TypeOK, Snapshot
      <3> QED
        BY <3>1, <3>2
    <2>4. ProcessInv(s)'
      BY <2>1, <2>3, <1>a DEF ProcessInv, HeldAt, GatheredAt
    <2>5. ReaderInv(s)'
      BY <2>1 DEF ReaderInv
    <2> QED
      BY <2>1, <2>4, <2>5, <1>c
  <1>10. CASE ReadFails(s)
    BY <1>10, <1>a, <1>c DEF ReadFails, TypeOK, ReaderInv, ProcessInv, HeldAt, GatheredAt
  <1>11. CASE EndWalk(s)
    <2>1. CASE Return(s)
      BY <1>11, <2>1, <1>d DEF EndWalk
    <2>2. CASE /\ ~ flushErr[s] /\ pc' = [pc EXCEPT ![s] = "insert"]
               /\ UNCHANGED <<walkVars, readVars>>
      BY <1>11, <2>2, <1>a, <1>c DEF EndWalk, TypeOK, ReaderInv, ProcessInv, HeldAt, GatheredAt
    <2> QED
      BY <1>11, <2>1, <2>2 DEF EndWalk
  <1>12. CASE InsertRest(s)
    <2>1. /\ pc[s] = "insert" /\ pc'[s] = "projects" /\ batch'[s] = {}
          /\ rows' = rows \cup batch[s]
          /\ UNCHANGED <<projects, storedStates, known, fresh, touched, flushErr>>
      BY <1>12 DEF InsertRest, TypeOK
    <2> QED
      BY <2>1, <1>a, <1>c DEF ReaderInv, ProcessInv, HeldAt, GatheredAt
  <1>13. CASE UpsertProject(s)
    <2>1. /\ pc[s] = "projects" /\ pc'[s] = "projects"
          /\ projects' \cup touched'[s] = projects \cup touched[s] /\ projects \subseteq projects'
          /\ UNCHANGED <<rows, storedStates, known, fresh, batch, flushErr>>
      BY <1>13 DEF UpsertProject, TypeOK
    <2> QED
      BY <2>1, <1>a, <1>c DEF ReaderInv, ProcessInv, HeldAt, GatheredAt
  <1>14. CASE SaveStates(s)
    <2>1. /\ pc[s] = "projects" /\ pc'[s] = "fingerprint" /\ touched[s] = {}
          /\ storedStates' = fresh[s] \/ storedStates' = storedStates
          /\ UNCHANGED <<rows, projects, known, fresh, batch, touched, flushErr>>
      BY <1>14 DEF SaveStates, TypeOK
    <2>2. batch[s] = {} /\ ~ flushErr[s]
      BY <2>1, <1>a DEF ProcessInv
    <2>3. \A p \in Path \ Deletable : fresh[s][p] # NoFile => HeldAt(p, fresh[s][p])
      BY <2>1, <2>2, <1>a DEF ProcessInv, GatheredAt, HeldAt
    <2>4. KnownFilesAreHeld'
      BY <2>1, <2>3, <1>a DEF KnownFilesAreHeld, HeldAt
    <2>5. ReaderInv(s)' /\ ProcessInv(s)'
      BY <2>1, <2>2, <1>a DEF ReaderInv, ProcessInv, HeldAt, GatheredAt
    <2> QED
      BY <2>4, <2>5
  <1>15. CASE SaveFingerprint(s)
    BY <1>15, <1>d DEF SaveFingerprint
  <1>16. CASE Abort(s)
    BY <1>16, <1>d DEF Abort
  <1> QED
    BY <1>1, <1>2, <1>3, <1>4, <1>5, <1>6, <1>7, <1>8, <1>9, <1>10, <1>11, <1>12, <1>13,
       <1>14, <1>15, <1>16 DEF Scan

\* A step of one scan, of another process or of the tool keeps KnownInv.
LEMMA KnownStep ==
  ASSUME TypeOK, KnownInv, [Next]_vars
  PROVE  KnownInv'
  <1>1. ASSUME NEW s \in Process, Scan(s) \/ Abort(s) PROVE KnownInv'
    <2>1. KnownFilesAreHeld' /\ ReaderInv(s)' /\ ProcessInv(s)'
      BY <1>1, ScannerKnown
    <2>2. ASSUME NEW t \in Process \ {s} PROVE ReaderInv(t)' /\ ProcessInv(t)'
      BY <1>1, <2>2, ScanKeepsOthers, BystanderKnown DEF KnownInv
    <2> QED
      BY <2>1, <2>2 DEF KnownInv
  <1>2. CASE UNCHANGED <<dbVars, pc, walkVars, readVars>>
    <2>1. Gains /\ \A t \in Process : Kept(t)
      BY <1>2 DEF Gains, Kept, dbVars, walkVars, readVars
    <2>2. KnownFilesAreHeld'
      BY <1>2 DEF KnownInv, KnownFilesAreHeld, HeldAt, dbVars
    <2> QED
      BY <2>1, <2>2, BystanderKnown DEF KnownInv
  <1> QED
    BY <1>1, <1>2 DEF Next, Write, Remove, vars

\* At the first launch nothing is known and no scan runs.
LEMMA InitKnown == Init => KnownInv
  BY DEF Init, KnownInv, KnownFilesAreHeld, ReaderInv, ProcessInv, Nothing

\* Whatever crashes and whoever else scans, a file the stored state map makes
\* the next scan pass over has all its records in the database.
THEOREM KnownFilesCorrect == Spec => []KnownFilesAreHeld
  <1>1. KnownInv => KnownFilesAreHeld
    BY DEF KnownInv
  <1> QED
    BY <1>1, InitKnown, TypeCorrect, KnownStep, PTL DEF Spec

-----------------------------------------------------------------------------
(***************************************************************************)
(* For files that only grow, QuietInv is inductive as well.                *)
(***************************************************************************)
LEMMA GrownToTransitive ==
  ASSUME NEW f \in Snapshot, NEW g \in Snapshot, NEW h \in Snapshot, GrownTo(f, g), GrownTo(g, h)
  PROVE  GrownTo(f, h)
  <1>1. \A e \in Snapshot, p \in Path : e[p] # NoFile => e[p].size \in Nat
    BY DEF Snapshot, Stat
  <1> QED
    BY <1>1 DEF GrownTo

\* Where nothing can be removed every step lets the tree grow or stay.
LEMMA TreeGrows ==
  ASSUME TypeOK, AppendOnly, [Next]_vars
  PROVE  GrownTo(tree, tree')
  BY FilesGrow DEF AppendOnly, GrownTo

\* A larger stat being held, the smaller one is.
LEMMA HeldBelow ==
  ASSUME NEW p, NEW m \in Nat, NEW st, st.size \in Nat, m <= st.size, HeldAt(p, st)
  PROVE  RecordsIn(p, m) \subseteq rows /\ (RecordsIn(p, m) # {} => ProjectOf[p] \in projects)
  BY RecordsGrow DEF HeldAt

\* A process that does not move still covers what its fingerprint walk saw.
LEMMA BystanderCovers ==
  ASSUME TypeOK, AppendOnly, [Next]_vars, NEW t \in Process, Kept(t), CoverInv(t)
  PROVE  CoverInv(t)'
  <1>1. GrownTo(seen[t], tree')
    <2>1. tree' \in Snapshot
      BY TypeStep DEF TypeOK
    <2> QED
      BY <2>1, TreeGrows, GrownToTransitive DEF CoverInv, TypeOK
  <1>2. GrownTo(seen[t], tree)'
    BY <1>1 DEF GrownTo, Kept
  <1> QED
    BY <1>2 DEF CoverInv, Kept

\* A scan that has returned covers nothing and owes nothing.
LEMMA ResetCovers ==
  ASSUME NEW s \in Process, Reset(s)
  PROVE  CoverInv(s)'
  BY DEF Reset, CoverInv, GrownTo, Nothing

\* Each statement of scan_one keeps every readable file accounted for.
LEMMA ScannerCovers ==
  ASSUME TypeOK, AppendOnly, KnownInv, NEW s \in Process, CoverInv(s), Scan(s) \/ Abort(s)
  PROVE  CoverInv(s)'
  <1> USE DEF fileVars, dbVars, walkVars, readVars
  <1>a. tree' = tree
    BY ScanKeepsOthers
  <1>b. ASSUME Return(s) PROVE CoverInv(s)'
    BY <1>b, ReturnResets, ResetCovers
  <1>c. ASSUME seen'[s] = seen[s] PROVE GrownTo(seen[s], tree)'
    BY <1>a, <1>c DEF CoverInv, GrownTo
  <1>1. CASE Begin(s)
    BY <1>1, <1>c DEF Begin, TypeOK, CoverInv
  <1>2. CASE SkipUnchanged(s)
    BY <1>2, <1>b DEF SkipUnchanged
  <1>3. CASE FingerprintChanged(s)
    BY <1>3, <1>c DEF FingerprintChanged, TypeOK, CoverInv
  <1>4. CASE LoadStates(s)
    BY <1>4, <1>c DEF LoadStates, TypeOK, CoverInv
  <1>5. ASSUME NEW p \in Path, StatFile(s, p) PROVE CoverInv(s)'
    <2>1. seen'[s] = [seen[s] EXCEPT ![p] = tree[p]] /\ pc'[s] = "stat"
      BY <1>5 DEF StatFile, TypeOK
    <2>2. GrownTo(seen[s], tree)'
      <3>1. ASSUME NEW q \in Path, seen'[s][q] # NoFile
            PROVE  tree[q] # NoFile /\ seen'[s][q].size <= tree[q].size
        <4>1. CASE q = p
          BY <4>1, <3>1, <2>1, Sizes DEF TypeOK, Snapshot
        <4>2. CASE q # p
          BY <4>2, <3>1, <2>1 DEF CoverInv, GrownTo, TypeOK, Snapshot
        <4> QED
          BY <4>1, <4>2
      <3> QED
        BY <3>1, <1>a DEF GrownTo
    <2> QED
      BY <2>1, <2>2 DEF CoverInv
  <1>6. ASSUME NEW p \in Path, WalkFile(s, p) PROVE CoverInv(s)'
    <2>0. /\ pc[s] = "walk" /\ todo'[s] = todo[s] \ {p} /\ seen'[s] = seen[s]
          /\ GrownTo(seen[s], tree)'
      BY <1>6, <1>c DEF WalkFile, TypeOK
    <2>1. seen[s][p] # NoFile => /\ tree[p] # NoFile /\ Visible(tree[p])
                                 /\ seen[s][p].size <= tree[p].size
      <3>1. tree[p] # NoFile => tree[p].size <= MaxFileSize
        BY ConstantsAreTyped DEF AppendOnly, TypeOK, Snapshot, Stat
      <3> QED
        BY <3>1 DEF CoverInv, GrownTo, Visible
    <2>2. CASE ~ Visible(tree[p]) /\ UNCHANGED <<pc, fresh, cur>>
      BY <2>0, <2>1, <2>2 DEF CoverInv
    <2>3. CASE /\ Visible(tree[p]) /\ fresh' = [fresh EXCEPT ![s][p] = tree[p]]
               /\ UNCHANGED <<pc, cur>>
      <3>1. fresh'[s] = [fresh[s] EXCEPT ![p] = tree[p]]
        BY <2>3 DEF TypeOK
      <3>2. fresh'[s][p] = tree[p] /\ \A q \in Path \ {p} : fresh'[s][q] = fresh[s][q]
        BY <3>1 DEF TypeOK, Snapshot
      <3> QED
        BY <2>0, <2>1, <2>3, <3>2 DEF CoverInv, Visible
    <2>4. CASE /\ cur' = [cur EXCEPT ![s] = [path |-> p, stat |-> tree[p], upto |-> 0, line |-> 0]]
               /\ pc' = [pc EXCEPT ![s] = "open"] /\ UNCHANGED fresh
      <3>1. pc'[s] = "open" /\ cur'[s].path = p /\ cur'[s].stat = tree[p]
        BY <2>4 DEF TypeOK
      <3> QED
        BY <2>0, <2>1, <2>4, <3>1 DEF CoverInv
    <2> QED
      BY <1>6, <2>2, <2>3, <2>4 DEF WalkFile
  <1>7. CASE OpenFile(s)
    <2>1. /\ pc[s] = "open" /\ pc'[s] = "read" /\ cur'[s].path = cur[s].path
          /\ cur'[s].stat = cur[s].stat /\ UNCHANGED <<seen, todo, fresh>>
      BY <1>7 DEF OpenFile, TypeOK
    <2> QED
      BY <2>1, <1>c DEF CoverInv
  <1>8. CASE Emit(s)
    <2>1. /\ pc[s] = "read" /\ cur'[s].path = cur[s].path /\ cur'[s].stat = cur[s].stat
          /\ UNCHANGED <<pc, seen, todo, fresh>>
      BY <1>8 DEF Emit, TypeOK
    <2> QED
      BY <2>1, <1>c DEF CoverInv
  <1>9. CASE EndOfFile(s)
    <2>1. /\ pc[s] = "read" /\ pc'[s] = "walk" /\ UNCHANGED <<seen, todo>>
          /\ fresh'[s] = [fresh[s] EXCEPT ![cur[s].path] = cur[s].stat]
      BY <1>9 DEF EndOfFile, TypeOK
    <2>2. /\ cur[s].stat # NoFile /\ fresh'[s][cur[s].path] = cur[s].stat
          /\ \A q \in Path \ {cur[s].path} : fresh'[s][q] = fresh[s][q]
      BY <2>1, Sizes DEF TypeOK, Snapshot, KnownInv, ReaderInv
    <2>3. ASSUME NEW q \in Path \ Flaky, seen[s][q] # NoFile, q \notin todo[s]
          PROVE  fresh'[s][q] # NoFile /\ seen[s][q].size <= fresh'[s][q].size
      <3>1. CASE q = cur[s].path
        BY <2>1, <2>2, <2>3, <3>1 DEF CoverInv
      <3>2. CASE q # cur[s].path
        BY <2>1, <2>2, <2>3, <3>2 DEF CoverInv
      <3> QED
        BY <3>1, <3>2
    <2> QED
      BY <2>1, <2>3, <1>c DEF CoverInv
  <1>10. CASE ReadFails(s)
    <2>1. /\ pc[s] \in {"open", "read"} /\ pc'[s] = "walk" /\ UNCHANGED <<seen, todo, fresh>>
      BY <1>10 DEF ReadFails, TypeOK
    <2>2. cur[s].path \in Flaky
      BY <1>10, Sizes DEF ReadFails, AppendOnly, KnownInv, ReaderInv
    <2> QED
      BY <2>1, <2>2, <1>c DEF CoverInv
  <1>11. CASE EndWalk(s)
    <2>1. CASE Return(s)
      BY <2>1, <1>b
    <2>2. CASE pc' = [pc EXCEPT ![s] = "insert"] /\ UNCHANGED <<walkVars, readVars>>
      BY <1>11, <2>2, <1>c DEF EndWalk, TypeOK, CoverInv
    <2> QED
      BY <1>11, <2>1, <2>2 DEF EndWalk
  <1>12. CASE InsertRest(s)
    BY <1>12, <1>c DEF InsertRest, TypeOK, CoverInv
  <1>13. CASE UpsertProject(s)
    BY <1>13, <1>c DEF UpsertProject, TypeOK, CoverInv
  <1>14. CASE SaveStates(s)
    BY <1>14, <1>c DEF SaveStates, TypeOK, CoverInv
  <1>15. CASE SaveFingerprint(s)
    BY <1>15, <1>b DEF SaveFingerprint
  <1>16. CASE Abort(s)
    BY <1>16, <1>b DEF Abort
  <1> QED
    BY <1>1, <1>2, <1>3, <1>4, <1>5, <1>6, <1>7, <1>8, <1>9, <1>10, <1>11, <1>12, <1>13,
       <1>14, <1>15, <1>16 DEF Scan

\* The stored fingerprint stays that of an earlier tree that is held.
LEMMA StoredStep ==
  ASSUME TypeOK, AppendOnly, KnownInv, QuietInv, [Next]_vars
  PROVE  StoredInv'
  <1> USE DEF fileVars, dbVars, walkVars, readVars
  <1>0. tree' \in Snapshot
    BY TypeStep DEF TypeOK
  <1>1. CASE storedFp' = storedFp /\ Gains
    <2> SUFFICES ASSUME storedFp # NoFingerprint
                 PROVE \E f \in Snapshot :
                         /\ storedFp' = Fingerprint(f) /\ GrownTo(f, tree')
                         /\ \A p \in Path \ Flaky : f[p] # NoFile => HeldAt(p, f[p])'
      BY <1>1 DEF StoredInv, GrownTo, HeldAt
    <2>1. PICK f \in Snapshot :
            /\ storedFp = Fingerprint(f) /\ GrownTo(f, tree)
            /\ \A p \in Path \ Flaky : f[p] # NoFile => HeldAt(p, f[p])
      BY DEF QuietInv, StoredInv
    <2>2. GrownTo(f, tree')
      BY <2>1, <1>0, TreeGrows, GrownToTransitive DEF TypeOK
    <2> QED
      BY <1>1, <2>1, <2>2 DEF HeldAt, Gains
  <1>2. ASSUME NEW s \in Process, SaveFingerprint(s) PROVE StoredInv'
    <2> DEFINE f == seen[s]
    <2>1. /\ pc[s] = "fingerprint" /\ storedFp' = Fingerprint(f)
          /\ UNCHANGED <<tree, rows, projects>> /\ f \in Snapshot
      BY <1>2 DEF SaveFingerprint, TypeOK
    <2>2. GrownTo(f, tree)
      BY DEF QuietInv, CoverInv
    <2>3. ASSUME NEW p \in Path \ Flaky, f[p] # NoFile PROVE HeldAt(p, f[p])
      <3>1. fresh[s][p] # NoFile /\ f[p].size <= fresh[s][p].size
        BY <2>1, <2>3 DEF QuietInv, CoverInv
      <3>2. HeldAt(p, fresh[s][p])
        BY <2>1, <3>1 DEF AppendOnly, KnownInv, ProcessInv, GatheredAt, HeldAt
      <3>3. f[p].size \in Nat /\ fresh[s][p].size \in Nat
        BY <2>3, <3>1, Sizes
      <3> QED
        BY <3>1, <3>2, <3>3, HeldBelow DEF HeldAt
    <2> QED
      BY <2>1, <2>2, <2>3 DEF StoredInv, HeldAt, GrownTo
  <1>3. ASSUME NEW s \in Process, Scan(s) \/ Abort(s), ~ SaveFingerprint(s)
        PROVE  storedFp' = storedFp /\ Gains
    BY <1>3, ScanKeepsOthers
       DEF Scan, Abort, Begin, SkipUnchanged, FingerprintChanged, LoadStates, StatFile, WalkFile,
           OpenFile, Emit, EndOfFile, ReadFails, EndWalk, InsertRest, UpsertProject, SaveStates
  <1>4. CASE UNCHANGED dbVars
    BY <1>1, <1>4 DEF Gains
  <1> QED
    BY <1>1, <1>2, <1>3, <1>4 DEF Next, Write, Remove, vars

\* Every step keeps the stored fingerprint's tree held and every scan covering.
LEMMA QuietStep ==
  ASSUME TypeOK, AppendOnly, KnownInv, QuietInv, [Next]_vars
  PROVE  QuietInv'
  <1>1. ASSUME NEW s \in Process, Scan(s) \/ Abort(s) PROVE \A t \in Process : CoverInv(t)'
    <2>1. CoverInv(s)'
      BY <1>1, ScannerCovers DEF QuietInv
    <2>2. ASSUME NEW t \in Process \ {s} PROVE CoverInv(t)'
      BY <1>1, <2>2, ScanKeepsOthers, BystanderCovers DEF QuietInv
    <2> QED
      BY <2>1, <2>2
  <1>2. CASE UNCHANGED <<dbVars, pc, walkVars, readVars>>
    <2>1. \A t \in Process : Kept(t)
      BY <1>2 DEF Kept, walkVars, readVars
    <2> QED
      BY <2>1, BystanderCovers, StoredStep DEF QuietInv
  <1> QED
    BY <1>1, <1>2, StoredStep DEF QuietInv, Next, Write, Remove, vars

\* The whole invariant, in every reachable state.
THEOREM ScanInvCorrect == Spec => []ScanInv
  <1>1. Init => ScanInv
    <2>1. Init => TypeOK
      BY InitTyped
    <2>2. Init => KnownInv
      BY InitKnown
    <2>3. Init => QuietInv
      BY DEF Init, QuietInv, StoredInv, CoverInv, GrownTo, Nothing
    <2> QED
      BY <2>1, <2>2, <2>3 DEF ScanInv
  <1>2. ScanInv /\ [Next]_vars => ScanInv'
    BY TypeStep, KnownStep, QuietStep DEF ScanInv, AppendOnly
  <1> QED
    BY <1>1, <1>2, PTL DEF Spec

-----------------------------------------------------------------------------
\* A set of naturals that has a member has a least one: what the inductions below rest on.
LEMMA LeastNatural ==
  ASSUME NEW T, T \subseteq Nat, T # {}
  PROVE  \E x \in T : \A y \in T : x <= y
<1> DEFINE R == {ss \in Nat \X Nat : ss[1] < ss[2]}
<1>1. IsWellFoundedOn(R, Nat)
    BY NatLessThanWellFounded DEF OpToRel
<1>2. \A x, y \in Nat : ~(<<y, x>> \in R) => x <= y
    OBVIOUS
<1> HIDE DEF R
<1>3. PICK x \in T : \A y \in T : ~ (<<y, x>> \in R)
    BY <1>1, WFMin
<1> QED
    BY <1>2, <1>3

\* The elements of a finite set are taken away one by one: a family of its subsets that
\* has the empty one, and each that is one element larger than another of the family,
\* has them all.
\* The member of s that goes first.
Any(s) == CHOOSE x \in s : TRUE

\* Induction over the subsets of a finite set, one element at a time.
LEMMA OneByOne ==
  ASSUME NEW S, IsFiniteSet(S), NEW T, {} \in T,
         \A s \in SUBSET S : s # {} /\ s \ {Any(s)} \in T => s \in T
  PROVE  \A s \in SUBSET S : s \in T
<1> DEFINE Cards == {n \in Nat : \E s \in SUBSET S : s \notin T /\ Cardinality(s) = n}
<1>1. SUFFICES ASSUME NEW r \in SUBSET S, r \notin T PROVE FALSE
    OBVIOUS
<1>2. \A s \in SUBSET S : IsFiniteSet(s) /\ Cardinality(s) \in Nat
    BY FS_Subset, FS_CardinalityType
<1>3. Cardinality(r) \in Cards
    BY <1>1, <1>2
<1>4. PICK n \in Cards : \A m \in Cards : n <= m
    BY <1>3, LeastNatural
<1>5. PICK s \in SUBSET S : s \notin T /\ Cardinality(s) = n
    BY <1>4
<1>6. s # {} /\ Any(s) \in s
    BY <1>5 DEF Any
<1>7. s \ {Any(s)} \in SUBSET S /\ Cardinality(s \ {Any(s)}) = n - 1 /\ n \in Nat
    BY <1>2, <1>5, <1>6, FS_RemoveElement
<1>8. s \ {Any(s)} \notin T
    BY <1>5, <1>6
<1>9. n - 1 \in Cards
    BY <1>2, <1>7, <1>8
<1> QED
    BY <1>4, <1>7, <1>9

\* A sum over the subsets of a set: what MapThenSumSet computes with.
IsSum(h, f, S) == h = [s \in SUBSET S |-> IF s = {} THEN 0 ELSE f[Any(s)].size + h[s \ {Any(s)}]]

\* A finite set has such a sum.
LEMMA SumExists ==
  ASSUME NEW S, IsFiniteSet(S), NEW f
  PROVE  \E h : IsSum(h, f, S)
<1> DEFINE D(n) == {s \in SUBSET S : Cardinality(s) <= n}
           Step(h, s) == IF s = {} THEN 0 ELSE f[Any(s)].size + h[s \ {Any(s)}]
           Solved(n) == \E h : h = [s \in D(n) |-> Step(h, s)]
           N == {n \in Nat : ~Solved(n)}
<1>1. \A s \in SUBSET S : IsFiniteSet(s) /\ Cardinality(s) \in Nat /\ (Cardinality(s) = 0 <=> s = {})
    BY FS_Subset, FS_CardinalityType, FS_EmptySet
<1>2. \A s \in SUBSET S : s # {} => s \ {Any(s)} \in SUBSET S /\ Cardinality(s \ {Any(s)}) = Cardinality(s) - 1
  <2> SUFFICES ASSUME NEW s \in SUBSET S, s # {}
               PROVE Cardinality(s \ {Any(s)}) = Cardinality(s) - 1
      OBVIOUS
  <2>1. Any(s) \in s
      BY DEF Any
  <2> QED
      BY <1>1, <2>1, FS_RemoveElement
<1>3. Solved(0)
  <2> DEFINE h == [s \in D(0) |-> 0]
  <2>1. \A s \in D(0) : s = {}
      BY <1>1
  <2>2. h = [s \in D(0) |-> Step(h, s)]
      BY <2>1
  <2> QED
      BY <2>2
<1>4. ASSUME NEW n \in Nat, Solved(n) PROVE Solved(n + 1)
  <2>1. PICK h : h = [s \in D(n) |-> Step(h, s)]
      BY <1>4
  <2> DEFINE g == [s \in D(n + 1) |-> Step(h, s)]
  <2>2. D(n) \subseteq D(n + 1)
      BY <1>1
  <2>3. \A s \in D(n) : g[s] = h[s]
      BY <2>1, <2>2
  <2>4. ASSUME NEW s \in D(n + 1) PROVE Step(h, s) = Step(g, s)
    <3>1. CASE s = {}
        BY <3>1
    <3>2. CASE s # {}
      <4>1. s \ {Any(s)} \in D(n)
          BY <1>1, <1>2, <3>2
      <4> QED
          BY <2>3, <3>2, <4>1
    <3> QED
        BY <3>1, <3>2
  <2>5. g = [s \in D(n + 1) |-> Step(g, s)]
      BY <2>4
  <2> HIDE DEF g
  <2> QED
      BY <2>5
<1>5. \A n \in Nat : Solved(n)
  <2> SUFFICES ASSUME N # {} PROVE FALSE
      OBVIOUS
  <2> HIDE DEF Solved
  <2>1. PICK n \in N : \A m \in N : n <= m
      BY LeastNatural
  <2>2. n # 0 /\ n - 1 \in Nat /\ n - 1 \notin N
      BY <1>3, <2>1
  <2>3. Solved(n - 1 + 1)
      BY <1>4, <2>2
  <2> QED
      BY <2>1, <2>2, <2>3
<1>6. D(Cardinality(S)) = SUBSET S /\ Cardinality(S) \in Nat
    BY <1>1, FS_Subset
<1> QED
    BY <1>5, <1>6 DEF IsSum

\* Larger sizes have a larger sum, and the same sum only when they are the same sizes.
LEMMA SumsCompare ==
  ASSUME NEW S, IsFiniteSet(S), NEW f, NEW g, NEW hf, NEW hg,
         IsSum(hf, f, S), IsSum(hg, g, S),
         \A p \in S : f[p].size \in Nat /\ g[p].size \in Nat /\ f[p].size <= g[p].size
  PROVE  hf[S] = hg[S] => \A p \in S : f[p].size = g[p].size
<1> DEFINE T == {s \in SUBSET S : /\ hf[s] \in Nat /\ hg[s] \in Nat /\ hf[s] <= hg[s]
                                  /\ hf[s] = hg[s] => \A p \in s : f[p].size = g[p].size}
<1>1. {} \in T
    BY DEF IsSum
<1>2. ASSUME NEW s \in SUBSET S, s # {}, s \ {Any(s)} \in T PROVE s \in T
  <2> DEFINE x == Any(s)
             r == s \ {Any(s)}
  <2>1. x \in s /\ x \in S
      BY <1>2 DEF Any
  <2>2. hf[s] = f[x].size + hf[r] /\ hg[s] = g[x].size + hg[r]
      BY <1>2 DEF IsSum
  <2>3. f[x].size \in Nat /\ g[x].size \in Nat /\ f[x].size <= g[x].size
      BY <2>1
  <2>4. /\ hf[r] \in Nat /\ hg[r] \in Nat /\ hf[r] <= hg[r]
        /\ hf[r] = hg[r] => \A p \in r : f[p].size = g[p].size
      BY <1>2
  <2>5. s = r \cup {x}
      BY <2>1
  <2> HIDE DEF x, r
  <2>6. hf[s] \in Nat /\ hg[s] \in Nat /\ hf[s] <= hg[s]
      BY <2>2, <2>3, <2>4
  <2>7. ASSUME hf[s] = hg[s] PROVE \A p \in s : f[p].size = g[p].size
    <3>1. hf[r] = hg[r] /\ f[x].size = g[x].size
        BY <2>2, <2>3, <2>4, <2>7
    <3> QED
        BY <2>4, <2>5, <3>1
  <2> QED
      BY <2>6, <2>7
<1>3. S \in T
  <2> HIDE DEF T
  <2> QED
      BY <1>1, <1>2, OneByOne
<1> QED
    BY <1>3

\* The byte total of the files of S, as Fingerprint takes it.
Bytes(f, S) == MapThenSumSet(LAMBDA p : f[p].size, S)

\* The total of the sizes of a set of files, as Fingerprint has it, is such a sum.
LEMMA BytesAreASum ==
  ASSUME NEW S, IsFiniteSet(S), NEW f
  PROVE  \E h : IsSum(h, f, S) /\ Bytes(f, S) = h[S]
<1> DEFINE P(h) == h = [s \in SUBSET S |-> IF s = {} THEN 0
                          ELSE f[CHOOSE x \in s : TRUE].size + h[s \ {CHOOSE x \in s : TRUE}]]
<1>1. \A h : P(h) <=> IsSum(h, f, S)
    BY DEF IsSum, Any
<1>2. \E h : P(h)
  <2> HIDE DEF P
  <2>1. \E h : IsSum(h, f, S)
      BY SumExists
  <2> QED
      BY <1>1, <2>1
<1>3. P(CHOOSE h : P(h))
  <2> HIDE DEF P
  <2> QED
      BY <1>2
<1>4. Bytes(f, S) = (CHOOSE h : P(h))[S]
    BY DEF Bytes, MapThenSumSet, MapThenFoldSet
<1> HIDE DEF P
<1> QED
    BY <1>1, <1>3, <1>4

\* What the change detector is relied on for: where nothing is oversized, a
\* tree that only grew cannot show its old file count and byte total again.
LEMMA GrowthShows ==
  ASSUME MaxBytes <= MaxFileSize, NEW f \in Snapshot, NEW g \in Snapshot,
         GrownTo(f, g), Fingerprint(f) = Fingerprint(g),
         NEW q \in Path, g[q] # NoFile
  PROVE  f[q] # NoFile /\ f[q].size = g[q].size
<1> DEFINE F == {p \in Path : Visible(f[p])}
           G == {p \in Path : Visible(g[p])}
<1>1. \A p \in Path : f[p] # NoFile => f[p].size \in Nat /\ f[p].size <= MaxFileSize
    BY ConstantsAreTyped DEF Snapshot, Stat
<1>2. \A p \in Path : g[p] # NoFile => g[p].size \in Nat /\ g[p].size <= MaxFileSize
    BY ConstantsAreTyped DEF Snapshot, Stat
<1>3. F = {p \in Path : f[p] # NoFile} /\ G = {p \in Path : g[p] # NoFile}
    BY <1>1, <1>2 DEF Visible
<1>4. F \subseteq G /\ IsFiniteSet(F) /\ IsFiniteSet(G)
    BY <1>3, ConstantsAreTyped, FS_Subset DEF GrownTo
<1>5. Cardinality(F) = Cardinality(G) /\ Bytes(f, F) = Bytes(g, G)
    BY DEF Fingerprint, Bytes
<1> HIDE DEF F, G
<1>6. F = G
    BY <1>4, <1>5, FS_Subset
<1>7. PICK hf : IsSum(hf, f, F) /\ Bytes(f, F) = hf[F]
    BY <1>4, BytesAreASum
<1>8. PICK hg : IsSum(hg, g, F) /\ Bytes(g, F) = hg[F]
    BY <1>4, BytesAreASum
<1>9. \A p \in F : f[p].size \in Nat /\ g[p].size \in Nat /\ f[p].size <= g[p].size
    BY <1>1, <1>2, <1>3, <1>6 DEF GrownTo
<1>10. \A p \in F : f[p].size = g[p].size
    BY <1>4, <1>5, <1>6, <1>7, <1>8, <1>9, SumsCompare
<1> QED
    BY <1>3, <1>6, <1>10

-----------------------------------------------------------------------------
\* By GrowthShows, the stored fingerprint's tree is the present one when
\* their fingerprints agree, so the present one is held.
LEMMA QuietHolds == AppendOnly /\ ScanInv => QuietTreeIsHeld
  <1> SUFFICES ASSUME AppendOnly, ScanInv, storedFp = Fingerprint(tree),
                      NEW p \in Path \ Flaky, tree[p] # NoFile
               PROVE  HeldAt(p, tree[p])
    BY DEF QuietTreeIsHeld
  <1>1. tree \in Snapshot /\ StoredInv /\ MaxBytes <= MaxFileSize
    BY DEF ScanInv, TypeOK, QuietInv, AppendOnly
  <1>2. storedFp # NoFingerprint
    BY <1>1, ConstantsAreTyped DEF Fingerprints
  <1>3. PICK f \in Snapshot :
          /\ storedFp = Fingerprint(f) /\ GrownTo(f, tree)
          /\ \A q \in Path \ Flaky : f[q] # NoFile => HeldAt(q, f[q])
    BY <1>1, <1>2 DEF StoredInv
  <1>4. f[p] # NoFile /\ f[p].size = tree[p].size
    BY <1>1, <1>3, GrowthShows
  <1> QED
    BY <1>3, <1>4 DEF HeldAt

\* For files that only grow and stay below the size limit, a tree that shows
\* the stored fingerprint is in the database, but for files whose reads fail.
THEOREM QuietTreeCorrect ==
  ASSUME AppendOnly
  PROVE  Spec => []QuietTreeIsHeld
  BY QuietHolds, ScanInvCorrect, PTL

-----------------------------------------------------------------------------
(***************************************************************************)
(* ScanStore implements UsageLedger when the files only grow and every     *)
(* read succeeds: the proof, for any files, processes and bounds.          *)
(***************************************************************************)

\* The case the refinement is about.
Faithful == AppendOnly /\ Flaky = {}

\* Nothing is entered that the tool did not write: rows, batches and the lines
\* the reader may still reach are in the files.
RealInv ==
    /\ rows \subseteq RecordsOf(tree)
    /\ \A s \in Process :
         /\ batch[s] \subseteq RecordsOf(tree)
         /\ pc[s] = "read" =>
              tree[cur[s].path] # NoFile /\ cur[s].upto <= tree[cur[s].path].size

-----------------------------------------------------------------------------
\* A present file's records are among the tree's.
LEMMA RecordsOfMember ==
  ASSUME NEW f, NEW p \in Path, f[p] # NoFile
  PROVE  RecordsIn(p, f[p].size) \subseteq RecordsOf(f)
  BY DEF RecordsOf

\* A grown tree has no fewer records.
LEMMA RecordsOfGrow ==
  ASSUME NEW f \in Snapshot, NEW g \in Snapshot, GrownTo(f, g)
  PROVE  RecordsOf(f) \subseteq RecordsOf(g)
  <1> SUFFICES ASSUME NEW p \in Path, f[p] # NoFile
               PROVE  RecordsIn(p, f[p].size) \subseteq RecordsOf(g)
    BY DEF RecordsOf
  <1>1. g[p] # NoFile /\ f[p].size <= g[p].size /\ f[p].size \in Nat /\ g[p].size \in Nat
    BY DEF GrownTo, Snapshot, Stat
  <1> QED
    BY <1>1, RecordsGrow, RecordsOfMember

\* The records of a well-typed snapshot are records.
LEMMA RecordsOfTyped ==
  ASSUME NEW f \in Snapshot
  PROVE  RecordsOf(f) \subseteq Record
  <1> SUFFICES ASSUME NEW p \in Path, f[p] # NoFile PROVE RecordsIn(p, f[p].size) \subseteq Record
    BY DEF RecordsOf
  <1>1. f[p].size \in 0 .. MaxBytes
    BY DEF Snapshot, Stat
  <1>2. \A i \in 1 .. Lines(f[p].size) : i \in 1 .. MaxBytes
    BY <1>1, ConstantsAreTyped DEF Lines, LineBytes
  <1> QED
    BY <1>2 DEF RecordsIn, Record

\* What a scan adds to its batch is a line of the file it reads.
LEMMA EmitIsReal ==
  ASSUME TypeOK, RealInv, NEW s \in Process, Emit(s)
  PROVE  <<cur[s].path, cur[s].line + 1>> \in RecordsOf(tree)
  <1> DEFINE p == cur[s].path  n == tree[p].size
  <1>1. /\ tree[p] # NoFile /\ p \in Path /\ n \in Nat /\ cur[s].upto \in Nat /\ cur[s].line \in Nat
        /\ cur[s].upto <= n /\ cur[s].line < Lines(cur[s].upto)
    BY Sizes DEF Emit, RealInv
  <1>2. cur[s].line + 1 \in 1 .. Lines(n)
    BY <1>1 DEF Lines, LineBytes
  <1>3. <<p, cur[s].line + 1>> \in RecordsIn(p, n)
    BY <1>2 DEF RecordsIn
  <1> QED
    BY <1>1, <1>3, RecordsOfMember

\* At the first launch no record is anywhere.
LEMMA InitReal == Init => RealInv
  BY DEF Init, RealInv

\* No step puts a record the tool did not write into a row or a batch.
LEMMA RealStep ==
  ASSUME TypeOK, AppendOnly, RealInv, [Next]_vars
  PROVE  RealInv'
  <1> USE DEF fileVars, dbVars, walkVars, readVars
  <1>0. GrownTo(tree, tree') /\ tree \in Snapshot /\ tree' \in Snapshot
    BY TreeGrows, TypeStep DEF TypeOK
  <1>1. RecordsOf(tree) \subseteq RecordsOf(tree')
    BY <1>0, RecordsOfGrow
  <1>2. ASSUME NEW t \in Process, Kept(t)
        PROVE  /\ batch'[t] \subseteq RecordsOf(tree')
               /\ pc'[t] = "read" =>
                    tree'[cur'[t].path] # NoFile /\ cur'[t].upto <= tree'[cur'[t].path].size
    <2>1. batch'[t] \subseteq RecordsOf(tree')
      BY <1>1, <1>2 DEF RealInv, Kept
    <2>2. ASSUME pc[t] = "read"
          PROVE tree'[cur[t].path] # NoFile /\ cur[t].upto <= tree'[cur[t].path].size
      <3> DEFINE p == cur[t].path
      <3>1. p \in Path /\ tree[p] # NoFile /\ cur[t].upto <= tree[p].size /\ cur[t].upto \in Nat
        BY <2>2, Sizes DEF RealInv
      <3>2. tree'[p] # NoFile /\ tree[p].size <= tree'[p].size
            /\ tree[p].size \in Nat /\ tree'[p].size \in Nat
        BY <3>1, <1>0 DEF GrownTo, Snapshot, Stat
      <3> QED
        BY <3>1, <3>2
    <2> QED
      BY <1>2, <2>1, <2>2 DEF Kept
  <1>3. ASSUME NEW s \in Process, Scan(s) \/ Abort(s)
        PROVE  /\ rows' \subseteq RecordsOf(tree) /\ batch'[s] \subseteq RecordsOf(tree)
               /\ pc'[s] = "read" =>
                    tree[cur'[s].path] # NoFile /\ cur'[s].upto <= tree[cur'[s].path].size
    <2> DEFINE Goal == /\ rows' \subseteq RecordsOf(tree) /\ batch'[s] \subseteq RecordsOf(tree)
                       /\ pc'[s] = "read" => /\ tree[cur'[s].path] # NoFile
                                             /\ cur'[s].upto <= tree[cur'[s].path].size
    <2>1. CASE Reset(s) /\ UNCHANGED rows
      BY <2>1 DEF Reset, RealInv
    <2>2. CASE Emit(s)
      <3>1. batch[s] \cup {<<cur[s].path, cur[s].line + 1>>} \subseteq RecordsOf(tree)
        BY <2>2, EmitIsReal DEF RealInv
      <3>2. rows' \subseteq RecordsOf(tree) /\ batch'[s] \subseteq RecordsOf(tree)
        BY <2>2, <3>1 DEF Emit, RealInv, TypeOK
      <3>3. /\ pc[s] = "read" /\ cur'[s].path = cur[s].path /\ cur'[s].upto = cur[s].upto
        BY <2>2 DEF Emit, TypeOK
      <3> QED
        BY <3>2, <3>3 DEF RealInv
    <2>3. CASE OpenFile(s)
      <3>1. /\ UNCHANGED <<rows, batch>> /\ tree[cur[s].path] # NoFile
            /\ cur'[s].path = cur[s].path /\ cur'[s].upto = tree[cur[s].path].size
        BY <2>3 DEF OpenFile, TypeOK
      <3>2. tree[cur[s].path].size \in Nat
        BY <3>1, Sizes
      <3> QED
        BY <3>1, <3>2 DEF RealInv
    <2>4. CASE InsertRest(s)
      BY <2>4 DEF InsertRest, RealInv, TypeOK
    <2>5. CASE Begin(s) \/ FingerprintChanged(s) \/ LoadStates(s) \/ EndOfFile(s) \/ ReadFails(s)
      BY <2>5 DEF Begin, FingerprintChanged, LoadStates, EndOfFile, ReadFails, RealInv, TypeOK
    <2>6. ASSUME NEW p \in Path, StatFile(s, p) \/ WalkFile(s, p) PROVE Goal
      BY <2>6 DEF StatFile, WalkFile, RealInv, TypeOK
    <2>7. CASE EndWalk(s) /\ ~ Return(s)
      BY <2>7 DEF EndWalk, RealInv, TypeOK
    <2>8. CASE UpsertProject(s) \/ SaveStates(s)
      BY <2>8 DEF UpsertProject, SaveStates, RealInv, TypeOK
    <2>9. CASE Return(s) /\ UNCHANGED rows
      BY <2>1, <2>9, ReturnResets
    <2> QED
      BY <1>3, <2>2, <2>3, <2>4, <2>5, <2>6, <2>7, <2>8, <2>9
         DEF Scan, SkipUnchanged, EndWalk, SaveFingerprint, Abort
  <1>4. ASSUME NEW s \in Process, Scan(s) \/ Abort(s) PROVE RealInv'
    <2>1. tree' = tree /\ \A t \in Process \ {s} : Kept(t)
      BY <1>4, ScanKeepsOthers
    <2>2. \A t \in Process \ {s} :
            /\ batch'[t] \subseteq RecordsOf(tree')
            /\ pc'[t] = "read" =>
                 tree'[cur'[t].path] # NoFile /\ cur'[t].upto <= tree'[cur'[t].path].size
      BY <1>2, <2>1
    <2>3. /\ rows' \subseteq RecordsOf(tree') /\ batch'[s] \subseteq RecordsOf(tree')
          /\ pc'[s] = "read" =>
               tree'[cur'[s].path] # NoFile /\ cur'[s].upto <= tree'[cur'[s].path].size
      BY <1>3, <1>4, <2>1
    <2>4. RecordsOf(tree)' = RecordsOf(tree')
      BY DEF RecordsOf
    <2> QED
      BY <2>2, <2>3, <2>4 DEF RealInv
  <1>5. CASE UNCHANGED <<dbVars, pc, walkVars, readVars>>
    <2>1. \A t \in Process : Kept(t)
      BY <1>5 DEF Kept
    <2>2. RecordsOf(tree)' = RecordsOf(tree')
      BY DEF RecordsOf
    <2> QED
      BY <1>1, <1>2, <1>5, <2>1, <2>2 DEF RealInv
  <1> QED
    BY <1>4, <1>5 DEF Next, Write, Remove, vars

-----------------------------------------------------------------------------
\* No earlier fingerprint comes back once the tool has written.
LEMMA WriteUnsettles ==
  ASSUME ScanInv, AppendOnly, NEW p \in Path, Write(p), tree' \in Snapshot
  PROVE  storedFp # Fingerprint(tree')
  <1> SUFFICES ASSUME storedFp = Fingerprint(tree') PROVE FALSE
    OBVIOUS
  <1>1. storedFp # NoFingerprint /\ tree \in Snapshot /\ StoredInv /\ MaxBytes <= MaxFileSize
    BY ConstantsAreTyped DEF ScanInv, QuietInv, TypeOK, AppendOnly, Fingerprints
  <1>2. PICK f \in Snapshot : storedFp = Fingerprint(f) /\ GrownTo(f, tree)
    BY <1>1 DEF StoredInv
  <1>3. GrownTo(tree, tree')
    BY TreeGrows DEF ScanInv, Next
  <1>4. GrownTo(f, tree')
    BY <1>1, <1>2, <1>3, GrownToTransitive
  <1>5. tree'[p] # NoFile => f[p] # NoFile /\ f[p].size = tree'[p].size
    <2> SUFFICES ASSUME tree'[p] # NoFile PROVE f[p] # NoFile /\ f[p].size = tree'[p].size
      OBVIOUS
    <2> DEFINE g == tree'
    <2>1. GrownTo(f, g) /\ Fingerprint(f) = Fingerprint(g) /\ g \in Snapshot /\ g[p] # NoFile
      BY <1>2, <1>4
    <2> HIDE DEF g
    <2>2. f[p] # NoFile /\ f[p].size = g[p].size
      BY <1>1, <1>2, <2>1, GrowthShows
    <2> QED
      BY <2>2 DEF g
  <1>6. CASE tree[p] = NoFile
    <2>1. [mtime |-> clock', size |-> 0] # NoFile
      BY ConstantsAreTyped DEF Write, ScanInv, TypeOK, Stat
    <2>2. tree'[p] # NoFile
      BY <1>6, <2>1 DEF Write, ScanInv, TypeOK, Snapshot
    <2> QED
      BY <1>2, <1>5, <1>6, <2>2 DEF GrownTo
  <1>7. CASE tree[p] # NoFile
    <2>1. tree'[p].size = tree[p].size + 1 /\ tree[p].size \in Nat
      BY <1>7 DEF Write, ScanInv, TypeOK, Snapshot, Stat
    <2>2. f[p] # NoFile => f[p].size <= tree[p].size /\ f[p].size \in Nat
      BY <1>2 DEF GrownTo, Snapshot, Stat
    <2> QED
      BY <1>3, <1>5, <1>7, <2>1, <2>2 DEF GrownTo
  <1> QED
    BY <1>6, <1>7

\* A tree that shows the stored fingerprint is in the ledger.
LEMMA SettledIsHeld ==
  Faithful /\ ScanInv /\ storedFp = Fingerprint(tree) => RecordsOf(tree) \subseteq rows
  BY QuietHolds DEF Faithful, QuietTreeIsHeld, HeldAt, RecordsOf

\* The state map vouches for stored records only.
LEMMA KnownIsHeld ==
  Faithful /\ ScanInv => RecordsOf(storedStates) \subseteq rows
  BY DEF Faithful, AppendOnly, ScanInv, KnownInv, KnownFilesAreHeld, HeldAt, RecordsOf

\* Every step of the pipeline is a step of the ledger, or none at all.
LEMMA LedgerStep ==
  ASSUME ScanInv, ScanInv', RealInv, Faithful, [Next]_vars
  PROVE  [Ledger!Next]_(Ledger!vars)
  <1> DEFINE settled == storedFp = Fingerprint(tree)
             used == RecordsOf(tree)
             passed == RecordsOf(storedStates)
             Same == used' = used /\ rows' = rows /\ passed' = passed /\ settled' = settled
  <1> USE DEF fileVars, dbVars, walkVars, readVars
  <1>0. TypeOK /\ AppendOnly
    BY DEF ScanInv, Faithful
  <1>a. Same => [Ledger!Next]_(Ledger!vars)
    BY DEF Ledger!vars
  <1>1. ASSUME NEW p \in Path, Write(p) PROVE Ledger!Use
    <2>1. tree' \in Snapshot /\ GrownTo(tree, tree') /\ tree \in Snapshot
      BY <1>0, <1>1, TypeStep, TreeGrows DEF Next, TypeOK
    <2>2. RecordsOf(tree) \subseteq RecordsOf(tree') /\ RecordsOf(tree') \subseteq Record
      BY <2>1, RecordsOfGrow, RecordsOfTyped
    <2>3. settled' = FALSE
      BY <1>0, <1>1, <2>1, WriteUnsettles DEF Write
    <2>4. used' = used \cup RecordsOf(tree')
      BY <2>2
    <2>5. rows' = rows /\ passed' = passed
      BY <1>1 DEF Write
    <2> QED
      BY <2>2, <2>3, <2>4, <2>5 DEF Ledger!Use
  <1>2. ASSUME NEW s \in Process, Emit(s) \/ InsertRest(s) PROVE Ledger!Enter \/ Same
    <2>1. UNCHANGED <<tree, storedFp, storedStates>>
      BY <1>2 DEF Emit, InsertRest
    <2>2. \E S \in SUBSET used : rows' = rows \cup S
      <3>1. CASE Emit(s)
        <4>1. batch[s] \cup {<<cur[s].path, cur[s].line + 1>>} \in SUBSET used /\ {} \in SUBSET used
          BY <1>0, <3>1, EmitIsReal DEF RealInv
        <4>2. rows' = rows \/ rows' = rows \cup (batch[s] \cup {<<cur[s].path, cur[s].line + 1>>})
          BY <3>1 DEF Emit
        <4> QED
          BY <4>1, <4>2
      <3>2. CASE InsertRest(s)
        BY <3>2 DEF InsertRest, RealInv
      <3> QED
        BY <1>2, <3>1, <3>2
    <2> QED
      BY <2>1, <2>2 DEF Ledger!Enter
  <1>3. ASSUME NEW s \in Process, SaveStates(s) PROVE Ledger!Vouch
    <2>1. UNCHANGED <<tree, rows, storedFp>>
      BY <1>3 DEF SaveStates
    <2>2. (Faithful /\ ScanInv => RecordsOf(storedStates) \subseteq rows)'
      BY KnownIsHeld, PTL
    <2>3. passed' \subseteq rows
      BY <2>1, <2>2 DEF Faithful, AppendOnly
    <2> QED
      BY <2>1, <2>3 DEF Ledger!Vouch
  <1>4. ASSUME NEW s \in Process, SaveFingerprint(s) PROVE Ledger!Settle
    <2>1. UNCHANGED <<tree, rows, storedStates>>
      BY <1>4 DEF SaveFingerprint
    <2>2. settled' => used \subseteq rows
      <3>1. (Faithful /\ ScanInv /\ storedFp = Fingerprint(tree) => RecordsOf(tree) \subseteq rows)'
        BY SettledIsHeld, PTL
      <3> QED
        BY <2>1, <3>1 DEF Faithful, AppendOnly
    <2>3. settled' = TRUE \/ settled' = FALSE
      OBVIOUS
    <2> QED
      BY <2>1, <2>2, <2>3 DEF Ledger!Settle
  <1>5. ASSUME NEW s \in Process, Scan(s) \/ Abort(s),
               ~ (Emit(s) \/ InsertRest(s) \/ SaveStates(s) \/ SaveFingerprint(s))
        PROVE  Same
    <2>1. UNCHANGED <<tree, rows, storedFp, storedStates>>
      BY <1>5, ScanKeepsOthers, <1>0
         DEF Scan, Abort, Begin, SkipUnchanged, FingerprintChanged, LoadStates, StatFile, WalkFile,
             OpenFile, EndOfFile, ReadFails, EndWalk, UpsertProject
    <2> QED
      BY <2>1
  <1>6. ASSUME NEW p \in Path, Remove(p) PROVE FALSE
    BY <1>6 DEF Remove, Faithful, AppendOnly
  <1>7. ASSUME UNCHANGED vars PROVE Same
    BY <1>7 DEF vars
  <1> QED
    BY <1>a, <1>1, <1>2, <1>3, <1>4, <1>5, <1>6, <1>7 DEF Next, Ledger!Next

\* Where files only grow and can be read, scan_one implements UsageLedger:
\* through crashes, failed statements and concurrent processes.
THEOREM ScanImplementsLedger ==
  ASSUME Faithful
  PROVE  Spec => ImplementsLedger
  <1>1. Init => Ledger!Init
    <2>1. Nothing \in Snapshot /\ \A p \in Path : Nothing[p] = NoFile
      BY DEF Nothing, Snapshot
    <2>2. NoFingerprint # Fingerprint(Nothing)
      BY <2>1, ConstantsAreTyped DEF Fingerprints
    <2>3. RecordsOf(Nothing) = {}
      BY <2>1 DEF RecordsOf
    <2> QED
      BY <2>2, <2>3 DEF Init, Ledger!Init
  <1>2. TypeOK /\ AppendOnly /\ RealInv /\ [Next]_vars => RealInv'
    BY RealStep
  <1>3. ScanInv => TypeOK /\ AppendOnly
    BY DEF ScanInv, Faithful
  <1>4. ScanInv /\ ScanInv' /\ RealInv /\ [Next]_vars => [Ledger!Next]_(Ledger!vars)
    BY LedgerStep
  <1> QED
    BY <1>1, <1>2, <1>3, <1>4, InitReal, ScanInvCorrect, PTL DEF Spec, ImplementsLedger, Ledger!Spec

=============================================================================
