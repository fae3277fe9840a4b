-------------------------- MODULE UpdateFlowProofs --------------------------
(***************************************************************************)
(* Proofs about UpdateFlow, for any number of versions, chunks and tasks.  *)
(***************************************************************************)
EXTENDS UpdateFlow, TLAPS

\* What the state may be.
GoodState(s) ==
    /\ s \in [kind : Kind, version : 0 .. MaxVersion, file : 0 .. MaxVersion]
    /\ s.kind = "available" => s.version \in Version

\* The kinds of result differ.
LEMMA ResultsDiffer ==
  /\ Pending # Failure /\ Pending # Nothing /\ Failure # Nothing
  /\ \A v : Done(v) # Pending /\ Done(v) # Failure /\ Done(v) # Nothing
  BY DEF Pending, Failure, Nothing, Done

\* The states the actions build are states.
LEMMA StatesTyped ==
  /\ \A k \in Kind \ {"available"} : GoodState(Plain(k))
  /\ \A k \in Kind, v \in Version, f \in 0 .. MaxVersion : GoodState(State(k, v, f))
  BY ConstantsAreTyped DEF GoodState, Plain, State, NoVersion, Version

\* A new check is a check.
LEMMA NewCheckTyped ==
  ASSUME made \in 0 .. MaxTasks, made < MaxTasks, NEW m \in BOOLEAN
  PROVE  NewCheck(m) \in Check
  BY ConstantsAreTyped DEF NewCheck, Check, Result

\* The state after a check is one of those.
LEMMA StateAfterTyped ==
  ASSUME NEW c \in Check, c.result # Pending, skipped \in 0 .. MaxVersion
  PROVE  /\ GoodState(StateAfter(c)) /\ ~ (StateAfter(c).kind \in {"checking", "downloading"})
         /\ ~ (StateAfter(c).kind \in {"downloaded", "installing"})
  <1> USE DEF Plain, State
  <1>1. c.result \in {Failure, Nothing} \/ \E v \in Version : c.result = Done(v)
    BY DEF Check, Result
  <1>2. {"idle", "error", "uptodate"} \subseteq Kind \ {"available"} /\ "available" \in Kind
    BY DEF Kind
  <1>3. CASE c.result = Nothing
    <2>1. StateAfter(c) = Plain("uptodate")
      BY <1>3 DEF StateAfter, Nothing
    <2> QED
      BY <2>1, <1>2, StatesTyped
  <1>4. CASE c.result = Failure
    <2>1. StateAfter(c) = Plain("error") \/ StateAfter(c) = Plain("idle")
      BY <1>4 DEF StateAfter, Failure
    <2> QED
      BY <2>1, <1>2, StatesTyped
  <1>5. ASSUME NEW v \in Version, c.result = Done(v)
        PROVE  /\ GoodState(StateAfter(c)) /\ ~ (StateAfter(c).kind \in {"checking", "downloading"})
               /\ ~ (StateAfter(c).kind \in {"downloaded", "installing"})
    <2>1. \/ v = skipped /\ (StateAfter(c) = Plain("uptodate") \/ StateAfter(c) = Plain("idle"))
          \/ v # skipped /\ StateAfter(c) = State("available", v, NoVersion)
      BY <1>5 DEF StateAfter, Done
    <2>2. GoodState(State("available", v, NoVersion))
      BY <1>2, StatesTyped, ConstantsAreTyped DEF NoVersion
    <2> QED
      BY <2>1, <2>2, <1>2, StatesTyped
  <1> QED
    BY <1>1, <1>3, <1>4, <1>5

\* What a check offers is what it found, and not the version skipped last.
LEMMA Offered ==
  ASSUME NEW c \in Check, c.result # Pending, skipped \in 0 .. MaxVersion,
         StateAfter(c).kind = "available"
  PROVE  /\ c.result.kind = "done" /\ StateAfter(c).version = c.result.version
         /\ c.result.version # skipped
<1> USE DEF Plain, State
<1>1. c.result \in {Failure, Nothing} \/ \E v \in Version : c.result = Done(v)
    BY DEF Check, Result
<1>2. c.result # Nothing /\ c.result # Failure
    BY DEF StateAfter, Nothing, Failure
<1>3. PICK v \in Version : c.result = Done(v)
    BY <1>1, <1>2
<1>4. c.result.kind = "done" /\ c.result.version = v
    BY <1>3 DEF Done
<1>5. StateAfter(c) = IF v = skipped THEN Plain(IF c.manual THEN "uptodate" ELSE "idle")
                                     ELSE State("available", v, NoVersion)
    BY <1>4 DEF StateAfter
<1> QED
    BY <1>4, <1>5

-----------------------------------------------------------------------------
\* Types hold at the first launch.
LEMMA InitTyped == Init => TypeOK
  <1> SUFFICES ASSUME Init PROVE TypeOK
    OBVIOUS
  <1>1. GoodState(state)
    BY StatesTyped DEF Init, Kind
  <1>2. checks \subseteq Check /\ made \in 0 .. MaxTasks
    <2>1. [id |-> 1, manual |-> FALSE, result |-> Pending] \in Check
      BY ConstantsAreTyped DEF Check, Result
    <2>2. \/ checks = {} /\ made = 0
          \/ checks = {[id |-> 1, manual |-> FALSE, result |-> Pending]} /\ made = 1
      BY DEF Init
    <2>3. 0 \in 0 .. MaxTasks /\ 1 \in 0 .. MaxTasks
      BY ConstantsAreTyped
    <2> QED
      BY <2>1, <2>2, <2>3
  <1> QED
    BY <1>1, <1>2, ConstantsAreTyped DEF Init, TypeOK, GoodState, NoVersion, Version

\* Every step keeps the types.
LEMMA TypeStep ==
  ASSUME TypeOK, [Next]_vars
  PROVE  TypeOK'
  <1> USE ConstantsAreTyped DEF worldVars, skipVars
  <1>0. TypeOK' <=>
          /\ frontend' \in Frontends /\ GoodState(state')
          /\ skipped' \in 0 .. MaxVersion /\ stored' \in 0 .. MaxVersion /\ dest' \in 0 .. MaxVersion
          /\ checks' \subseteq Check /\ downloads' \subseteq Download
          /\ file' \in [Version -> SUBSET (1 .. Chunks)]
          /\ current' \in Version /\ latest' \in Version
          /\ made' \in 0 .. MaxTasks /\ faults' \in 0 .. MaxFaults
          /\ declined' \subseteq Version /\ unsaved' \subseteq Version
    BY DEF TypeOK, GoodState
  <1>a. GoodState(state)
    BY DEF TypeOK, GoodState
  <1>b. Fault => faults' \in 0 .. MaxFaults
    BY DEF Fault, TypeOK
  <1>1. CASE Publish
    BY <1>0, <1>a, <1>1 DEF Publish, TypeOK, Version
  <1>2. CASE CheckForUpdates
    <2>1. made < MaxTasks /\ NewCheck(TRUE) \in Check /\ GoodState(Plain("checking"))
      BY <1>2, NewCheckTyped, StatesTyped DEF CheckForUpdates, TypeOK, Kind
    <2>2. checks' \subseteq Check /\ GoodState(state')
      BY <1>2, <2>1 DEF CheckForUpdates, TypeOK
    <2>3. made' \in 0 .. MaxTasks
      BY <1>2, <2>1 DEF CheckForUpdates, TypeOK
    <2>4. UNCHANGED <<frontend, skipped, stored, declined, unsaved, dest, downloads, file,
                      current, latest, faults>>
      BY <1>2 DEF CheckForUpdates
    <2> QED
      BY <1>0, <2>2, <2>3, <2>4 DEF TypeOK
  <1>3. CASE DownloadUpdate
    <2>1. GoodState(state') /\ state.version \in Version
      BY <1>3, StatesTyped DEF DownloadUpdate, TypeOK, Kind, NoVersion
    <2>2. [id |-> made + 1, version |-> state.version, at |-> "opening", chunks |-> 0,
           result |-> Pending] \in Download
      BY <1>3, <2>1 DEF DownloadUpdate, TypeOK, Download, Result
    <2> QED
      BY <1>0, <1>3, <2>1, <2>2 DEF DownloadUpdate, TypeOK
  <1>4. CASE SkipUpdate
    <2>1. declined' \subseteq Version /\ unsaved' \subseteq Version
      BY <1>4 DEF SkipUpdate, TypeOK
    <2> QED
      BY <1>0, <1>b, <1>4, <2>1, StatesTyped DEF SkipUpdate, TypeOK, Kind
  <1>5. CASE Restart
    <2>1. GoodState(Plain("idle")) /\ GoodState(Plain("checking"))
      BY StatesTyped DEF Kind
    <2>2. made < MaxTasks => NewCheck(FALSE) \in Check
      BY NewCheckTyped DEF TypeOK
    <2>3. /\ checks' \subseteq Check /\ GoodState(state')
      BY <1>5, <2>1, <2>2 DEF Restart
    <2>4. made' \in 0 .. MaxTasks /\ faults' \in 0 .. MaxFaults
      <3>1. /\ \/ made' = made
               \/ made < MaxTasks /\ made' = made + 1
            /\ faults' = faults \/ Fault
        BY <1>5 DEF Restart
      <3> QED
        BY <3>1, <1>b DEF TypeOK
    <2>5. /\ current' \in Version /\ downloads' = {} /\ dest' = 0
          /\ skipped' = stored /\ declined' = declined \ unsaved /\ unsaved' = {}
          /\ UNCHANGED <<frontend, stored, file, latest>>
      BY <1>5 DEF Restart, TypeOK, NoVersion
    <2> QED
      BY <1>0, <2>3, <2>4, <2>5 DEF TypeOK
  <1>6. CASE Answer
    <2>1. PICK c \in checks, r \in Result :
            checks' = (checks \ {c}) \cup {[c EXCEPT !.result = r]}
      BY <1>6 DEF Answer, TypeOK, Result
    <2>2. [c EXCEPT !.result = r] \in Check
      BY <2>1 DEF TypeOK, Check
    <2>3. faults' \in 0 .. MaxFaults
      BY <1>6, <1>b DEF Answer, TypeOK
    <2> QED
      BY <1>0, <1>a, <1>6, <2>1, <2>2, <2>3 DEF Answer, TypeOK
  <1>7. CASE CreateFile
    <2>1. PICK d \in downloads :
            /\ downloads' = (downloads \ {d}) \cup {[d EXCEPT !.at = "writing"]}
            /\ file' = [file EXCEPT ![d.version] = {}]
      BY <1>7 DEF CreateFile
    <2>2. [d EXCEPT !.at = "writing"] \in Download
      BY <2>1 DEF TypeOK, Download
    <2> QED
      BY <1>0, <1>a, <1>7, <2>1, <2>2 DEF CreateFile, TypeOK
  <1>8. CASE WriteChunk
    <2>1. PICK d \in downloads :
            /\ d.chunks < Chunks
            /\ downloads' = (downloads \ {d}) \cup {[d EXCEPT !.chunks = @ + 1]}
            /\ file' = [file EXCEPT ![d.version] = @ \cup {d.chunks + 1}]
      BY <1>8 DEF WriteChunk
    <2>2. [d EXCEPT !.chunks = @ + 1] \in Download /\ d.chunks + 1 \in 1 .. Chunks
          /\ d.version \in Version
      BY <2>1 DEF TypeOK, Download
    <2> QED
      BY <1>0, <1>a, <1>8, <2>1, <2>2 DEF WriteChunk, TypeOK
  <1>9. CASE EndDownload \/ FailDownload
    <2>1. PICK d \in downloads, r \in Result :
            downloads' = (downloads \ {d}) \cup {[d EXCEPT !.result = r]}
      <3>1. \A d \in downloads : Done(d.version) \in Result
        BY DEF TypeOK, Download, Result
      <3> QED
        BY <1>9, <3>1 DEF EndDownload, FailDownload, Result
    <2>2. [d EXCEPT !.result = r] \in Download
      BY <2>1 DEF TypeOK, Download
    <2>3. faults' \in 0 .. MaxFaults
      BY <1>9, <1>b DEF EndDownload, FailDownload, TypeOK
    <2> QED
      BY <1>0, <1>a, <1>9, <2>1, <2>2, <2>3 DEF EndDownload, FailDownload, TypeOK
  <1>10. CASE HandleChecked
    <2>1. GoodState(state')
      BY <1>10, StateAfterTyped DEF HandleChecked, TypeOK
    <2> QED
      BY <1>0, <1>10, <2>1 DEF HandleChecked, TypeOK
  <1>11. CASE HandleDownloaded
    <2>1. PICK d \in downloads :
            \/ state' = Plain("error")
            \/ \E k \in {"downloaded", "installing"}, f \in {dest, d.version} :
                 state' = State(k, d.version, f)
      BY <1>11 DEF HandleDownloaded
    <2>2. d.version \in Version /\ d.version \in 0 .. MaxVersion /\ dest \in 0 .. MaxVersion
      BY <2>1 DEF TypeOK, Download, Version
    <2>3. GoodState(state')
      BY <2>1, <2>2, StatesTyped DEF Kind
    <2> QED
      BY <1>0, <1>11, <2>3 DEF HandleDownloaded, TypeOK
  <1>12. CASE UNCHANGED vars
    BY <1>12 DEF vars, TypeOK
  <1> QED
    BY <1>1, <1>2, <1>3, <1>4, <1>5, <1>6, <1>7, <1>8, <1>9, <1>10, <1>11, <1>12
       DEF Next, Task, Apply

-----------------------------------------------------------------------------
\* At the first launch the window has at most the start-up check.
LEMMA InitWindow == Init => WindowInv
  <1> SUFFICES ASSUME Init PROVE OneTask /\ OneWriter /\ WindowFileIsWhole /\ DeclinedInv
    BY DEF WindowInv
  <1>1. /\ downloads = {}
        /\ \/ state.kind = "idle" /\ checks = {}
           \/ state.kind = "checking" /\ \E c : checks = {c} /\ c.result = Pending
    <2>1. /\ downloads = {}
          /\ \/ state = Plain("idle") /\ checks = {}
             \/ /\ state = Plain("checking")
                /\ checks = {[id |-> 1, manual |-> FALSE, result |-> Pending]}
      BY DEF Init
    <2>2. Plain("idle").kind = "idle" /\ Plain("checking").kind = "checking"
      BY DEF Plain, State
    <2>3. PICK c : c = [id |-> 1, manual |-> FALSE, result |-> Pending]
      OBVIOUS
    <2>4. c.result = Pending
      BY <2>3
    <2>5. CASE checks = {}
      BY <2>1, <2>2, <2>5
    <2>6. CASE checks # {}
      <3>1. state.kind = "checking" /\ checks = {c}
        BY <2>1, <2>2, <2>3, <2>6
      <3> QED
        BY <2>1, <2>4, <3>1
    <2> QED
      BY <2>5, <2>6
  <1>2. DeclinedInv
    <2>1. declined = {} /\ Pending.kind = "pending"
      BY DEF Init, Pending
    <2> QED
      BY <1>1, <2>1 DEF DeclinedInv
  <1> QED
    BY <1>1, <1>2 DEF OneTask, OneWriter, WindowFileIsWhole, Terminal

\* A task that is replaced by a later stage of itself is still the only one.
LEMMA OneTaskReplaced ==
  ASSUME OneTask, NEW t, NEW u, state' = state,
         \/ t \in checks /\ checks' = (checks \ {t}) \cup {u} /\ downloads' = downloads
         \/ t \in downloads /\ downloads' = (downloads \ {t}) \cup {u} /\ checks' = checks
  PROVE  OneTask' /\ (t \in checks => checks' = {u}) /\ (t \in downloads => downloads' = {u})
  BY DEF OneTask

\* A step that answers no check, offers nothing and skips nothing leaves what is
\* known of the skipped versions as it was.
LEMMA DeclinedKept ==
  ASSUME TypeOK, DeclinedInv, latest' \in Nat, latest <= latest',
         UNCHANGED <<skipped, stored, declined, unsaved>>,
         state'.kind = "available" => state' = state,
         \A c \in checks' : c \in checks \/ c.result = Pending
  PROVE  DeclinedInv'
<1> USE ConstantsAreTyped DEF ConstantsAreTyped
<1>1. Pending.kind # "done"
    BY DEF Pending
<1>2. latest \in Nat /\ declined \subseteq Nat
    BY DEF TypeOK, Version
<1>3. \A c \in checks : c.result.kind = "done" => c.result.version \in Nat
  <2>1. \A c \in checks : c.result \in Result
      BY DEF TypeOK, Check
  <2>2. \A r \in Result : r.version \in Nat
      BY DEF Result, Pending, Failure, Nothing, Done, NoVersion, Version
  <2> QED
      BY <2>1, <2>2
<1>4. state.kind = "available" => state.version \in Nat
    BY DEF TypeOK, Version
<1>5. \A c \in checks' : c.result.kind = "done" => c \in checks
    BY <1>1
<1>6. \A c \in checks' : c.result.kind = "done" => c.result.version <= latest'
    BY <1>2, <1>3, <1>5 DEF DeclinedInv
<1>7. state'.kind = "available" => state'.version <= latest'
    BY <1>2, <1>4 DEF DeclinedInv
<1>8. ASSUME NEW v \in declined
      PROVE  /\ v <= latest' /\ (v # skipped => v < latest')
             /\ v = skipped => v = stored \/ v \in unsaved
             /\ state'.kind = "available" => v < state'.version
  <2>1. /\ v <= latest /\ (v # skipped => v < latest)
        /\ v = skipped => v = stored \/ v \in unsaved
        /\ state.kind = "available" => v < state.version
      BY DEF DeclinedInv
  <2> QED
      BY <1>2, <2>1
<1>9. ASSUME NEW v \in declined, NEW c \in checks', c.result.kind = "done"
      PROVE  v <= c.result.version /\ (v # skipped => v < c.result.version)
    BY <1>5, <1>9 DEF DeclinedInv
<1> QED
    BY <1>6, <1>7, <1>8, <1>9 DEF DeclinedInv

\* What the window knows of the skipped versions survives every step.
LEMMA DeclinedStep ==
  ASSUME TypeOK, OneTask, DeclinedInv, ~ Terminal, [Next]_vars
  PROVE  DeclinedInv'
<1> USE ConstantsAreTyped DEF ConstantsAreTyped, worldVars, skipVars
<1>0. /\ latest \in Nat /\ declined \subseteq Nat /\ skipped \in Nat
      /\ state.kind = "available" => state.version \in Version /\ state.version \in Nat
    BY DEF TypeOK, Version
<1>1. CASE Publish
    BY <1>0, <1>1, DeclinedKept DEF Publish
<1>2. CASE CheckForUpdates
  <2>1. state'.kind = "checking" /\ checks' = checks \cup {NewCheck(TRUE)}
      BY <1>2 DEF CheckForUpdates, Plain, State
  <2>2. NewCheck(TRUE).result = Pending
      BY DEF NewCheck
  <2>3. \A c \in checks' : c \in checks \/ c.result = Pending
      BY <2>1, <2>2
  <2>4. UNCHANGED <<skipped, stored, declined, unsaved, latest>>
      BY <1>2 DEF CheckForUpdates
  <2>5. latest' \in Nat /\ latest <= latest'
      BY <1>0, <2>4
  <2>6. state'.kind # "available"
      BY <2>1
  <2> HIDE DEF ConstantsAreTyped
  <2> QED
      BY <2>3, <2>4, <2>5, <2>6, DeclinedKept
<1>3. CASE DownloadUpdate
  <2>1. state'.kind = "downloading"
      BY <1>3 DEF DownloadUpdate, State
  <2> QED
      BY <1>0, <1>3, <2>1, DeclinedKept DEF DownloadUpdate
<1>4. CASE SkipUpdate
  <2>1. /\ state.kind = "available" /\ skipped' = state.version /\ UNCHANGED <<latest, checks>>
        /\ declined' = declined \cup {state.version}
        /\ \/ stored' = state.version
           \/ unsaved' = unsaved \cup {state.version}
      BY <1>4 DEF SkipUpdate
  <2>2. state'.kind = "idle"
      BY <1>4 DEF SkipUpdate, Plain, State
  <2>3. checks' = {}
      BY <2>1 DEF OneTask
  <2>4. ASSUME NEW v \in declined'
        PROVE  /\ v <= latest /\ (v # skipped' => v < latest)
               /\ v = skipped' => v = stored' \/ v \in unsaved'
    <3>1. CASE v = state.version
        BY <1>0, <2>1, <3>1 DEF DeclinedInv
    <3>2. CASE v # state.version
      <4>1. v \in declined /\ v < state.version /\ state.version <= latest
          BY <2>1, <3>2 DEF DeclinedInv
      <4> QED
          BY <1>0, <2>1, <3>2, <4>1
    <3> QED
        BY <3>1, <3>2
  <2> QED
      BY <2>1, <2>2, <2>3, <2>4 DEF DeclinedInv
<1>5. CASE Restart
  <2>1. /\ skipped' = stored /\ declined' = declined \ unsaved
        /\ UNCHANGED <<stored, latest>>
        /\ \/ state' = Plain("idle") /\ checks' = {}
           \/ state' = Plain("checking") /\ checks' = {NewCheck(FALSE)}
      BY <1>5 DEF Restart
  <2>2. state'.kind # "available" /\ \A c \in checks' : c.result.kind # "done"
      BY <2>1 DEF Plain, State, NewCheck, Pending
  <2>3. ASSUME NEW v \in declined'
        PROVE  v <= latest /\ (v # stored => v < latest)
      BY <1>0, <2>1 DEF DeclinedInv
  <2> QED
      BY <2>1, <2>2, <2>3 DEF DeclinedInv
<1>6. CASE Answer
  <2>1. PICK c \in checks, r \in {Done(latest), Nothing, Failure} :
          checks' = (checks \ {c}) \cup {[c EXCEPT !.result = r]}
      BY <1>6 DEF Answer
  <2>2. UNCHANGED <<state, skipped, stored, declined, unsaved, latest>>
      BY <1>6 DEF Answer
  <2>3. [c EXCEPT !.result = r].result = r
      BY <2>1 DEF TypeOK, Check
  <2>4. r.kind = "done" => r.version = latest
      BY <2>1 DEF Done, Nothing, Failure
  <2>5. \A b \in checks' : b \in checks \/ b.result = r
      BY <2>1, <2>3
  <2>6. \A b \in checks' : b.result.kind = "done" => b.result.version <= latest
      BY <1>0, <2>4, <2>5 DEF DeclinedInv
  <2>7. ASSUME NEW v \in declined, NEW b \in checks', b.result.kind = "done"
        PROVE  v <= b.result.version /\ (v # skipped => v < b.result.version)
      BY <1>0, <2>4, <2>5, <2>7 DEF DeclinedInv
  <2> QED
      BY <2>2, <2>6, <2>7 DEF DeclinedInv
<1>7. CASE CreateFile \/ WriteChunk \/ EndDownload \/ FailDownload
    BY <1>0, <1>7, DeclinedKept DEF CreateFile, WriteChunk, EndDownload, FailDownload
<1>8. CASE HandleChecked
  <2>1. PICK c \in checks :
          c.result # Pending /\ checks' = checks \ {c} /\ state' = StateAfter(c)
      BY <1>8 DEF HandleChecked
  <2>2. UNCHANGED <<skipped, stored, declined, unsaved, latest>>
      BY <1>8 DEF HandleChecked
  <2>3. checks' = {}
      BY <2>1 DEF OneTask
  <2>4. c \in Check /\ skipped \in 0 .. MaxVersion
      BY <2>1 DEF TypeOK
  <2>5. state'.kind = "available" =>
          /\ c.result.kind = "done" /\ state'.version = c.result.version
          /\ c.result.version # skipped
      BY <2>1, <2>4, Offered
  <2>6. state'.kind = "available" => state'.version <= latest /\ state'.version \in Nat
    <3>1. c.result \in Result
        BY <2>4 DEF Check
    <3>2. \A r \in Result : r.version \in Nat
        BY DEF Result, Pending, Failure, Nothing, Done, NoVersion, Version
    <3> QED
        BY <2>5, <3>1, <3>2 DEF DeclinedInv
  <2>7. ASSUME NEW v \in declined, state'.kind = "available" PROVE v < state'.version
    <3>1. v <= c.result.version /\ (v # skipped => v < c.result.version)
        BY <2>1, <2>5, <2>7 DEF DeclinedInv
    <3> QED
        BY <1>0, <2>5, <2>6, <2>7, <3>1
  <2> QED
      BY <2>2, <2>3, <2>6, <2>7 DEF DeclinedInv
<1>9. CASE HandleDownloaded
  <2>1. state'.kind # "available"
      BY <1>9 DEF HandleDownloaded, Plain, State
  <2> QED
      BY <1>0, <1>9, <2>1, DeclinedKept DEF HandleDownloaded
<1>10. CASE UNCHANGED vars
    BY <1>0, <1>10, DeclinedKept DEF vars
<1> QED
    BY <1>1, <1>2, <1>3, <1>4, <1>5, <1>6, <1>7, <1>8, <1>9, <1>10 DEF Next, Task, Apply

\* In the window every step keeps one task and one writer at most.
LEMMA WindowStep ==
  ASSUME TypeOK, WindowInv, [Next]_vars
  PROVE  WindowInv'
  <1> USE DEF worldVars, skipVars
  <1>b. frontend' = frontend
    BY DEF Next, Task, Apply, vars, Publish, CheckForUpdates, DownloadUpdate, SkipUpdate, Restart,
       Answer, CreateFile, WriteChunk, EndDownload, FailDownload, HandleChecked, HandleDownloaded
  <1> SUFFICES ASSUME ~ Terminal PROVE WindowInv'
    BY <1>b DEF WindowInv, Terminal
  <1> USE <1>b DEF Terminal
  <1>0. OneTask /\ OneWriter /\ WindowFileIsWhole /\ DeclinedInv
    BY DEF WindowInv
  <1>c. DeclinedInv'
    BY <1>0, DeclinedStep
  <1>a. SUFFICES OneTask' /\ OneWriter' /\ WindowFileIsWhole'
    BY <1>c DEF WindowInv
  <1>1. CASE Publish \/ UNCHANGED vars
    BY <1>0, <1>1 DEF Publish, vars, OneTask, OneWriter, WindowFileIsWhole, Whole
  <1>2. CASE CheckForUpdates
    <2>1. checks = {} /\ downloads = {} /\ checks' = {NewCheck(TRUE)} /\ downloads' = {}
      BY <1>0, <1>2 DEF CheckForUpdates, OneTask, IsBusy
    <2>2. state'.kind = "checking"
      BY <1>2 DEF CheckForUpdates, Plain, State
    <2> QED
      BY <2>1, <2>2 DEF OneTask, OneWriter, WindowFileIsWhole
  <1>3. CASE DownloadUpdate
    <2> DEFINE d == [id |-> made + 1, version |-> state.version, at |-> "opening", chunks |-> 0,
                     result |-> Pending]
    <2>1. checks = {} /\ downloads = {} /\ checks' = {} /\ downloads' = {d}
      BY <1>0, <1>3 DEF DownloadUpdate, OneTask
    <2>2. state'.kind = "downloading"
      BY <1>3 DEF DownloadUpdate, State
    <2>3. d.at # "writing" /\ d.result = Pending
      OBVIOUS
    <2> QED
      BY <2>1, <2>2, <2>3, ResultsDiffer DEF OneTask, OneWriter, WindowFileIsWhole
  <1>4. CASE SkipUpdate
    <2>1. state.kind = "available" /\ UNCHANGED <<checks, downloads, file>>
      BY <1>4 DEF SkipUpdate
    <2>2. state'.kind = "idle"
      BY <1>4 DEF SkipUpdate, Plain, State
    <2>3. checks = {} /\ downloads = {}
      BY <1>0, <2>1 DEF OneTask
    <2> QED
      BY <2>1, <2>2, <2>3 DEF OneTask, OneWriter, WindowFileIsWhole
  <1>5. CASE Restart
    <2>1. /\ downloads' = {}
          /\ \/ state'.kind = "idle" /\ checks' = {}
             \/ state'.kind = "checking" /\ \E c : checks' = {c}
      <3>1. /\ downloads' = {}
            /\ \/ state' = Plain("idle") /\ checks' = {}
               \/ state' = Plain("checking") /\ checks' = {NewCheck(FALSE)}
        BY <1>5 DEF Restart
      <3>2. Plain("idle").kind = "idle" /\ Plain("checking").kind = "checking"
        BY DEF Plain, State
      <3> QED
        BY <3>1, <3>2
    <2> QED
      BY <2>1 DEF OneTask, OneWriter, WindowFileIsWhole
  <1>6. CASE Answer
    <2>1. PICK c \in checks, r \in Result :
            checks' = (checks \ {c}) \cup {[c EXCEPT !.result = r]}
      BY <1>6 DEF Answer, TypeOK, Result
    <2>2. UNCHANGED <<state, downloads, file>>
      BY <1>6 DEF Answer
    <2>3. OneTask'
      BY <1>0, <2>1, <2>2, OneTaskReplaced
    <2> QED
      BY <1>0, <2>2, <2>3 DEF OneWriter, WindowFileIsWhole, Whole
  <1>7. CASE CreateFile
    <2>1. PICK d \in downloads :
            /\ d.at = "opening" /\ d.result = Pending
            /\ downloads' = (downloads \ {d}) \cup {[d EXCEPT !.at = "writing"]}
            /\ file' = [file EXCEPT ![d.version] = {}]
      BY <1>7 DEF CreateFile
    <2> DEFINE e == [d EXCEPT !.at = "writing"]
    <2>2. state' = state /\ checks' = checks
      BY <1>7 DEF CreateFile
    <2>3. OneTask' /\ downloads' = {e} /\ state.kind = "downloading"
      BY <1>0, <2>1, <2>2, OneTaskReplaced DEF OneTask
    <2>4. /\ e.at = "writing" /\ e.chunks = 0 /\ e.result = Pending /\ e.version = d.version
          /\ d.version \in Version
      BY <1>0, <2>1 DEF OneWriter, TypeOK, Download
    <2>5. file'[d.version] = 1 .. 0
      BY <2>1, <2>4 DEF TypeOK
    <2> HIDE DEF e
    <2> QED
      BY <2>2, <2>3, <2>4, <2>5, ResultsDiffer DEF OneWriter, WindowFileIsWhole
  <1>8. CASE WriteChunk
    <2>1. PICK d \in downloads :
            /\ d.at = "writing" /\ d.result = Pending
            /\ downloads' = (downloads \ {d}) \cup {[d EXCEPT !.chunks = @ + 1]}
            /\ file' = [file EXCEPT ![d.version] = @ \cup {d.chunks + 1}]
      BY <1>8 DEF WriteChunk
    <2> DEFINE e == [d EXCEPT !.chunks = @ + 1]
    <2>2. state' = state /\ checks' = checks
      BY <1>8 DEF WriteChunk
    <2>3. OneTask' /\ downloads' = {e} /\ state.kind = "downloading"
      BY <1>0, <2>1, <2>2, OneTaskReplaced DEF OneTask
    <2>4. /\ e.at = "writing" /\ e.chunks = d.chunks + 1 /\ e.result = Pending
          /\ e.version = d.version /\ d.version \in Version /\ d.chunks \in Nat
      BY <2>1, ConstantsAreTyped DEF TypeOK, Download
    <2>5. file'[d.version] = (1 .. d.chunks) \cup {d.chunks + 1}
      BY <1>0, <2>1, <2>4 DEF TypeOK, OneWriter
    <2>6. file'[d.version] = 1 .. (d.chunks + 1)
      BY <2>4, <2>5
    <2> QED
      BY <2>2, <2>3, <2>4, <2>6, ResultsDiffer DEF OneWriter, WindowFileIsWhole
  <1>9. CASE EndDownload \/ FailDownload
    <2>1. PICK d \in downloads, r \in Result :
            /\ r = Failure \/ r = Done(d.version)
            /\ downloads' = (downloads \ {d}) \cup {[d EXCEPT !.result = r]}
            /\ r = Done(d.version) => d.at = "writing" /\ d.chunks = Chunks
      <3>1. CASE EndDownload
        <4>1. PICK d \in downloads :
                /\ d.at = "writing"
                /\ downloads' = (downloads \ {d}) \cup
                     {[d EXCEPT !.result = IF d.chunks = Chunks THEN Done(d.version) ELSE Failure]}
          BY <3>1 DEF EndDownload
        <4>2. Failure \in Result /\ Done(d.version) \in Result
          BY <1>0, <4>1 DEF TypeOK, Download, Result
        <4> QED
          BY <4>1, <4>2, ResultsDiffer
      <3>2. CASE FailDownload
        <4>1. Failure \in Result
          BY DEF Result
        <4> QED
          BY <3>2, <4>1, ResultsDiffer DEF FailDownload
      <3> QED
        BY <1>9, <3>1, <3>2
    <2> DEFINE e == [d EXCEPT !.result = r]
    <2>2. state' = state /\ checks' = checks /\ file' = file
      BY <1>9 DEF EndDownload, FailDownload
    <2>3. OneTask' /\ downloads' = {e} /\ state.kind = "downloading"
      BY <1>0, <2>1, <2>2, OneTaskReplaced DEF OneTask
    <2>4. e.at = d.at /\ e.chunks = d.chunks /\ e.result = r /\ e.version = d.version
      BY <2>1 DEF TypeOK, Download
    <2>5. r = Done(d.version) => Whole(d.version)
      BY <1>0, <2>1 DEF OneWriter, Whole
    <2> QED
      BY <1>0, <2>1, <2>2, <2>3, <2>4, <2>5 DEF OneWriter, WindowFileIsWhole, Whole
  <1>10. CASE HandleChecked
    <2>1. PICK c \in checks :
            c.result # Pending /\ checks' = checks \ {c} /\ state' = StateAfter(c)
      BY <1>10 DEF HandleChecked
    <2>2. /\ ~ (state'.kind \in {"checking", "downloading"})
          /\ ~ (state'.kind \in {"downloaded", "installing"})
      BY <2>1, StateAfterTyped DEF TypeOK
    <2>3. checks' = {} /\ downloads' = {}
      BY <1>0, <1>10, <2>1 DEF HandleChecked, OneTask
    <2> QED
      BY <2>2, <2>3 DEF OneTask, OneWriter, WindowFileIsWhole
  <1>11. CASE HandleDownloaded
    <2>1. PICK d \in downloads :
            /\ d.result # Pending /\ downloads' = downloads \ {d}
            /\ \/ d.result = Failure /\ state' = Plain("error")
               \/ /\ d.result # Failure
                  /\ \/ state' = State("downloaded", d.version, d.version)
                     \/ state' = State("installing", d.version, d.version)
      BY <1>11 DEF HandleDownloaded
    <2>2. checks' = {} /\ downloads' = {} /\ file' = file
      BY <1>0, <1>11, <2>1 DEF HandleDownloaded, OneTask
    <2>3. d.result # Failure => Whole(d.version)
      BY <1>0, <2>1 DEF OneWriter
    <2>4. OneTask' /\ OneWriter'
      BY <2>1, <2>2 DEF OneTask, OneWriter, Plain, State
    <2>5. WindowFileIsWhole'
      BY <2>1, <2>2, <2>3 DEF WindowFileIsWhole, Plain, State, Whole
    <2> QED
      BY <2>4, <2>5
  <1> QED
    BY <1>1, <1>2, <1>3, <1>4, <1>5, <1>6, <1>7, <1>8, <1>9, <1>10, <1>11 DEF Next, Task, Apply

-----------------------------------------------------------------------------
\* Typing holds in every reachable state, for either frontend.
THEOREM TypeCorrect == Spec => []TypeOK
  BY InitTyped, TypeStep, PTL DEF Spec

\* The inductive invariant of the window.
LEMMA WindowInvCorrect == Spec => [](TypeOK /\ WindowInv)
  BY InitTyped, TypeStep, InitWindow, WindowStep, PTL DEF Spec

\* In the window a check or download in flight is never hidden from is_busy.
THEOREM BusyCorrect == Spec => []WindowIsBusy
  <1>1. WindowInv => WindowIsBusy
    BY DEF WindowInv, OneTask, WindowIsBusy, BusyWhileInFlight, IsBusy
  <1> QED
    BY <1>1, WindowInvCorrect, PTL

\* The window reports as saved, or starts the installer on, complete files only.
THEOREM FileCorrect == Spec => []WindowFileIsWhole
  <1>1. WindowInv => WindowFileIsWhole
    BY DEF WindowInv, WindowFileIsWhole
  <1> QED
    BY <1>1, WindowInvCorrect, PTL

\* The window never offers again what the user has skipped, through any number of
\* later releases, skips and restarts, as long as skips are saved: an offer is newer
\* than every one of them.
THEOREM SkippedCorrect == Spec => []SkippedIsNotOffered
  <1>1. TypeOK /\ WindowInv => SkippedIsNotOffered
    <2> SUFFICES ASSUME TypeOK, WindowInv, ~ Terminal, state.kind = "available",
                        state.version \in declined
                 PROVE  FALSE
      BY DEF SkippedIsNotOffered
    <2>1. state.version < state.version /\ state.version \in Nat
      BY ConstantsAreTyped DEF WindowInv, DeclinedInv, TypeOK, Version
    <2> QED
      BY <2>1
  <1> QED
    BY <1>1, WindowInvCorrect, PTL

=============================================================================
