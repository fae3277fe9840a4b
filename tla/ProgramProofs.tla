---------------------------- MODULE ProgramProofs ----------------------------
(***************************************************************************)
(* The parts of Program for any screen, sizes, number of toggles and       *)
(* intervals.  Each part has an invariant of its own steps; the last       *)
(* section carries them over to the whole program, where the other parts'  *)
(* steps leave its variables alone.                                        *)
(***************************************************************************)
EXTENDS Program, TLAPS, FiniteSetTheorems, SequenceTheorems, WellFoundedInduction

-----------------------------------------------------------------------------
\* The scheduler.

\* A new interval is stored before the wake is sent, and the wait is read after
\* the wake is received: between the two something is still to come.
LEMMA SchedulerStep == SchedulerInv /\ [SchedulerNext]_schedulerVars => SchedulerInv'
<1> SUFFICES ASSUME SchedulerInv, [SchedulerNext]_schedulerVars PROVE SchedulerInv'
    OBVIOUS
<1> USE SchedulerAssumption
        DEF SchedulerAssumption, SchedulerInv, SchedulerTypeOK, WaitIsCurrent, IntervalIsSaved, Floor
<1>1. ASSUME NEW secs \in Intervals, StoreInterval(secs) PROVE SchedulerInv'
    BY <1>1 DEF StoreInterval
<1>2. ASSUME NEW ok \in BOOLEAN, SaveInterval(ok) PROVE SchedulerInv'
    BY <1>2 DEF SaveInterval
<1>3. CASE SendWake
    BY <1>3 DEF SendWake
<1>4. CASE ReadInterval
    BY <1>4 DEF ReadInterval
<1>5. CASE ReceiveWake
    BY <1>5 DEF ReceiveWake
<1>6. CASE TimeOut \/ ScanEnds
    BY <1>6 DEF TimeOut, ScanEnds
<1>7. CASE RestartScheduler
  <2>1. {interval, setting}' \subseteq Intervals
      BY <1>7 DEF RestartScheduler
  <2>2. (wakes \in 0 .. MaxWakes /\ waitFor \in Nat)'
      BY <1>7 DEF RestartScheduler
  <2>3. ({changed, saveFailed} \subseteq BOOLEAN)'
      BY <1>7 DEF RestartScheduler
  <2>4. place' = "reading" /\ selecting' = "no" /\ setting' = interval'
      BY <1>7 DEF RestartScheduler
  <2> QED
      BY <2>1, <2>2, <2>3, <2>4
<1>8. CASE UNCHANGED schedulerVars
    BY <1>8 DEF schedulerVars
<1> QED
    BY <1>1, <1>2, <1>3, <1>4, <1>5, <1>6, <1>7, <1>8 DEF SchedulerNext

\* The scheduler starts with the interval that is stored, and nothing to hear.
LEMMA SchedulerStart == SchedulerInit => SchedulerInv
<1> SUFFICES ASSUME SchedulerInit PROVE SchedulerInv
    OBVIOUS
<1> USE SchedulerAssumption DEF SchedulerInit, SchedulerAssumption
<1>1. {interval, setting} \subseteq Intervals
    OBVIOUS
<1>2. wakes \in 0 .. MaxWakes /\ waitFor \in Nat
    OBVIOUS
<1>3. {changed, saveFailed} \subseteq BOOLEAN
    OBVIOUS
<1> QED
    BY <1>1, <1>2, <1>3
    DEF SchedulerInv, SchedulerTypeOK, WaitIsCurrent, IntervalIsSaved

-----------------------------------------------------------------------------
\* The window's size.

\* Every size the watcher lets through is appended, and the writer takes sizes
\* from the front: the last one is overtaken by nothing.
LEMMA SizeStep == SizeInv /\ [SizeNext]_sizeVars => SizeInv'
<1> SUFFICES ASSUME SizeInv, [SizeNext]_sizeVars PROVE SizeInv'
    OBVIOUS
<1> USE SizeAssumption DEF SizeAssumption, SizeInv, SizeTypeOK, LastSizeArrives, OnTheWay, OnlyUsableIsSaved, Usable
<1>1. ASSUME NEW d \in Displays, StartWindow(d) PROVE SizeInv'
    BY <1>1 DEF StartWindow, RestoredSize, Clamp
<1>2. ASSUME NEW s \in Sizes \cup {size}, Observe(s) PROVE SizeInv'
  <2>1. CASE ~Usable(s) \/ s = last
      BY <1>2, <2>1 DEF Observe
  <2>2. CASE Usable(s) /\ s # last
    <3>1. /\ last' = s /\ unread' = Append(unread, s) /\ Len(unread) < MaxUnread
          /\ size' = s /\ UNCHANGED <<running, newest, writing, stored, unsaved>>
        BY <1>2, <2>2 DEF Observe
    <3>2. s \in Nat /\ unread' \in Seq(Nat) /\ unread' # <<>>
        BY <3>1
    <3>3. Len(unread') = Len(unread) + 1 /\ unread'[Len(unread')] = s
        BY <3>1, <3>2
    <3>4. \A i \in DOMAIN unread' : unread'[i] = s \/ (i \in DOMAIN unread /\ unread'[i] = unread[i])
        BY <3>1, <3>2
    <3>5. SizeTypeOK'
        BY <3>1, <3>2, <3>3
    <3>6. LastSizeArrives'
        BY <3>1, <3>2, <3>3
    <3>7. OnlyUsableIsSaved'
        BY <2>2, <3>1, <3>4
    <3> QED
        BY <3>5, <3>6, <3>7
  <2> QED
      BY <2>1, <2>2
<1>3. CASE Receive
  <2>1. /\ unread # <<>> /\ newest' = Head(unread) /\ unread' = Tail(unread)
        /\ UNCHANGED <<running, size, last, writing, stored, unsaved>>
      BY <1>3 DEF Receive
  <2>2. /\ Head(unread) = unread[1] /\ 1 \in DOMAIN unread /\ unread[1] \in Nat
        /\ unread' \in Seq(Nat) /\ Len(unread') = Len(unread) - 1
        /\ \A i \in DOMAIN unread' : i + 1 \in DOMAIN unread /\ unread'[i] = unread[i + 1]
      BY <2>1
  <2>3. SizeTypeOK'
      BY <2>1, <2>2
  <2>4. OnTheWay' = OnTheWay
    <3>1. CASE unread' = <<>>
        BY <2>1, <2>2, <3>1
    <3>2. CASE unread' # <<>>
        BY <2>1, <2>2, <3>2
    <3> QED
        BY <3>1, <3>2
  <2>5. LastSizeArrives'
      BY <2>1, <2>4
  <2>6. OnlyUsableIsSaved'
      BY <2>1, <2>2
  <2> QED
      BY <2>3, <2>5, <2>6
<1>4. CASE Settle
    BY <1>4 DEF Settle
<1>5. ASSUME NEW ok \in BOOLEAN, StoreSize(ok) PROVE SizeInv'
    BY <1>5 DEF StoreSize
<1>6. CASE EndProgram
  <2>1. /\ running' = FALSE /\ unsaved' = FALSE /\ unread' = <<>>
        /\ newest' = NoSize /\ writing' = NoSize /\ UNCHANGED <<size, last, stored>>
      BY <1>6 DEF EndProgram
  <2>2. unread' \in Seq(Nat) /\ Len(unread') = 0 /\ DOMAIN unread' = {}
      BY <2>1
  <2>3. SizeTypeOK'
    <3>1. running' \in BOOLEAN /\ unsaved' \in BOOLEAN /\ size' \in Nat
        BY <2>1
    <3>2. {last, newest, writing, stored}' \subseteq Nat \cup {NoSize}
        BY <2>1
    <3> QED
        BY <2>2, <3>1, <3>2
  <2>4. LastSizeArrives' /\ OnlyUsableIsSaved'
      BY <2>1, <2>2
  <2> QED
      BY <2>3, <2>4
<1>7. CASE UNCHANGED sizeVars
    BY <1>7 DEF sizeVars
<1> QED
    BY <1>1, <1>2, <1>3, <1>4, <1>5, <1>6, <1>7 DEF SizeNext

\* At the start the size remembered is the stored one, or nothing has been seen.
LEMMA SizeStart == SizeInit => SizeInv
<1> SUFFICES ASSUME SizeInit PROVE SizeInv
    OBVIOUS
<1> USE SizeAssumption DEF SizeInit, SizeAssumption
<1>1. unread \in Seq(Nat) /\ Len(unread) = 0 /\ DOMAIN unread = {}
    OBVIOUS
<1>2. {last, newest, writing, stored} \subseteq Nat \cup {NoSize}
  <2>1. MinSize - 1 \in Nat
      OBVIOUS
  <2>2. stored \in Nat \cup {NoSize}
      BY <2>1
  <2> QED
      BY <2>2
<1>3. running \in BOOLEAN /\ unsaved \in BOOLEAN /\ size \in Nat
    OBVIOUS
<1>4. SizeTypeOK
    BY <1>1, <1>2, <1>3 DEF SizeTypeOK
<1> QED
    BY <1>1, <1>4 DEF SizeInv, LastSizeArrives, OnlyUsableIsSaved

-----------------------------------------------------------------------------
\* The auto-start switch.

\* A toggle whose write stands alone: what the switch shows, and what the registry
\* holds at each stage of the write.
SoundToggle(j) ==
  /\ j.n = seq
  /\ switch <=> j.kind = "add"
  /\ j.stage # "done" => ~j.failed
  /\ j.stage = "query" => j.blind \/ (value <=> j.kind = "remove")
  /\ j.stage = "write" => j.kind = "remove" /\ value
  /\ j.stage = "done" => IF j.failed THEN j.blind \/ (value <=> j.kind = "remove")
                                     ELSE value <=> j.kind = "add"

\* The reading is the job without a number, and only a removal deletes.
Numbered(j) == (j.kind = "read" <=> j.n = 0) /\ (j.stage = "write" => j.kind = "remove")

\* As long as nothing makes the switch unsure, there is one such toggle at most, the
\* last; and where there is none and the reading is not awaited, all is as shown.
SwitchInv ==
  /\ AutostartTypeOK /\ OneJobCounts
  /\ \A j \in jobs : Numbered(j)
  /\ unsure = {} =>
       /\ \A j \in Toggles : SoundToggle(j)
       /\ \A j \in jobs : j.kind = "read" /\ seq = 0 /\ j.stage = "done" => (j.found <=> value)
       /\ Toggles = {} /\ (seq > 0 \/ jobs = {}) => (switch <=> value)

\* Before any job has run there is nothing to set the switch.
LEMMA SwitchStart == AutostartInit => SwitchInv
<1> SUFFICES ASSUME AutostartInit PROVE SwitchInv
    OBVIOUS
<1> USE AutostartAssumption DEF AutostartAssumption, AutostartInit
<1>1. jobs = {Job(0, "read", FALSE)} /\ seq = 0 /\ unsure = {}
    OBVIOUS
<1>2. Toggles = {}
    BY <1>1 DEF Toggles, Job
<1>3. switch \in BOOLEAN /\ value \in BOOLEAN /\ seq \in 0 .. MaxToggles
  <2>1. switch = FALSE
      OBVIOUS
  <2>2. value \in BOOLEAN
      OBVIOUS
  <2>3. seq \in 0 .. MaxToggles
      OBVIOUS
  <2> QED
      BY <2>1, <2>2, <2>3
<1>4. Job(0, "read", FALSE) \in
        [n : 0 .. seq, kind : {"read", "add", "remove"}, blind : BOOLEAN,
         stage : {"query", "write", "done"}, found : BOOLEAN, failed : BOOLEAN]
    BY <1>1 DEF Job
<1>5. AutostartTypeOK
    BY <1>1, <1>3, <1>4 DEF AutostartTypeOK
<1>6. OneJobCounts
    BY <1>1 DEF OneJobCounts
<1>7. \A j \in jobs : j.kind = "read" /\ j.n = 0 /\ j.stage = "query"
    BY <1>1 DEF Job
<1>8. jobs # {}
    BY <1>1
<1>9. \A j \in jobs : Numbered(j)
    BY <1>7 DEF Numbered
<1>10. \A j \in jobs : j.stage # "done"
    BY <1>7
<1>11. ~ (seq > 0)
    BY <1>1
<1> QED
    BY <1>2, <1>5, <1>6, <1>8, <1>9, <1>10, <1>11 DEF SwitchInv

\* When no job is left, what SwitchInv says of the newest one is said of the switch.
LEMMA SwitchIsSound == SwitchInv => AutostartInv
<1> SUFFICES ASSUME SwitchInv PROVE AutostartInv
    OBVIOUS
<1>1. switch \in BOOLEAN /\ value \in BOOLEAN
    BY DEF SwitchInv, AutostartTypeOK
<1>2. jobs = {} /\ unsure = {} => (switch <=> value)
    BY DEF SwitchInv, Toggles
<1> QED
    BY <1>1, <1>2 DEF SwitchInv, AutostartInv, SwitchIsTheRegistry

\* A step of a job: it keeps its number and kind, so the others are those before.
LEMMA SwitchStep == SwitchInv /\ [AutostartNext]_autostartVars => SwitchInv'
<1> SUFFICES ASSUME SwitchInv, [AutostartNext]_autostartVars PROVE SwitchInv'
    OBVIOUS
<1> USE AutostartAssumption DEF AutostartAssumption
<1> DEFINE Jobs == [n : 0 .. seq, kind : {"read", "add", "remove"}, blind : BOOLEAN,
                    stage : {"query", "write", "done"}, found : BOOLEAN, failed : BOOLEAN]
<1>0. /\ switch \in BOOLEAN /\ value \in BOOLEAN /\ seq \in 0 .. MaxToggles
      /\ jobs \subseteq Jobs /\ unsure \subseteq {"crossed", "misread", "blind"}
      /\ \A j, k \in jobs : j.n = k.n => j = k
      /\ \A j \in jobs : (j.kind = "read" <=> j.n = 0) /\ (j.stage = "write" => j.kind = "remove")
    BY DEF Numbered, SwitchInv, AutostartTypeOK, OneJobCounts
<1>1. CASE SetAutostart
  <2>0. PICK new : new = Job(seq + 1, IF switch THEN "remove" ELSE "add", Toggles # jobs)
      OBVIOUS
  <2>1. /\ seq < MaxToggles /\ switch' = ~switch /\ seq' = seq + 1 /\ value' = value
        /\ jobs' = jobs \cup {new}
        /\ unsure' = IF Toggles # {} THEN unsure \cup {"crossed"} ELSE unsure
      BY <1>1, <2>0 DEF SetAutostart
  <2>2. /\ new.n = seq + 1 /\ new.kind = (IF switch THEN "remove" ELSE "add")
        /\ new.blind = (Toggles # jobs) /\ new.stage = "query" /\ ~new.failed
        /\ new \in Jobs'
      BY <1>0, <2>0, <2>1 DEF Job
  <2>3. jobs' \subseteq Jobs'
      BY <1>0, <2>1, <2>2
  <2>4. AutostartTypeOK'
      BY <1>0, <2>1, <2>3 DEF AutostartTypeOK
  <2>5. \A j \in jobs : j.n \in 0 .. seq
      BY <1>0
  <2>6. OneJobCounts'
      BY <1>0, <2>1, <2>2, <2>5 DEF OneJobCounts
  <2>7. (\A j \in jobs : Numbered(j))'
      BY <1>0, <2>1, <2>2 DEF Numbered
  <2>8. ASSUME unsure' = {}
        PROVE  /\ \A j \in Toggles' : SoundToggle(j)'
               /\ Toggles' # {} /\ seq' > 0
    <3>1. unsure = {} /\ Toggles = {}
        BY <2>1, <2>8
    <3>2. Toggles' = {new}
        BY <2>1, <2>2, <3>1 DEF Toggles
    <3>3. jobs = {} => (switch <=> value)
        BY <3>1 DEF SwitchInv
    <3>4. new.blind \/ (value <=> switch)
        BY <2>2, <3>1, <3>3
    <3>5. SoundToggle(new)'
        BY <1>0, <2>1, <2>2, <3>4 DEF SoundToggle
    <3> QED
        BY <1>0, <2>1, <3>2, <3>5
  <2> QED
      BY <2>4, <2>6, <2>7, <2>8 DEF SwitchInv
<1>2. ASSUME NEW j \in jobs, NEW k \in Jobs, k.n = j.n, k.kind = j.kind, k.blind = j.blind,
             k.stage = "write" => k.kind = "remove", Becomes(j, k), UNCHANGED <<switch, seq>>, value' \in BOOLEAN,
             unsure' \subseteq {"crossed", "misread", "blind"}, unsure \subseteq unsure',
             unsure' = {} /\ j \in Toggles /\ SoundToggle(j) => SoundToggle(k)',
             unsure' = {} /\ k.kind = "read" /\ k.stage = "done" => (k.found <=> value),
             value' # value => j \in Toggles
      PROVE  SwitchInv'
  <2>1. jobs' = (jobs \ {j}) \cup {k} /\ k \in jobs' /\ jobs' # {}
      BY <1>2 DEF Becomes
  <2>2. AutostartTypeOK'
      BY <1>0, <1>2, <2>1 DEF AutostartTypeOK
  <2>3. OneJobCounts'
      BY <1>0, <1>2, <2>1 DEF OneJobCounts
  <2>4. (\A i \in jobs : Numbered(i))'
      BY <1>0, <1>2, <2>1 DEF Numbered
  <2>5. ASSUME unsure' = {} PROVE \A i \in Toggles' : SoundToggle(i)'
    <3>1. unsure = {} /\ \A i \in Toggles : SoundToggle(i)
        BY <1>2, <2>5 DEF SwitchInv
    <3>2. TAKE i \in Toggles'
    <3>3. CASE i = k
        BY <1>2, <2>5, <3>1, <3>3, <3>2 DEF Toggles
    <3>4. CASE i # k
      <4>1. i \in Toggles /\ SoundToggle(i) /\ i # j
          BY <2>1, <3>1, <3>2, <3>4 DEF Toggles
      <4>2. j \notin Toggles
          BY <1>0, <1>2, <3>1, <4>1 DEF SoundToggle, Toggles
      <4>3. value' = value
          BY <1>2, <4>2
      <4> QED
          BY <1>2, <4>1, <4>3 DEF SoundToggle
    <3> QED
        BY <3>3, <3>4
  <2>6. ASSUME unsure' = {}, NEW i \in jobs', i.kind = "read", seq' = 0, i.stage = "done"
        PROVE  (i.found <=> value)'
    <3>1. unsure = {} /\ \A t \in Toggles : SoundToggle(t)
        BY <1>2, <2>6 DEF SwitchInv
    <3>2. Toggles = {}
        BY <1>0, <1>2, <2>6, <3>1 DEF SoundToggle, Toggles
    <3>3. value' = value
        BY <1>2, <3>2
    <3>4. CASE i = k
        BY <1>2, <2>6, <3>3, <3>4
    <3>5. CASE i # k
        BY <1>2, <2>1, <2>6, <3>3, <3>5 DEF SwitchInv
    <3> QED
        BY <3>4, <3>5
  <2>7. ASSUME unsure' = {}, Toggles' = {}, seq' > 0 PROVE (switch <=> value)'
    <3>1. unsure = {}
        BY <1>2, <2>7
    <3>2. Toggles = {}
        BY <1>2, <2>1, <2>7 DEF Toggles
    <3> QED
        BY <1>2, <2>7, <3>1, <3>2 DEF SwitchInv
  <2> QED
      BY <2>1, <2>2, <2>3, <2>4, <2>5, <2>6, <2>7 DEF SwitchInv
<1>3. ASSUME NEW j \in jobs, NEW runs \in BOOLEAN, QueryValue(j, runs) PROVE SwitchInv'
  <2>0. PICK found \in BOOLEAN : found = (value /\ runs)
      BY <1>0, <1>3
  <2>9. PICK k : k = [j EXCEPT !.found = found,
                               !.stage = IF j.kind = "remove" /\ found THEN "write" ELSE "done"]
      OBVIOUS
  <2>1. /\ j.stage = "query" /\ j.kind # "add" /\ Becomes(j, k)
        /\ unsure' = (IF value /\ ~runs THEN unsure \cup {"misread"} ELSE unsure)
        /\ UNCHANGED <<switch, seq, value>>
      BY <1>3, <2>0, <2>9 DEF QueryValue
  <2>2. j \in Jobs
      BY <1>0
  <2>4. /\ k \in Jobs /\ k.n = j.n /\ k.kind = j.kind /\ k.blind = j.blind /\ k.failed = j.failed
        /\ k.found = found
        /\ k.stage = (IF j.kind = "remove" /\ found THEN "write" ELSE "done")
      BY <2>2, <2>9
  <2>5. unsure' = {} => (found <=> value)
      BY <2>0, <2>1
  <2>6. unsure' = {} /\ j \in Toggles /\ SoundToggle(j) => SoundToggle(k)'
      BY <1>0, <2>1, <2>2, <2>4, <2>5 DEF SoundToggle, Toggles
  <2>7. unsure' \subseteq {"crossed", "misread", "blind"} /\ unsure \subseteq unsure'
      BY <1>0, <2>1
  <2> QED
      BY <1>0, <1>2, <2>1, <2>4, <2>5, <2>6, <2>7
<1>4. ASSUME NEW j \in jobs, NEW ok \in BOOLEAN, AddValue(j, ok) PROVE SwitchInv'
  <2>0. PICK k : k = [j EXCEPT !.stage = "done", !.failed = ~ok]
      OBVIOUS
  <2>1. /\ j.stage = "query" /\ j.kind = "add" /\ Becomes(j, k)
        /\ value' = (value \/ ok) /\ UNCHANGED <<switch, seq, unsure>>
      BY <1>4, <2>0 DEF AddValue
  <2>2. j \in Jobs /\ j \in Toggles /\ value' \in BOOLEAN
      BY <1>0, <1>4, <2>1 DEF Toggles
  <2>3. /\ k \in Jobs /\ k.n = j.n /\ k.kind = j.kind /\ k.blind = j.blind
        /\ k.failed = ~ok /\ k.stage = "done"
      BY <2>0, <2>2
  <2>4. SoundToggle(j) => SoundToggle(k)'
      BY <1>0, <2>1, <2>3 DEF SoundToggle
  <2> QED
      BY <1>0, <1>2, <2>1, <2>2, <2>3, <2>4
<1>5. ASSUME NEW j \in jobs, NEW ok \in BOOLEAN, DeleteValue(j, ok) PROVE SwitchInv'
  <2>0. PICK k : k = [j EXCEPT !.stage = "done", !.failed = ~(ok /\ value)]
      OBVIOUS
  <2>1. /\ j.stage = "write" /\ Becomes(j, k)
        /\ value' = (value /\ ~ok) /\ UNCHANGED <<switch, seq, unsure>>
      BY <1>5, <2>0 DEF DeleteValue
  <2>2. j \in Jobs /\ j \in Toggles /\ value' \in BOOLEAN
      BY <1>0, <1>5, <2>1 DEF Toggles
  <2>3. /\ k \in Jobs /\ k.n = j.n /\ k.kind = j.kind /\ k.blind = j.blind
        /\ k.failed = ~(ok /\ value) /\ k.stage = "done"
      BY <2>0, <2>2
  <2>4. SoundToggle(j) => SoundToggle(k)'
      BY <1>0, <2>1, <2>3 DEF SoundToggle
  <2> QED
      BY <1>0, <1>2, <2>1, <2>2, <2>3, <2>4
<1>6. ASSUME NEW j \in jobs, HandleJob(j) PROVE SwitchInv'
  <2>1. /\ j.stage = "done" /\ jobs' = jobs \ {j} /\ UNCHANGED <<seq, value>>
        /\ switch' = IF j.n # seq THEN switch
                     ELSE IF j.kind = "read" THEN j.found
                     ELSE IF j.failed THEN j.kind # "add" ELSE switch
        /\ unsure' = IF j.n = seq /\ j.failed /\ j.blind THEN unsure \cup {"blind"} ELSE unsure
      BY <1>6 DEF HandleJob
  <2>2. switch' \in BOOLEAN /\ j \in Jobs
      BY <1>0, <2>1
  <2>3. AutostartTypeOK' /\ OneJobCounts' /\ (\A i \in jobs : Numbered(i))'
      BY <1>0, <2>1, <2>2 DEF Numbered, AutostartTypeOK, OneJobCounts
  <2>4. ASSUME unsure' = {}
        PROVE  /\ \A i \in Toggles' : SoundToggle(i)'
               /\ \A i \in jobs' : i.kind = "read" /\ seq' = 0 /\ i.stage = "done" => (i.found <=> value')
               /\ Toggles' = {} /\ (seq' > 0 \/ jobs' = {}) => (switch' <=> value')
    <3>1. /\ unsure = {} /\ \A i \in Toggles : SoundToggle(i)
          /\ \A i \in jobs : i.kind = "read" /\ seq = 0 /\ i.stage = "done" => (i.found <=> value)
          /\ Toggles = {} /\ (seq > 0 \/ jobs = {}) => (switch <=> value)
        BY <2>1, <2>4 DEF SwitchInv
    <3>2. CASE j.kind = "read"
      <4>1. j.n = 0 /\ Toggles' = Toggles /\ jobs' \subseteq jobs
          BY <1>0, <2>1, <3>2 DEF Toggles
      <4>2. CASE seq = 0
        <5>1. Toggles = {}
            BY <1>0, <3>1, <4>2 DEF Toggles, SoundToggle
        <5>2. switch' <=> value'
            BY <2>1, <3>1, <3>2, <4>1, <4>2
        <5> QED
            BY <2>1, <3>1, <4>1, <5>1, <5>2
      <4>3. CASE seq # 0
        <5>1. switch' = switch
            BY <2>1, <4>1, <4>3
        <5>2. seq > 0
            BY <1>0, <4>3
        <5> QED
            BY <2>1, <3>1, <4>1, <5>1, <5>2 DEF SoundToggle
      <4> QED
          BY <4>2, <4>3
    <3>3. CASE j.kind # "read"
      <4>1. j \in Toggles /\ SoundToggle(j) /\ j.n = seq
          BY <3>1, <3>3 DEF Toggles, SoundToggle
      <4>2. Toggles' = {}
          BY <1>0, <2>1, <3>1, <4>1 DEF Toggles, SoundToggle
      <4>3. switch' <=> value'
          BY <1>0, <2>1, <2>2, <2>4, <3>3, <4>1 DEF SoundToggle
      <4>4. seq # 0
          BY <1>0, <3>3, <4>1
      <4> QED
          BY <2>1, <4>2, <4>3, <4>4
    <3> QED
        BY <3>2, <3>3
  <2> QED
      BY <2>3, <2>4 DEF SwitchInv
<1>7. CASE UNCHANGED autostartVars
    BY <1>7 DEF autostartVars, SwitchInv, AutostartTypeOK, OneJobCounts, Toggles, Numbered, SoundToggle
<1> QED
    BY <1>1, <1>3, <1>4, <1>5, <1>6, <1>7 DEF AutostartNext

-----------------------------------------------------------------------------
\* The floating ball.

\* The shape is the one of where the view has the ball, or is on its way to it.
ShapeIsAimed ==
  /\ IF moving THEN target = (IF docked THEN Steps ELSE 0)
               ELSE morph = (IF docked THEN Steps ELSE 0)
  /\ docked => edge # None

\* What a frame leaves behind.
PaintedIsDrawn ==
  painted => /\ published = CardHalf(SphereHalf(usage, hovered), morph)
             /\ docked => x = DockLine(edge, published)

DockInv == BallInv /\ ShapeIsAimed /\ PaintedIsDrawn

\* The size of a card is a whole number of units.
LEMMA CardIsWhole ==
  ASSUME NEW u \in 0 .. 1, NEW h \in BOOLEAN, NEW m \in 0 .. Steps
  PROVE  CardHalf(SphereHalf(u, h), m) \in Int
<1> USE BallAssumption DEF BallAssumption
<1>1. PICK s \in Int : s = SphereHalf(u, h)
  <2>1. (MaxHalf - MinHalf) * u \in Int
      BY SMT
  <2>2. PICK p \in Int : p = (IF h THEN PopHalf ELSE 0)
      OBVIOUS
  <2> QED
      BY <2>1, <2>2 DEF SphereHalf
<1>2. s * ShrinkPercent * m \in Int
    BY SMT DEF ShrinkPercent
<1>3. 100 * Steps \in Nat \ {0}
    BY SMT
<1>4. (s * ShrinkPercent * m) \div (100 * Steps) \in Int
    BY <1>2, <1>3
<1> QED
    BY <1>1, <1>4 DEF CardHalf

\* A ball opens at rest, in the shape of where it was left.
LEMMA DockStart == BallInit => DockInv
<1> SUFFICES ASSUME BallInit PROVE DockInv
    OBVIOUS
<1> USE BallAssumption DEF BallAssumption
<1>1. usage = 0 /\ docked = FALSE /\ moving = FALSE /\ dragging = FALSE /\ painted = FALSE
    BY DEF BallInit
<1>2. hovered = FALSE /\ near = FALSE /\ framed = FALSE
    BY DEF BallInit
<1>3. edge = None /\ pending = None /\ dropped = None /\ cmds = <<>> /\ morph = 0 /\ target = 0
    BY DEF BallInit
<1>4. published \in Int /\ offset \in Int /\ pointer \in Int /\ x \in Int
    BY DEF BallInit
<1>5. cmds \in Seq(Edges \cup {None, Refresh}) /\ Len(cmds) <= MaxCommands
    BY <1>3
<1>6. BallTypeOK
  <2>1. {hovered, docked, moving, dragging, near, framed, painted} \subseteq BOOLEAN
      BY <1>1, <1>2
  <2>2. {published, x, offset, pointer} \subseteq Int
      BY <1>4
  <2>3. morph \in 0 .. Steps /\ target \in {0, Steps}
      BY <1>3
  <2>4. {edge, pending, dropped} \subseteq Edges \cup {None}
      BY <1>3
  <2> QED
      BY <1>1, <1>5, <2>1, <2>2, <2>3, <2>4 DEF BallTypeOK
<1>7. DockFollowsDrop
  <2>1. \A i \in DOMAIN cmds : ~Reported(i)
      BY <1>3
  <2> QED
      BY <1>1, <1>3, <2>1 DEF DockFollowsDrop
<1> QED
    BY <1>1, <1>3, <1>6, <1>7 DEF DockInv, BallInv, OwedSnapIsCurrent, DragFollowsPointer,
                                  ShapeIsAimed, PaintedIsDrawn

\* At rest the shape is what the morph aimed at and the place what the last frame left.
LEMMA RestingFollows == DockInv => RestingBallIsWhole
<1> SUFFICES ASSUME DockInv, painted, ~moving, ~dragging, cmds = <<>>
             PROVE  /\ published = CardHalf(SphereHalf(usage, hovered), morph)
                    /\ IF docked THEN morph = Steps /\ x = DockLine(dropped, published)
                                 ELSE morph = 0
    BY DEF RestingBallIsWhole
<1>1. docked => edge = dropped
    BY DEF DockInv, BallInv, DockFollowsDrop
<1> QED
    BY <1>1 DEF DockInv, ShapeIsAimed, PaintedIsDrawn

\* The reports that are waiting, and what the view aims at, after a command is
\* appended that is not a report.
LEMMA RefreshReportsNothing ==
  ASSUME BallTypeOK, DockFollowsDrop, cmds' = Append(cmds, Refresh),
         UNCHANGED <<docked, edge, dropped>>
  PROVE  DockFollowsDrop'
<1>1. cmds \in Seq(Edges \cup {None, Refresh}) /\ Len(cmds) \in Nat
    BY DEF BallTypeOK
<1>2. /\ DOMAIN cmds = 1 .. Len(cmds) /\ DOMAIN cmds' = 1 .. Len(cmds) + 1
      /\ \A i \in 1 .. Len(cmds) : cmds'[i] = cmds[i]
      /\ cmds'[Len(cmds) + 1] = Refresh
    BY <1>1
<1>3. CASE \A i \in DOMAIN cmds : ~Reported(i)
    BY <1>1, <1>2, <1>3 DEF DockFollowsDrop, Reported
<1>4. ASSUME NEW i \in DOMAIN cmds, Reported(i), cmds[i] = dropped,
             \A j \in DOMAIN cmds : Reported(j) => j <= i
      PROVE  DockFollowsDrop'
    BY <1>1, <1>2, <1>4 DEF DockFollowsDrop, Reported
<1> QED
    BY <1>3, <1>4 DEF DockFollowsDrop

\* A report goes to the end of the queue, and is the last.
LEMMA ReportIsLast ==
  ASSUME BallTypeOK, NEW e \in Edges \cup {None}, cmds' = Append(cmds, e), dropped' = e
  PROVE  DockFollowsDrop'
<1> USE BallAssumption DEF BallAssumption
<1>1. cmds \in Seq(Edges \cup {None, Refresh}) /\ Len(cmds) \in Nat
    BY DEF BallTypeOK
<1>2. /\ DOMAIN cmds' = 1 .. Len(cmds) + 1 /\ Len(cmds) + 1 \in DOMAIN cmds'
      /\ cmds'[Len(cmds) + 1] = e
      /\ \A j \in DOMAIN cmds' : j <= Len(cmds) + 1
    BY <1>1
<1>3. e # Refresh
    BY DEF Edges, Refresh
<1> QED
    BY <1>2, <1>3 DEF DockFollowsDrop, Reported

\* A command that is handled leaves the others, each a place further.
LEMMA HandledIsFirst ==
  ASSUME BallTypeOK, cmds # <<>>, cmds' = Tail(cmds)
  PROVE  /\ 1 \in DOMAIN cmds /\ Head(cmds) = cmds[1]
         /\ Head(cmds) \in Edges \cup {None, Refresh}
         /\ \A i \in DOMAIN cmds' : i \in Nat \ {0} /\ i + 1 \in DOMAIN cmds /\ cmds'[i] = cmds[i + 1]
         /\ \A i \in DOMAIN cmds : i # 1 => i - 1 \in DOMAIN cmds' /\ cmds'[i - 1] = cmds[i]
         /\ cmds' \in Seq(Edges \cup {None, Refresh}) /\ Len(cmds') <= MaxCommands
<1>1. /\ cmds \in Seq(Edges \cup {None, Refresh}) /\ Len(cmds) \in Nat \ {0}
      /\ Len(cmds) <= MaxCommands /\ MaxCommands \in Nat
    BY BallAssumption DEF BallTypeOK, BallAssumption
<1>2. /\ Len(cmds') = Len(cmds) - 1 /\ cmds' \in Seq(Edges \cup {None, Refresh})
      /\ DOMAIN cmds = 1 .. Len(cmds) /\ DOMAIN cmds' = 1 .. Len(cmds) - 1
      /\ \A i \in 1 .. Len(cmds) - 1 : cmds'[i] = cmds[i + 1]
    BY <1>1
<1>3. 1 \in DOMAIN cmds /\ Head(cmds) = cmds[1] /\ Head(cmds) \in Edges \cup {None, Refresh}
    BY <1>1, <1>2
<1>4. \A i \in DOMAIN cmds' : i \in Nat \ {0} /\ i + 1 \in DOMAIN cmds /\ cmds'[i] = cmds[i + 1]
    BY <1>1, <1>2
<1>5. \A i \in DOMAIN cmds : i # 1 => i - 1 \in DOMAIN cmds' /\ cmds'[i - 1] = cmds[i]
    BY <1>1, <1>2
<1>6. Len(cmds') <= MaxCommands
    BY <1>1, <1>2
<1> QED
    BY <1>2, <1>3, <1>4, <1>5, <1>6

\* What docking does to the view, morph under way or not.
LEMMA DockingAims ==
  ASSUME BallTypeOK, OwedSnapIsCurrent, ShapeIsAimed, NEW e \in Edges \cup {None}, SetDocked(e)
  PROVE  /\ docked' = (e # None) /\ edge' = (IF e # None THEN e ELSE edge)
         /\ morph' = morph /\ moving' \in BOOLEAN /\ target' \in {0, Steps}
         /\ pending' \in Edges \cup {None}
         /\ ShapeIsAimed' /\ OwedSnapIsCurrent'
<1> USE BallAssumption DEF BallAssumption
<1>1. docked \in BOOLEAN /\ moving \in BOOLEAN /\ target \in {0, Steps}
      /\ edge \in Edges \cup {None} /\ pending \in Edges \cup {None}
    BY DEF BallTypeOK
<1>2. /\ edge' = IF e # None THEN e ELSE edge
      /\ pending' = IF e = None THEN None ELSE IF docked /\ e # edge THEN e ELSE pending
    BY DEF SetDocked
<1>3. pending' \in Edges \cup {None}
    BY <1>1, <1>2
<1>4. CASE docked = (e # None) /\ (e = None \/ e = edge)
  <2>1. UNCHANGED <<docked, morph, target, moving>>
      BY <1>4 DEF SetDocked
  <2>2. edge' = edge
      BY <1>2, <1>4
  <2>3. ShapeIsAimed'
      BY <2>1, <2>2 DEF ShapeIsAimed
  <2>4. OwedSnapIsCurrent'
      BY <1>2, <1>4, <2>1, <2>2 DEF OwedSnapIsCurrent
  <2> QED
      BY <1>1, <1>2, <1>3, <1>4, <2>1, <2>3, <2>4
<1>5. CASE ~ (docked = (e # None) /\ (e = None \/ e = edge))
  <2>1. docked' = (e # None) /\ MorphTo(IF e # None THEN Steps ELSE 0)
      BY <1>5 DEF SetDocked
  <2>2. PICK t \in {0, Steps} : t = IF e # None THEN Steps ELSE 0
      OBVIOUS
  <2>3. MorphTo(t)
      BY <2>1, <2>2
  <2>4. /\ morph' = morph /\ moving' \in BOOLEAN /\ target' \in {0, Steps}
        /\ IF moving' THEN target' = t ELSE morph' = t
      BY <1>1, <2>3 DEF MorphTo
  <2>5. ShapeIsAimed'
      BY <1>2, <2>1, <2>2, <2>4 DEF ShapeIsAimed
  <2>6. OwedSnapIsCurrent'
      BY <1>2, <1>5, <2>1 DEF OwedSnapIsCurrent
  <2> QED
      BY <1>2, <1>3, <2>1, <2>4, <2>5, <2>6
<1> QED
    BY <1>4, <1>5

\* Every step of mouse, queue and frames keeps DockInv.
LEMMA DockStep == DockInv /\ [BallNext]_ballVars => DockInv'
<1> SUFFICES ASSUME DockInv, [BallNext]_ballVars PROVE DockInv'
    OBVIOUS
<1> USE BallAssumption DEF BallAssumption
<1>0. /\ usage \in 0 .. 1 /\ hovered \in BOOLEAN /\ docked \in BOOLEAN /\ moving \in BOOLEAN
      /\ dragging \in BOOLEAN /\ near \in BOOLEAN /\ framed \in BOOLEAN /\ painted \in BOOLEAN
      /\ published \in Int /\ x \in Int /\ offset \in Int /\ pointer \in Int
      /\ morph \in 0 .. Steps /\ target \in {0, Steps}
      /\ edge \in Edges \cup {None} /\ pending \in Edges \cup {None} /\ dropped \in Edges \cup {None}
      /\ cmds \in Seq(Edges \cup {None, Refresh}) /\ Len(cmds) <= MaxCommands /\ Len(cmds) \in Nat
    BY DEF DockInv, BallInv, BallTypeOK
<1>9. /\ BallTypeOK /\ DockFollowsDrop /\ OwedSnapIsCurrent /\ DragFollowsPointer
      /\ ShapeIsAimed /\ PaintedIsDrawn
    BY DEF DockInv, BallInv
<1>1. ASSUME NEW g \in Grabs, NEW double \in BOOLEAN, Press(g, double) PROVE DockInv'
  <2>1. /\ ~dragging /\ pointer' = x + g
        /\ IF double THEN UNCHANGED <<dragging, offset, framed>>
                     ELSE dragging' = TRUE /\ offset' = g /\ framed' = FALSE
        /\ near' = TRUE
        /\ UNCHANGED <<usage, hovered, published, x, docked, edge, morph, target, moving, pending,
                       cmds, dropped, painted>>
      BY <1>1 DEF Press, viewVars
  <2>2. near' \in BOOLEAN /\ dragging' \in BOOLEAN /\ framed' \in BOOLEAN
      BY <1>0, <1>1, <2>1
  <2>3. offset' \in Int /\ pointer' \in Int
      BY <1>0, <1>1, <2>1
  <2>4. BallTypeOK'
      BY <1>0, <2>1, <2>2, <2>3 DEF BallTypeOK
  <2>5. DragFollowsPointer'
    <3>1. g \in Int /\ x = (x + g) - g
        BY <1>0, <1>1
    <3>2. CASE double
        BY <2>1, <3>2 DEF DragFollowsPointer
    <3>3. CASE ~double
        BY <2>1, <3>1, <3>3 DEF DragFollowsPointer
    <3> QED
        BY <3>2, <3>3
  <2>6. DockFollowsDrop' /\ OwedSnapIsCurrent' /\ ShapeIsAimed' /\ PaintedIsDrawn'
      BY <1>9, <2>1 DEF DockFollowsDrop, Reported, OwedSnapIsCurrent, ShapeIsAimed, PaintedIsDrawn
  <2> QED
      BY <2>4, <2>5, <2>6 DEF DockInv, BallInv
<1>2. ASSUME NEW g \in Grabs, PressIcon(g) PROVE DockInv'
  <2>1. /\ ~dragging /\ pointer' = x + g /\ Len(cmds) < MaxCommands /\ cmds' = Append(cmds, Refresh)
        /\ UNCHANGED <<usage, hovered, published, x, docked, edge, morph, target, moving, pending,
                       dragging, offset, near, dropped, framed, painted>>
      BY <1>2 DEF PressIcon, viewVars, dragVars
  <2>2. cmds' \in Seq(Edges \cup {None, Refresh}) /\ Len(cmds') <= MaxCommands
      BY <1>0, <2>1
  <2>3. pointer' \in Int
      BY <1>0, <1>2, <2>1
  <2>4. BallTypeOK'
      BY <1>0, <2>1, <2>2, <2>3 DEF BallTypeOK
  <2>5. DockFollowsDrop'
      BY <1>9, <2>1, RefreshReportsNothing
  <2>6. DragFollowsPointer' /\ OwedSnapIsCurrent' /\ ShapeIsAimed' /\ PaintedIsDrawn'
      BY <1>9, <2>1 DEF DragFollowsPointer, OwedSnapIsCurrent, ShapeIsAimed, PaintedIsDrawn
  <2> QED
      BY <2>4, <2>5, <2>6 DEF DockInv, BallInv
<1>3. ASSUME NEW p \in Points, Move(p) PROVE DockInv'
  <2>1. /\ pointer' = p /\ near' = FALSE
        /\ IF dragging THEN x' = p - offset /\ framed' = FALSE /\ painted' = FALSE
                       ELSE UNCHANGED <<x, framed, painted>>
        /\ UNCHANGED <<usage, hovered, published, docked, edge, morph, target, moving, pending,
                       dragging, offset, cmds, dropped>>
      BY <1>3 DEF Move, viewVars
  <2>2. near' \in BOOLEAN /\ framed' \in BOOLEAN /\ painted' \in BOOLEAN
      BY <1>0, <2>1
  <2>3. x' \in Int /\ pointer' \in Int
      BY <1>0, <1>3, <2>1
  <2>4. BallTypeOK'
      BY <1>0, <2>1, <2>2, <2>3 DEF BallTypeOK
  <2>5. DragFollowsPointer'
      BY <1>0, <2>1 DEF DragFollowsPointer
  <2>6. PaintedIsDrawn'
      BY <1>9, <2>1 DEF PaintedIsDrawn
  <2>7. DockFollowsDrop' /\ OwedSnapIsCurrent' /\ ShapeIsAimed'
      BY <1>9, <2>1 DEF DockFollowsDrop, Reported, OwedSnapIsCurrent, ShapeIsAimed
  <2> QED
      BY <2>4, <2>5, <2>6, <2>7 DEF DockInv, BallInv
<1>4. CASE Release
  <2>1. PICK e \in Edges \cup {None} :
          /\ Len(cmds) < MaxCommands /\ dragging' = FALSE
          /\ x' = IF e = None THEN x ELSE DockLine(e, published)
          /\ cmds' = Append(cmds, e) /\ dropped' = e /\ painted' = FALSE
    <3>1. DropEdge \in Edges \cup {None}
        BY DEF DropEdge, DockEdgeFor, Edges
    <3> QED
        BY <1>4, <3>1 DEF Release
  <2>2. UNCHANGED <<usage, hovered, published, docked, edge, morph, target, moving, pending,
                    offset, near, pointer, framed>>
      BY <1>4 DEF Release, viewVars
  <2>3. x' \in Int
    <3>1. DockLine(e, published) \in Int
        BY <1>0 DEF DockLine, Gap
    <3> QED
        BY <1>0, <2>1, <3>1
  <2>4. cmds' \in Seq(Edges \cup {None, Refresh}) /\ Len(cmds') <= MaxCommands
      BY <1>0, <2>1
  <2>5. dragging' \in BOOLEAN /\ painted' \in BOOLEAN
      BY <2>1
  <2>6. BallTypeOK'
      BY <1>0, <2>1, <2>2, <2>3, <2>4, <2>5 DEF BallTypeOK
  <2>7. DockFollowsDrop'
      BY <1>9, <2>1, ReportIsLast
  <2>8. DragFollowsPointer' /\ OwedSnapIsCurrent' /\ ShapeIsAimed' /\ PaintedIsDrawn'
      BY <1>9, <2>1, <2>2 DEF DragFollowsPointer, OwedSnapIsCurrent, ShapeIsAimed, PaintedIsDrawn
  <2> QED
      BY <2>6, <2>7, <2>8 DEF DockInv, BallInv
<1>5. CASE Hover \/ SetUsage
  <2>1. /\ painted' = FALSE
        /\ UNCHANGED <<published, x, docked, edge, morph, target, moving, pending,
                       dragging, offset, near, pointer, cmds, dropped, framed>>
      BY <1>5 DEF Hover, SetUsage, viewVars, dragVars
  <2>2. hovered' \in BOOLEAN /\ usage' \in 0 .. 1
    <3>1. CASE Hover
        BY <1>0, <3>1 DEF Hover
    <3>2. CASE SetUsage
        BY <1>0, <3>2 DEF SetUsage
    <3> QED
        BY <1>5, <3>1, <3>2
  <2>3. painted' \in BOOLEAN
      BY <2>1
  <2>4. BallTypeOK'
      BY <1>0, <2>1, <2>2, <2>3 DEF BallTypeOK
  <2>5. DragFollowsPointer' /\ OwedSnapIsCurrent' /\ ShapeIsAimed' /\ PaintedIsDrawn'
      BY <1>9, <2>1 DEF DragFollowsPointer, OwedSnapIsCurrent, ShapeIsAimed, PaintedIsDrawn
  <2>6. DockFollowsDrop'
      BY <1>9, <2>1 DEF DockFollowsDrop, Reported
  <2> QED
      BY <2>4, <2>5, <2>6 DEF DockInv, BallInv
<1>6. CASE HandleCommand
  <2>1. /\ cmds # <<>> /\ cmds' = Tail(cmds)
        /\ UNCHANGED <<usage, hovered, published, x, dragging, offset, near, pointer, dropped, framed>>
      BY <1>6 DEF HandleCommand, dragVars
  <2>2. /\ 1 \in DOMAIN cmds /\ Head(cmds) = cmds[1]
        /\ Head(cmds) \in Edges \cup {None, Refresh}
        /\ \A i \in DOMAIN cmds' : i \in Nat \ {0} /\ i + 1 \in DOMAIN cmds /\ cmds'[i] = cmds[i + 1]
        /\ \A i \in DOMAIN cmds : i # 1 => i - 1 \in DOMAIN cmds' /\ cmds'[i - 1] = cmds[i]
        /\ cmds' \in Seq(Edges \cup {None, Refresh}) /\ Len(cmds') <= MaxCommands
      BY <1>9, <2>1, HandledIsFirst
  <2>3. \A i \in DOMAIN cmds : i \in Nat \ {0}
      BY <1>0
  <2>4. CASE Head(cmds) = Refresh
    <3>1. UNCHANGED <<docked, edge, morph, target, moving, pending, painted>>
        BY <1>6, <2>4 DEF HandleCommand, viewVars
    <3>2. BallTypeOK'
        BY <1>0, <2>1, <2>2, <3>1 DEF BallTypeOK
    <3>3. DragFollowsPointer' /\ OwedSnapIsCurrent' /\ ShapeIsAimed' /\ PaintedIsDrawn'
        BY <1>9, <2>1, <3>1 DEF DragFollowsPointer, OwedSnapIsCurrent, ShapeIsAimed, PaintedIsDrawn
    <3>4. ASSUME \A i \in DOMAIN cmds : ~Reported(i) PROVE DockFollowsDrop'
      <4>1. \A i \in DOMAIN cmds' : ~Reported(i)'
          BY <2>2, <3>4 DEF Reported
      <4>2. docked = (dropped # None) /\ (docked => edge = dropped)
          BY <1>9, <3>4 DEF DockFollowsDrop
      <4> QED
          BY <2>1, <3>1, <4>1, <4>2 DEF DockFollowsDrop
    <3>5. ASSUME NEW i \in DOMAIN cmds, Reported(i), cmds[i] = dropped,
                 \A j \in DOMAIN cmds : Reported(j) => j <= i
          PROVE  DockFollowsDrop'
      <4>1. i # 1 /\ i - 1 \in DOMAIN cmds' /\ cmds'[i - 1] = dropped' /\ Reported(i - 1)'
          BY <2>1, <2>2, <2>4, <3>5 DEF Reported
      <4>2. \A j \in DOMAIN cmds' : Reported(j)' => j <= i - 1
          BY <2>2, <2>3, <3>5 DEF Reported
      <4> QED
          BY <4>1, <4>2 DEF DockFollowsDrop
    <3>6. DockFollowsDrop'
        BY <1>9, <3>4, <3>5 DEF DockFollowsDrop
    <3> QED
        BY <3>2, <3>3, <3>6 DEF DockInv, BallInv
  <2>5. CASE Head(cmds) # Refresh
    <3>1. PICK e \in Edges \cup {None} : e = cmds[1] /\ e = Head(cmds)
        BY <2>2, <2>5
    <3>2. SetDocked(e) /\ painted' = FALSE
        BY <1>6, <2>5, <3>1 DEF HandleCommand
    <3>3. /\ docked' = (e # None) /\ edge' = (IF e # None THEN e ELSE edge)
          /\ morph' = morph /\ moving' \in BOOLEAN /\ target' \in {0, Steps}
          /\ pending' \in Edges \cup {None}
          /\ ShapeIsAimed' /\ OwedSnapIsCurrent'
        BY <1>9, <3>2, DockingAims
    <3>4. docked' \in BOOLEAN /\ painted' \in BOOLEAN /\ edge' \in Edges \cup {None}
        BY <1>0, <3>2, <3>3
    <3>5. BallTypeOK'
        BY <1>0, <2>1, <2>2, <3>3, <3>4 DEF BallTypeOK
    <3>6. DragFollowsPointer' /\ PaintedIsDrawn'
        BY <1>9, <2>1, <3>2 DEF DragFollowsPointer, PaintedIsDrawn
    <3>7. ASSUME NEW i \in DOMAIN cmds, Reported(i), cmds[i] = dropped,
                 \A j \in DOMAIN cmds : Reported(j) => j <= i
          PROVE  DockFollowsDrop'
      <4>1. CASE i = 1
        <5>1. \A j \in DOMAIN cmds' : ~Reported(j)'
            BY <2>2, <2>3, <3>7, <4>1 DEF Reported
        <5>2. dropped' = e
            BY <2>1, <3>1, <3>7, <4>1
        <5> QED
            BY <3>3, <5>1, <5>2 DEF DockFollowsDrop
      <4>2. CASE i # 1
        <5>1. i - 1 \in DOMAIN cmds' /\ cmds'[i - 1] = dropped' /\ Reported(i - 1)'
            BY <2>1, <2>2, <3>7, <4>2 DEF Reported
        <5>2. \A j \in DOMAIN cmds' : Reported(j)' => j <= i - 1
            BY <2>2, <2>3, <3>7 DEF Reported
        <5> QED
            BY <5>1, <5>2 DEF DockFollowsDrop
      <4> QED
          BY <4>1, <4>2
    <3>8. Reported(1)
        BY <2>2, <2>5 DEF Reported
    <3>9. DockFollowsDrop'
        BY <1>9, <2>2, <3>7, <3>8 DEF DockFollowsDrop
    <3> QED
        BY <3>3, <3>5, <3>6, <3>9 DEF DockInv, BallInv
  <2> QED
      BY <2>4, <2>5
<1>7. ASSUME NEW m \in Advanced, Frame(m) PROVE DockInv'
  <2>1. PICK half : half = CardHalf(SphereHalf(usage, hovered), m)
      OBVIOUS
  <2>2. PICK landed \in BOOLEAN : landed = (moving /\ m = target)
      BY <1>0
  <2>3. PICK owed : owed = (IF landed /\ target = Steps /\ edge # None THEN edge ELSE pending)
      OBVIOUS
  <2>4. /\ morph' = m /\ moving' = (moving /\ ~landed) /\ pending' = None /\ published' = half
        /\ edge' = (IF landed /\ target = 0 /\ ~docked THEN None ELSE edge)
        /\ x' = (IF owed # None THEN DockLine(owed, half)
                 ELSE IF docked /\ edge' # None THEN DockLine(edge', half) ELSE x)
        /\ framed' = (framed \/ (dragging /\ docked)) /\ painted' = TRUE
      BY <1>7, <2>1, <2>2, <2>3 DEF Frame, AfterMorph
  <2>5. UNCHANGED <<usage, hovered, docked, target, dragging, offset, near, pointer, cmds, dropped>>
      BY <1>7 DEF Frame, dragVars
  <2>6. m \in 0 .. Steps
      BY <1>0, <1>7 DEF Advanced
  <2>7. half \in Int
      BY <1>0, <2>1, <2>6, CardIsWhole
  <2>8. /\ moving' \in BOOLEAN /\ framed' \in BOOLEAN /\ painted' \in BOOLEAN
        /\ edge' \in Edges \cup {None} /\ pending' \in Edges \cup {None}
      BY <1>0, <2>4
  <2>9. x' \in Int
    <3>1. \A e \in Edges \cup {None} : DockLine(e, half) \in Int
        BY <2>7 DEF DockLine, Gap
    <3>2. owed \in Edges \cup {None}
        BY <1>0, <2>3
    <3> QED
        BY <1>0, <2>4, <2>8, <3>1, <3>2
  <2>10. BallTypeOK'
      BY <1>0, <2>4, <2>5, <2>6, <2>7, <2>8, <2>9 DEF BallTypeOK
  <2>11. docked => edge' = edge /\ edge # None
      BY <1>9, <2>4 DEF ShapeIsAimed
  <2>12. DockFollowsDrop'
      BY <1>9, <2>5, <2>11 DEF DockFollowsDrop, Reported
  <2>13. OwedSnapIsCurrent'
      BY <2>4 DEF OwedSnapIsCurrent
  <2>14. ~docked => owed = None
      BY <1>0, <1>9, <2>2, <2>3 DEF ShapeIsAimed, OwedSnapIsCurrent
  <2>15. DragFollowsPointer'
      BY <1>9, <2>4, <2>5, <2>14 DEF DragFollowsPointer
  <2>16. ShapeIsAimed'
    <3>1. ~moving => m = morph
        BY <1>7 DEF Advanced
    <3>2. docked' => edge' # None
        BY <2>5, <2>11
    <3>3. IF moving' THEN target' = (IF docked' THEN Steps ELSE 0)
                     ELSE morph' = (IF docked' THEN Steps ELSE 0)
        BY <1>9, <2>2, <2>4, <2>5, <3>1 DEF ShapeIsAimed
    <3> QED
        BY <3>2, <3>3 DEF ShapeIsAimed
  <2>17. PaintedIsDrawn'
    <3>1. docked => owed = None \/ owed = edge
        BY <1>9, <2>3 DEF OwedSnapIsCurrent
    <3>2. published' = CardHalf(SphereHalf(usage, hovered), morph)'
        BY <2>1, <2>4, <2>5 DEF CardHalf, SphereHalf
    <3>3. docked => x' = DockLine(edge', half)
        BY <2>4, <2>11, <3>1
    <3> QED
        BY <2>4, <2>5, <3>2, <3>3 DEF PaintedIsDrawn, DockLine
  <2> QED
      BY <2>10, <2>12, <2>13, <2>15, <2>16, <2>17 DEF DockInv, BallInv
<1>8. CASE UNCHANGED ballVars
  <2>1. UNCHANGED <<usage, hovered, published, x, docked, edge, morph, target, moving, pending,
                    dragging, offset, near, pointer, cmds, dropped, framed, painted>>
      BY <1>8 DEF ballVars, viewVars, dragVars
  <2>2. BallTypeOK'
      BY <1>9, <2>1 DEF BallTypeOK
  <2>3. DragFollowsPointer' /\ OwedSnapIsCurrent' /\ ShapeIsAimed' /\ PaintedIsDrawn'
      BY <1>9, <2>1 DEF DragFollowsPointer, OwedSnapIsCurrent, ShapeIsAimed, PaintedIsDrawn
  <2>4. DockFollowsDrop'
      BY <1>9, <2>1 DEF DockFollowsDrop, Reported
  <2> QED
      BY <2>2, <2>3, <2>4 DEF DockInv, BallInv
<1> QED
    BY <1>1, <1>2, <1>3, <1>4, <1>5, <1>6, <1>7, <1>8 DEF BallNext

-----------------------------------------------------------------------------
\* What opening the database does.

\* Without an overlap there is one copy at a time, into a file of its own, and none
\* once a copy has the database's name.
CopyInv == ~overlapped =>
  /\ \A p, q \in Programs : at[p] \in Copying /\ at[q] \in Copying => p = q
  /\ named \in Programs => named \in whole /\ \A p \in Programs : at[p] \notin Copying
  /\ \A p \in Programs :
       /\ at[p] \notin {"waiting", "writing"} => handle[p] = NoProgram
       /\ at[p] = "removed" => tmp = NoProgram
       /\ at[p] \in {"waiting", "writing"} => tmp = p /\ handle[p] = p
       /\ at[p] = "copied" => tmp = p /\ p \in whole

\* Whoever copies has a file open.
HandleInv == \A p \in Programs : at[p] \in {"waiting", "writing"} => handle[p] \in Programs

\* Old keys go before CodeBuddy's rebuild goes on, and nothing brings them back.
KeysInv == ~overlapped =>
  /\ db.keys => "old key" \notin Present
  /\ \A p \in Programs :
       /\ at[p] = "costing" => todo[p] \subseteq Present
       /\ at[p] \in {"unprinting", "unfiling", "marking"} => "old key" \notin Present
       /\ at[p] \in {"running", "reading", "inserted", "filed"} => db.keys

\* What vouches for CodeBuddy's rows is gone before the rebuild is marked, and
\* comes back after the rows have.
VouchInv == ~overlapped =>
  /\ ~db.keys => \A p \in Programs :
       /\ at[p] \in {"unfiling", "marking"} => ~db.print
       /\ at[p] = "marking" => ~db.files
  /\ db.keys /\ ~raced =>
       /\ db.print \/ db.files => "new key" \in Present
       /\ \A p \in Programs :
            at[p] \in {"inserted", "filed"} \/ (at[p] = "reading" /\ known[p]) => "new key" \in Present

IsPriced(r) == r \in Present => db.cost[r] = Cost(lastBuild, r)

\* Among programs of one version, what a costing has passed is priced, and so is
\* everything once it is marked.
PriceInv == ~overlapped /\ ~mixed =>
  /\ db.price <= lastBuild
  /\ \A p \in Programs : at[p] # "off" => version[p] = lastBuild
  /\ \A r \in Row :
       /\ db.price = lastBuild => IsPriced(r)
       /\ \A p \in Programs :
            at[p] \in Priced \/ (at[p] = "costing" /\ r \notin todo[p]) => IsPriced(r)

OpenInv == RebuildTypeOK /\ HandleInv /\ CopyInv /\ KeysInv /\ VouchInv /\ PriceInv

\* The solvers do not find this where the factors are large terms.
LEMMA ProductIsNat == ASSUME NEW a \in Nat, NEW b \in Nat PROVE a * b \in Nat
    OBVIOUS

\* Whatever a name resolves to, a cost is a whole number, and none is the mark of a
\* row that is not there.
LEMMA CostIsNat ==
  ASSUME NEW p \in Programs, NEW b \in Builds, NEW r \in Row PROVE Cost(b[p], r) \in Nat
<1> DEFINE table == Models[b[p]]
           id == ResolveId(table, Request[r].model, Request[r].provider)
           t == Request[r].tokens
<1>1. CASE id \in DOMAIN table
  <2>1. table[id] \in PerBucket /\ t \in PerBucket
      BY <1>1, RebuildAssumption
  <2> DEFINE price == table[id]
  <2> HIDE DEF price, t
  <2>2. /\ t.input \in Nat /\ t.output \in Nat /\ t.cacheRead \in Nat /\ t.cacheWrite \in Nat
        /\ price.input \in Nat /\ price.output \in Nat
        /\ price.cacheRead \in Nat /\ price.cacheWrite \in Nat
      BY <2>1 DEF PerBucket, price
  <2>3. /\ t.input * price.input \in Nat /\ t.output * price.output \in Nat
        /\ t.cacheRead * price.cacheRead \in Nat /\ t.cacheWrite * price.cacheWrite \in Nat
      BY <2>2, ProductIsNat
  <2>4. 3 * (price.output \div 2) \in Nat
      BY <2>2
  <2>5. t.output * (3 * (price.output \div 2)) \in Nat
      BY <2>2, <2>4, ProductIsNat
  <2> DEFINE A == t.input * price.input
             B == t.cacheRead * price.cacheRead
             C == t.output * (3 * (price.output \div 2))
             D == t.output * price.output
             E == t.cacheWrite * price.cacheWrite
  <2>6. Cost(b[p], r) \in {0, 2 * (A + B) + C, 2 * (A + B) + D, 1 * (A + B) + C, 1 * (A + B) + D,
                           A + D + B + E}
      BY <1>1 DEF Cost, CostMicros, price, t
  <2>7. A \in Nat /\ B \in Nat /\ C \in Nat /\ D \in Nat /\ E \in Nat
      BY <2>3, <2>5
  <2> HIDE DEF A, B, C, D, E
  <2> QED
      BY <2>6, <2>7
<1>2. CASE id \notin DOMAIN table
    BY <1>2 DEF Cost, CostMicros
<1> QED
    BY <1>1, <1>2

\* A program's version is a number, and so is what a row costs by its prices.
LEMMA VersionIsBuilt ==
  ASSUME RebuildTypeOK, NEW p \in Programs
  PROVE  version[p] \in Nat \ {0} /\ \A r \in Row : Cost(version[p], r) \in Nat
    BY CostIsNat, RebuildAssumption DEF RebuildTypeOK

\* A step of one program, with the parameters it may have.
RebuildAction(p, ok, r) ==
  \/ Launch(p) \/ RemoveTmp(p) \/ OpenTmp(p) \/ BeginBackup(p) \/ EndBackup(p, ok)
  \/ MoveIntoPlace(p) \/ OpenDatabase(p)
  \/ CheckPrices(p) \/ CostRow(p, r) \/ MarkPrices(p)
  \/ CheckKeys(p) \/ DeleteByProvider(p) \/ RemoveFingerprint(p) \/ RemoveFiles(p) \/ MarkKeys(p)
  \/ BeginScan(p) \/ InsertBatch(p) \/ SaveFiles(p) \/ SavePrint(p) \/ ScanOther(p)
  \/ End(p)

\* Every step leaves a typed database.
LEMMA DatabaseIsTyped ==
  ASSUME RebuildTypeOK, NEW p \in Programs, NEW ok \in BOOLEAN, NEW r \in Row, RebuildAction(p, ok, r)
  PROVE  db' \in [cost : [Row -> Int], price : Nat, keys : BOOLEAN, print : BOOLEAN, files : BOOLEAN]
<1> DEFINE Databases ==
      [cost : [Row -> Int], price : Nat, keys : BOOLEAN, print : BOOLEAN, files : BOOLEAN]
<1>1. /\ db \in Databases /\ version[p] \in Nat
      /\ \A s \in Row : Cost(version[p], s) \in Int /\ Stamped(p, s) \in Int
    BY VersionIsBuilt DEF RebuildTypeOK, Stamped
<1>2. Fresh \in Databases /\ Legacy \in Databases
  <2>1. /\ [s \in Row |-> Absent] \in [Row -> Int]
        /\ [s \in Row |-> IF s = "new key" THEN Absent ELSE 0] \in [Row -> Int]
      BY DEF Absent
  <2>2. Fresh \in Databases
      BY <2>1 DEF Fresh
  <2> QED
      BY <2>1, <2>2 DEF Legacy
<1>3. CASE db' \in {db, Fresh, Legacy}
    BY <1>1, <1>2, <1>3
<1>4. ASSUME NEW s \in Row, NEW c \in Int, db' = [db EXCEPT !.cost[s] = c] PROVE db' \in Databases
    BY <1>1, <1>4
<1>5. CASE DeleteByProvider(p)
  <2>1. [s \in Row |-> IF s \in Codebuddy THEN Absent ELSE db.cost[s]] \in [Row -> Int]
      BY <1>1 DEF Absent
  <2> QED
      BY <1>1, <1>5, <2>1 DEF DeleteByProvider
<1>6. CASE MarkPrices(p)
    BY <1>1, <1>6 DEF MarkPrices
<1>7. CASE RemoveFingerprint(p) \/ RemoveFiles(p) \/ MarkKeys(p) \/ SaveFiles(p) \/ SavePrint(p)
    BY <1>1, <1>7 DEF RemoveFingerprint, RemoveFiles, MarkKeys, SaveFiles, SavePrint
<1>8. CASE CostRow(p, r)
    BY <1>1, <1>4, <1>8 DEF CostRow
<1>9. CASE InsertBatch(p) \/ ScanOther(p)
    BY <1>1, <1>3, <1>4, <1>9 DEF InsertBatch, ScanOther, Row
<1>10. CASE \/ Launch(p) \/ RemoveTmp(p) \/ OpenTmp(p) \/ BeginBackup(p) \/ EndBackup(p, ok)
            \/ MoveIntoPlace(p) \/ OpenDatabase(p) \/ CheckPrices(p) \/ CheckKeys(p)
            \/ BeginScan(p) \/ End(p)
    BY <1>3, <1>10
    DEF Launch, RemoveTmp, OpenTmp, BeginBackup, UnchangedData, EndBackup, MoveIntoPlace,
        OpenDatabase, CheckPrices, CheckKeys, BeginScan, End
<1> QED
    BY <1>5, <1>6, <1>7, <1>8, <1>9, <1>10 DEF RebuildAction

\* What an action leaves to the place of its program, and of the others.
LEMMA PlacesAreTyped ==
  ASSUME RebuildTypeOK, NEW p \in Programs, NEW ok \in BOOLEAN, NEW r \in Row, RebuildAction(p, ok, r)
  PROVE  at' \in [Programs -> Places]
<1> USE DEF RebuildTypeOK, Places, Copying, Opened, Goto
<1>1. CASE MoveIntoPlace(p)
    BY <1>1 DEF MoveIntoPlace
<1>2. CASE Launch(p) \/ RemoveTmp(p) \/ OpenTmp(p) \/ BeginBackup(p)
    BY <1>2 DEF Launch, RemoveTmp, OpenTmp, BeginBackup
<1>3. CASE EndBackup(p, ok) \/ OpenDatabase(p) \/ End(p)
    BY <1>3 DEF EndBackup, OpenDatabase, End
<1>4. CASE CheckPrices(p) \/ CostRow(p, r) \/ MarkPrices(p) \/ CheckKeys(p)
    BY <1>4 DEF CheckPrices, CostRow, MarkPrices, CheckKeys
<1>5. CASE DeleteByProvider(p) \/ RemoveFingerprint(p) \/ RemoveFiles(p) \/ MarkKeys(p)
    BY <1>5 DEF DeleteByProvider, RemoveFingerprint, RemoveFiles, MarkKeys
<1>6. CASE BeginScan(p) \/ InsertBatch(p) \/ SaveFiles(p) \/ SavePrint(p) \/ ScanOther(p)
    BY <1>6 DEF BeginScan, InsertBatch, SaveFiles, SavePrint, ScanOther
<1> QED
    BY <1>1, <1>2, <1>3, <1>4, <1>5, <1>6 DEF RebuildAction

\* Every step of a start keeps the types.
LEMMA RebuildTypeStep ==
  ASSUME RebuildTypeOK, HandleInv, NEW p \in Programs, NEW ok \in BOOLEAN, NEW r \in Row, RebuildAction(p, ok, r)
  PROVE  RebuildTypeOK'
<1>1. /\ db' \in [cost : [Row -> Int], price : Nat, keys : BOOLEAN, print : BOOLEAN, files : BOOLEAN]
      /\ at' \in [Programs -> Places]
    BY DatabaseIsTyped, PlacesAreTyped
<1>2. version[p] \in Nat \ {0}
    BY VersionIsBuilt
<1> USE DEF RebuildTypeOK
<1>3. CASE Launch(p) \/ RemoveTmp(p) \/ OpenTmp(p)
    BY <1>1, <1>2, <1>3 DEF Launch, RemoveTmp, OpenTmp, UnchangedData, fileVars
<1>4. CASE BeginBackup(p) \/ OpenDatabase(p)
    BY <1>1, <1>4 DEF BeginBackup, UnchangedData, OpenDatabase
<1>5. CASE EndBackup(p, ok)
  <2>1. whole' \subseteq Programs
      BY <1>5 DEF EndBackup, HandleInv
  <2> QED
      BY <1>1, <1>5, <2>1 DEF EndBackup
<1>6. CASE MoveIntoPlace(p)
  <2>1. named' \in Programs \cup {NoProgram, "fresh"} /\ tmp' \in Programs \cup {NoProgram}
      BY <1>6 DEF MoveIntoPlace
  <2> QED
      BY <1>1, <1>6, <2>1 DEF MoveIntoPlace
<1> USE DEF UnchangedFiles, fileVars
<1>7. CASE CheckPrices(p) \/ CostRow(p, r) \/ MarkPrices(p) \/ CheckKeys(p)
  <2>1. todo' \in [Programs -> SUBSET Row]
      BY <1>7 DEF CheckPrices, CostRow, MarkPrices, CheckKeys, Present
  <2> QED
      BY <1>1, <1>7, <2>1 DEF CheckPrices, CostRow, MarkPrices, CheckKeys
<1>8. CASE DeleteByProvider(p)
  <2>1. todo' \in [Programs -> SUBSET Row]
      BY <1>8 DEF DeleteByProvider
  <2>2. raced' \in BOOLEAN
      BY <1>8 DEF DeleteByProvider
  <2> QED
      BY <1>1, <1>8, <2>1, <2>2 DEF DeleteByProvider
<1>9. CASE RemoveFingerprint(p) \/ RemoveFiles(p) \/ MarkKeys(p)
    BY <1>1, <1>9 DEF RemoveFingerprint, RemoveFiles, MarkKeys
<1>10. CASE BeginScan(p) \/ InsertBatch(p) \/ SaveFiles(p) \/ SavePrint(p) \/ ScanOther(p)
    BY <1>1, <1>10 DEF BeginScan, InsertBatch, SaveFiles, SavePrint, ScanOther
<1>11. CASE End(p)
    BY <1>1, <1>11 DEF End
<1> QED
    BY <1>3, <1>4, <1>5, <1>6, <1>7, <1>8, <1>9, <1>10, <1>11 DEF RebuildAction

\* Every step keeps HandleInv.
LEMMA HandleStep ==
  ASSUME RebuildTypeOK, HandleInv, NEW p \in Programs,
         NEW ok \in BOOLEAN, NEW r \in Row, RebuildAction(p, ok, r)
  PROVE  HandleInv'
<1> USE DEF RebuildTypeOK, HandleInv, Goto, Opened
<1>1. CASE Launch(p) \/ RemoveTmp(p) \/ OpenTmp(p) \/ BeginBackup(p)
    BY <1>1 DEF Launch, RemoveTmp, OpenTmp, BeginBackup, UnchangedData, fileVars
<1>2. CASE EndBackup(p, ok) \/ OpenDatabase(p) \/ End(p)
    BY <1>2 DEF EndBackup, OpenDatabase, End
<1>3. CASE MoveIntoPlace(p)
    BY <1>3 DEF MoveIntoPlace
<1> USE DEF UnchangedFiles, fileVars
<1>4. CASE CheckPrices(p) \/ CostRow(p, r) \/ MarkPrices(p) \/ CheckKeys(p)
    BY <1>4 DEF CheckPrices, CostRow, MarkPrices, CheckKeys
<1>5. CASE DeleteByProvider(p) \/ RemoveFingerprint(p) \/ RemoveFiles(p) \/ MarkKeys(p)
    BY <1>5 DEF DeleteByProvider, RemoveFingerprint, RemoveFiles, MarkKeys
<1>6. CASE BeginScan(p)
    BY <1>6 DEF BeginScan
<1>7. CASE InsertBatch(p)
    BY <1>7 DEF InsertBatch
<1>8. CASE SaveFiles(p) \/ SavePrint(p) \/ ScanOther(p)
    BY <1>8 DEF SaveFiles, SavePrint, ScanOther
<1> QED
    BY <1>1, <1>2, <1>3, <1>4, <1>5, <1>6, <1>7, <1>8 DEF RebuildAction

\* Without an overlap a copy in use stays whole.
LEMMA CopyStep ==
  ASSUME RebuildTypeOK, CopyInv, NEW p \in Programs,
         NEW ok \in BOOLEAN, NEW r \in Row, RebuildAction(p, ok, r)
  PROVE  CopyInv'
<1> USE RebuildAssumption DEF RebuildTypeOK, CopyInv, Copying, Opened, Goto, Held
<1>1. CASE Launch(p)
  <2>1. SUFFICES ASSUME ~overlapped' PROVE CopyInv'
      BY DEF CopyInv
  <2>2. CASE legacy /\ named = NoProgram
      BY <1>1, <2>1, <2>2 DEF Launch, fileVars
  <2>3. CASE ~(legacy /\ named = NoProgram)
      BY <1>1, <2>1, <2>3 DEF Launch, fileVars
  <2> QED
      BY <2>2, <2>3
<1>2. CASE RemoveTmp(p)
    BY <1>2 DEF RemoveTmp, UnchangedData
<1>3. CASE OpenTmp(p)
    BY <1>3 DEF OpenTmp, UnchangedData
<1>4. CASE BeginBackup(p)
    BY <1>4 DEF BeginBackup, UnchangedData
<1>5. CASE EndBackup(p, ok)
    BY <1>5 DEF EndBackup
<1>6. CASE MoveIntoPlace(p)
    BY <1>6 DEF MoveIntoPlace
<1>7. CASE OpenDatabase(p)
    BY <1>7 DEF OpenDatabase
<1>8. CASE CheckPrices(p) \/ CostRow(p, r) \/ MarkPrices(p) \/ CheckKeys(p)
    BY <1>8 DEF CheckPrices, CostRow, MarkPrices, CheckKeys, UnchangedFiles, fileVars
<1>9. CASE DeleteByProvider(p) \/ RemoveFingerprint(p) \/ RemoveFiles(p) \/ MarkKeys(p)
    BY <1>9 DEF DeleteByProvider, RemoveFingerprint, RemoveFiles, MarkKeys, UnchangedFiles, fileVars
<1>10. CASE BeginScan(p)
    BY <1>10 DEF BeginScan, UnchangedFiles, fileVars
<1>13. CASE InsertBatch(p)
    BY <1>13 DEF InsertBatch, UnchangedFiles, fileVars
<1>11. CASE End(p)
    BY <1>11 DEF End
<1>12. CASE SaveFiles(p) \/ SavePrint(p) \/ ScanOther(p)
    BY <1>12 DEF SaveFiles, SavePrint, ScanOther, UnchangedFiles, fileVars
<1> QED
    BY <1>13, <1>12, <1>1, <1>2, <1>3, <1>4, <1>5, <1>6, <1>7, <1>8, <1>9, <1>10, <1>11 DEF RebuildAction

\* A start and a copy leave the database to the programs that have it, or replace it
\* and leave it to none.
LEMMA FilesStep ==
  ASSUME RebuildTypeOK, CopyInv, ~overlapped', NEW p \in Programs, NEW ok \in BOOLEAN,
         \/ Launch(p) \/ RemoveTmp(p) \/ OpenTmp(p) \/ BeginBackup(p) \/ EndBackup(p, ok)
         \/ MoveIntoPlace(p) \/ OpenDatabase(p) \/ End(p)
  PROVE  /\ ~overlapped /\ raced' = raced
         /\ \/ /\ db' = db
               /\ \A q \in Programs :
                    \/ at'[q] = at[q] /\ todo'[q] = todo[q] /\ known'[q] = known[q]
                    \/ at'[q] \notin Priced \cup {"costing"}
            \/ db' = Legacy /\ \A q \in Programs : at'[q] \notin Opened
<1> USE DEF RebuildTypeOK, Goto, Copying, Opened, Priced
<1>1. CASE Launch(p)
    BY <1>1 DEF Launch
<1>2. CASE RemoveTmp(p) \/ OpenTmp(p) \/ BeginBackup(p)
    BY <1>2 DEF RemoveTmp, OpenTmp, BeginBackup, UnchangedData
<1>3. CASE EndBackup(p, ok)
  <2>1. ~overlapped /\ named # handle[p]
      BY <1>3 DEF EndBackup, CopyInv
  <2> QED
      BY <1>3, <2>1 DEF EndBackup
<1>4. CASE MoveIntoPlace(p)
  <2>1. ~overlapped /\ tmp = p /\ p \in whole
      BY <1>4 DEF MoveIntoPlace, CopyInv
  <2> QED
      BY <1>4, <2>1 DEF MoveIntoPlace
<1>5. CASE OpenDatabase(p)
    BY <1>5 DEF OpenDatabase
<1>6. CASE End(p)
    BY <1>6 DEF End
<1> QED
    BY <1>1, <1>2, <1>3, <1>4, <1>5, <1>6

\* The rows after each step that writes rows.
LEMMA RowsStep ==
  ASSUME RebuildTypeOK, NEW p \in Programs
  PROVE  /\ \A r \in Row : CostRow(p, r) => Present' = Present \cup {r}
         /\ DeleteByProvider(p) => Present' = Present \ Codebuddy
         /\ InsertBatch(p) => Present' = IF known[p] THEN Present ELSE Present \cup {"new key"}
         /\ ScanOther(p) => Present' = Present \cup {"other"}
         /\ db'.cost = db.cost => Present' = Present
<1>1. /\ DOMAIN db = {"cost", "price", "keys", "print", "files"} /\ DOMAIN db.cost = Row
      /\ \A s \in Row : Cost(version[p], s) # Absent
    BY VersionIsBuilt DEF RebuildTypeOK, Absent
<1>2. ASSUME NEW s \in Row, NEW c, c # Absent, db' = [db EXCEPT !.cost[s] = c]
      PROVE  Present' = Present \cup {s}
    BY <1>1, <1>2 DEF Present
<1>3. ASSUME NEW r \in Row, CostRow(p, r) PROVE Present' = Present \cup {r}
    BY <1>1, <1>2, <1>3 DEF CostRow
<1>4. ASSUME DeleteByProvider(p) PROVE Present' = Present \ Codebuddy
    BY <1>1, <1>4 DEF DeleteByProvider, Present
<1>5. \A s \in Row : Stamped(p, s) # Absent
    BY <1>1 DEF Stamped
<1>6. ASSUME InsertBatch(p) PROVE Present' = IF known[p] THEN Present ELSE Present \cup {"new key"}
    BY <1>2, <1>5, <1>6 DEF InsertBatch, Row, Present
<1>7. ASSUME ScanOther(p) PROVE Present' = Present \cup {"other"}
    BY <1>2, <1>5, <1>7 DEF ScanOther, Row
<1>8. ASSUME db'.cost = db.cost PROVE Present' = Present
    BY <1>8 DEF Present
<1> QED
    BY <1>3, <1>4, <1>6, <1>7, <1>8

\* No step brings a key of the old kind back.
LEMMA KeysStep ==
  ASSUME RebuildTypeOK, CopyInv, KeysInv, NEW p \in Programs,
         NEW ok \in BOOLEAN, NEW r \in Row, RebuildAction(p, ok, r)
  PROVE  KeysInv'
<1> SUFFICES ASSUME ~overlapped' PROVE KeysInv'
    BY DEF KeysInv
<1>0. /\ CostRow(p, r) => Present' = Present \cup {r}
      /\ DeleteByProvider(p) => Present' = Present \ Codebuddy
      /\ InsertBatch(p) => Present' = IF known[p] THEN Present ELSE Present \cup {"new key"}
      /\ ScanOther(p) => Present' = Present \cup {"other"}
      /\ db'.cost = db.cost => Present' = Present
    BY RowsStep
<1>1. CASE \/ Launch(p) \/ RemoveTmp(p) \/ OpenTmp(p) \/ BeginBackup(p) \/ EndBackup(p, ok)
           \/ MoveIntoPlace(p) \/ OpenDatabase(p) \/ End(p)
  <2>1. /\ ~overlapped /\ raced' = raced
        /\ \/ /\ db' = db
              /\ \A q \in Programs :
                   \/ at'[q] = at[q] /\ todo'[q] = todo[q] /\ known'[q] = known[q]
                   \/ at'[q] \notin Priced \cup {"costing"}
           \/ db' = Legacy /\ \A q \in Programs : at'[q] \notin Opened
      BY <1>1, FilesStep
  <2>2. CASE db' = db /\ db'.cost = db.cost
      BY <1>0, <2>1, <2>2 DEF KeysInv, Priced, Opened, Legacy, Fresh
  <2>3. CASE db' = Legacy /\ \A q \in Programs : at'[q] \notin Opened
      BY <2>3 DEF KeysInv, Opened, Legacy, Fresh
  <2> QED
      BY <2>1, <2>2, <2>3
<1>2. CASE CheckPrices(p)
  <2>1. /\ ~overlapped /\ db' = db /\ db'.cost = db.cost
        /\ \A q \in Programs :
             \/ at'[q] = at[q] /\ todo'[q] = todo[q]
             \/ at'[q] = "keys"
             \/ at'[q] = "costing" /\ todo'[q] = Present
      BY <1>2 DEF CheckPrices, RebuildTypeOK, Goto, UnchangedFiles
  <2> QED
      BY <1>0, <2>1 DEF KeysInv
<1>3. CASE CostRow(p, r)
  <2>1. /\ ~overlapped /\ at' = at /\ at[p] = "costing" /\ r \in todo[p]
        /\ \A q \in Programs : todo'[q] \subseteq todo[q]
      BY <1>3 DEF CostRow, RebuildTypeOK, UnchangedFiles
  <2>2. db'.keys = db.keys
      BY <1>3 DEF CostRow, RebuildTypeOK
  <2>3. r \in Present
      BY <2>1 DEF KeysInv
  <2>4. Present' = Present
      BY <1>0, <1>3, <2>3
  <2> QED
      BY <2>1, <2>2, <2>4 DEF KeysInv
<1>9. CASE MarkKeys(p)
  <2>1. /\ ~overlapped /\ db'.keys /\ db'.cost = db.cost /\ todo' = todo
        /\ at[p] = "marking" /\ at' = [at EXCEPT ![p] = "running"]
      BY <1>9 DEF MarkKeys, RebuildTypeOK, UnchangedFiles, Goto
  <2>2. Present' = Present /\ "old key" \notin Present
      BY <1>0, <2>1 DEF KeysInv
  <2> QED
      BY <2>1, <2>2 DEF KeysInv, RebuildTypeOK
<1> USE <1>0 DEF RebuildTypeOK, KeysInv, UnchangedFiles, Goto, Row, Codebuddy
<1>4. CASE MarkPrices(p)
    BY <1>4 DEF MarkPrices
<1>5. CASE CheckKeys(p)
    BY <1>5 DEF CheckKeys
<1>6. CASE DeleteByProvider(p)
    BY <1>6 DEF DeleteByProvider
<1>7. CASE RemoveFingerprint(p)
    BY <1>7 DEF RemoveFingerprint
<1>8. CASE RemoveFiles(p)
    BY <1>8 DEF RemoveFiles
<1>10. CASE BeginScan(p)
    BY <1>10 DEF BeginScan
<1>11. CASE InsertBatch(p)
    BY <1>11 DEF InsertBatch
<1>12. CASE SaveFiles(p)
    BY <1>12 DEF SaveFiles
<1>13. CASE SavePrint(p)
    BY <1>13 DEF SavePrint
<1>14. CASE ScanOther(p)
    BY <1>14 DEF ScanOther
<1> QED
    BY <1>1, <1>2, <1>3, <1>4, <1>5, <1>6, <1>7, <1>8, <1>9, <1>10, <1>11, <1>12, <1>13, <1>14 DEF RebuildAction

\* No step leaves a state or a fingerprint without the rows it vouches for.
LEMMA VouchStep ==
  ASSUME RebuildTypeOK, CopyInv, KeysInv, VouchInv, NEW p \in Programs,
         NEW ok \in BOOLEAN, NEW r \in Row, RebuildAction(p, ok, r)
  PROVE  VouchInv'
<1> SUFFICES ASSUME ~overlapped' PROVE VouchInv'
    BY DEF VouchInv
<1>0. /\ CostRow(p, r) => Present' = Present \cup {r}
      /\ DeleteByProvider(p) => Present' = Present \ Codebuddy
      /\ InsertBatch(p) => Present' = IF known[p] THEN Present ELSE Present \cup {"new key"}
      /\ ScanOther(p) => Present' = Present \cup {"other"}
      /\ db'.cost = db.cost => Present' = Present
    BY RowsStep
<1>1. CASE \/ Launch(p) \/ RemoveTmp(p) \/ OpenTmp(p) \/ BeginBackup(p) \/ EndBackup(p, ok)
           \/ MoveIntoPlace(p) \/ OpenDatabase(p) \/ End(p)
  <2>1. /\ ~overlapped /\ raced' = raced
        /\ \/ /\ db' = db
              /\ \A q \in Programs :
                   \/ at'[q] = at[q] /\ todo'[q] = todo[q] /\ known'[q] = known[q]
                   \/ at'[q] \notin Priced \cup {"costing"}
           \/ db' = Legacy /\ \A q \in Programs : at'[q] \notin Opened
      BY <1>1, FilesStep
  <2>2. CASE db' = db /\ db'.cost = db.cost
      BY <1>0, <2>1, <2>2 DEF VouchInv, Priced, Opened, Legacy, Fresh
  <2>3. CASE db' = Legacy /\ \A q \in Programs : at'[q] \notin Opened
      BY <2>3 DEF VouchInv, Opened, Legacy, Fresh
  <2> QED
      BY <2>1, <2>2, <2>3
<1>2. CASE CheckPrices(p)
  <2>1. /\ ~overlapped /\ db' = db /\ db'.cost = db.cost /\ known' = known /\ raced' = raced
        /\ \A q \in Programs : at'[q] = at[q] \/ at'[q] \in {"keys", "costing"}
      BY <1>2 DEF CheckPrices, RebuildTypeOK, Goto, UnchangedFiles
  <2> QED
      BY <1>0, <2>1 DEF VouchInv
<1> USE <1>0 DEF RebuildTypeOK, KeysInv, VouchInv, UnchangedFiles, Goto, Row, Codebuddy
<1>3. CASE CostRow(p, r)
    BY <1>3 DEF CostRow
<1>4. CASE MarkPrices(p)
    BY <1>4 DEF MarkPrices
<1>5. CASE CheckKeys(p)
    BY <1>5 DEF CheckKeys
<1>6. CASE DeleteByProvider(p)
    BY <1>6 DEF DeleteByProvider
<1>7. CASE RemoveFingerprint(p)
    BY <1>7 DEF RemoveFingerprint
<1>8. CASE RemoveFiles(p)
    BY <1>8 DEF RemoveFiles
<1>9. CASE MarkKeys(p)
    BY <1>9 DEF MarkKeys
<1>10. CASE BeginScan(p)
    BY <1>10 DEF BeginScan
<1>11. CASE InsertBatch(p)
    BY <1>11 DEF InsertBatch
<1>12. CASE SaveFiles(p)
    BY <1>12 DEF SaveFiles
<1>13. CASE SavePrint(p)
    BY <1>13 DEF SavePrint
<1>14. CASE ScanOther(p)
    BY <1>14 DEF ScanOther
<1> QED
    BY <1>1, <1>2, <1>3, <1>4, <1>5, <1>6, <1>7, <1>8, <1>9, <1>10, <1>11, <1>12, <1>13, <1>14 DEF RebuildAction

\* No step but a launch starts a program or changes what is built.
LEMMA RunningStep ==
  ASSUME RebuildTypeOK, NEW p \in Programs, NEW ok \in BOOLEAN, NEW r \in Row,
         RebuildAction(p, ok, r)
  PROVE  \/ Launch(p)
         \/ /\ version' = version /\ mixed' = mixed /\ lastBuild' = lastBuild
            /\ \A q \in Programs : at'[q] # "off" => at[q] # "off"
<1> USE DEF RebuildTypeOK, Goto, Opened
<1>1. CASE RemoveTmp(p) \/ OpenTmp(p) \/ BeginBackup(p)
    BY <1>1 DEF RemoveTmp, OpenTmp, BeginBackup, UnchangedData
<1>2. CASE EndBackup(p, ok) \/ OpenDatabase(p) \/ End(p)
    BY <1>2 DEF EndBackup, OpenDatabase, End
<1>3. CASE MoveIntoPlace(p)
    BY <1>3 DEF MoveIntoPlace
<1> USE DEF UnchangedFiles
<1>4. CASE CheckPrices(p) \/ CostRow(p, r) \/ MarkPrices(p) \/ CheckKeys(p)
    BY <1>4 DEF CheckPrices, CostRow, MarkPrices, CheckKeys
<1>5. CASE DeleteByProvider(p) \/ RemoveFingerprint(p) \/ RemoveFiles(p) \/ MarkKeys(p)
    BY <1>5 DEF DeleteByProvider, RemoveFingerprint, RemoveFiles, MarkKeys
<1>6. CASE BeginScan(p)
    BY <1>6 DEF BeginScan
<1>7. CASE InsertBatch(p)
    BY <1>7 DEF InsertBatch
<1>8. CASE SaveFiles(p) \/ SavePrint(p) \/ ScanOther(p)
    BY <1>8 DEF SaveFiles, SavePrint, ScanOther
<1> QED
    BY <1>1, <1>2, <1>3, <1>4, <1>5, <1>6, <1>7, <1>8 DEF RebuildAction

\* A program of the newest version leaves every row priced that was.
LEMMA PricedStep ==
  ASSUME RebuildTypeOK, NEW p \in Programs, NEW r \in Row,
         version[p] = lastBuild, lastBuild' = lastBuild
  PROVE  /\ db'.cost = db.cost => \A s \in Row : IsPriced(s) => IsPriced(s)'
         /\ CostRow(p, r) => IsPriced(r)' /\ \A s \in Row : IsPriced(s) => IsPriced(s)'
         /\ DeleteByProvider(p) \/ InsertBatch(p) \/ ScanOther(p) =>
              \A s \in Row : IsPriced(s) => IsPriced(s)'
<1>1. DOMAIN db = {"cost", "price", "keys", "print", "files"} /\ DOMAIN db.cost = Row
    BY DEF RebuildTypeOK
<1>2. ASSUME db'.cost = db.cost PROVE \A s \in Row : IsPriced(s) => IsPriced(s)'
    BY <1>2 DEF IsPriced, Present
<1>3. ASSUME NEW s \in Row, NEW c \in {Cost(lastBuild, s), Stamped(p, s)}, db' = [db EXCEPT !.cost[s] = c]
      PROVE  \A q \in Row : IsPriced(q) => IsPriced(q)'
    BY <1>1, <1>3 DEF IsPriced, Present, Stamped
<1>4. ASSUME CostRow(p, r) PROVE IsPriced(r)' /\ \A s \in Row : IsPriced(s) => IsPriced(s)'
  <2>1. IsPriced(r)'
      BY <1>1, <1>4 DEF IsPriced, CostRow
  <2> QED
      BY <1>3, <1>4, <2>1 DEF CostRow
<1>5. ASSUME DeleteByProvider(p) PROVE \A s \in Row : IsPriced(s) => IsPriced(s)'
    BY <1>1, <1>5 DEF DeleteByProvider, IsPriced, Present
<1>6. ASSUME InsertBatch(p) PROVE \A s \in Row : IsPriced(s) => IsPriced(s)'
    BY <1>2, <1>3, <1>6 DEF InsertBatch, Row
<1>7. ASSUME ScanOther(p) PROVE \A s \in Row : IsPriced(s) => IsPriced(s)'
    BY <1>3, <1>7 DEF ScanOther, Row
<1> QED
    BY <1>2, <1>4, <1>5, <1>6, <1>7

\* What a costing has passed keeps the newest price.
LEMMA PriceStep ==
  ASSUME RebuildTypeOK, CopyInv, PriceInv, NEW p \in Programs,
         NEW ok \in BOOLEAN, NEW r \in Row, RebuildAction(p, ok, r)
  PROVE  PriceInv'
<1> SUFFICES ASSUME ~overlapped', ~mixed' PROVE PriceInv'
    BY DEF PriceInv
<1>0. version[p] \in Nat \ {0} /\ lastBuild \in Nat \ {0} /\ db.price \in Nat
    BY VersionIsBuilt DEF RebuildTypeOK
<1>1. CASE Launch(p)
  <2>1. /\ ~overlapped /\ ~mixed /\ db' = db /\ version' = version /\ todo' = todo
        /\ lastBuild' = version[p] /\ lastBuild <= lastBuild'
        /\ \A q \in Programs : at[q] # "off" => version[q] = version[p]
        /\ \A q \in Programs : q # p => at'[q] = at[q]
        /\ at'[p] \in {"absent", "opening"}
      BY <1>0, <1>1 DEF Launch, Goto, RebuildTypeOK
  <2>3. CASE lastBuild' = lastBuild
    <3>1. \A s \in Row : IsPriced(s)' <=> IsPriced(s)
        BY <2>1, <2>3 DEF IsPriced, Present
    <3> QED
        BY <2>1, <2>3, <3>1 DEF PriceInv, Priced, Opened
  <2>4. CASE lastBuild' # lastBuild
    <3>1. \A q \in Programs : q # p => at'[q] = "off"
        BY <2>1, <2>4 DEF PriceInv
    <3>2. db'.price < lastBuild'
        BY <1>0, <2>1, <2>4 DEF PriceInv
    <3> QED
        BY <1>0, <2>1, <3>1, <3>2 DEF PriceInv, Priced, Opened
  <2> QED
      BY <2>3, <2>4
<1>2. CASE /\ ~Launch(p)
           /\ \/ RemoveTmp(p) \/ OpenTmp(p) \/ BeginBackup(p) \/ EndBackup(p, ok)
              \/ MoveIntoPlace(p) \/ OpenDatabase(p) \/ End(p)
  <2>1. /\ ~overlapped /\ raced' = raced
        /\ \/ /\ db' = db
              /\ \A q \in Programs :
                   \/ at'[q] = at[q] /\ todo'[q] = todo[q] /\ known'[q] = known[q]
                   \/ at'[q] \notin Priced \cup {"costing"}
           \/ db' = Legacy /\ \A q \in Programs : at'[q] \notin Opened
      BY <1>2, FilesStep
  <2>2. /\ version' = version /\ ~mixed /\ lastBuild' = lastBuild
        /\ \A q \in Programs : at'[q] # "off" => at[q] # "off"
      BY <1>2, RunningStep
  <2>3. CASE db' = db
    <3>1. \A s \in Row : IsPriced(s)' <=> IsPriced(s)
        BY <2>2, <2>3 DEF IsPriced, Present
    <3> QED
        BY <2>1, <2>2, <2>3, <3>1 DEF PriceInv, Priced, Opened, Legacy, Fresh
  <2>4. CASE db' = Legacy /\ \A q \in Programs : at'[q] \notin Opened
      BY <1>0, <2>1, <2>2, <2>4 DEF PriceInv, Priced, Opened, Legacy, Fresh
  <2> QED
      BY <2>1, <2>3, <2>4
<1>3. CASE /\ ~Launch(p)
           /\ ~ \/ RemoveTmp(p) \/ OpenTmp(p) \/ BeginBackup(p) \/ EndBackup(p, ok)
                \/ MoveIntoPlace(p) \/ OpenDatabase(p) \/ End(p)
  <2>1. /\ version' = version /\ ~mixed /\ lastBuild' = lastBuild
        /\ \A q \in Programs : at'[q] # "off" => at[q] # "off"
      BY <1>3, RunningStep
  <2>2. ~overlapped /\ at[p] # "off"
    <3>1. CASE CheckPrices(p) \/ CostRow(p, r) \/ MarkPrices(p) \/ CheckKeys(p)
        BY <3>1 DEF UnchangedFiles, CheckPrices, CostRow, MarkPrices, CheckKeys
    <3>2. CASE DeleteByProvider(p) \/ RemoveFingerprint(p) \/ RemoveFiles(p) \/ MarkKeys(p)
        BY <3>2 DEF UnchangedFiles, DeleteByProvider, RemoveFingerprint, RemoveFiles, MarkKeys
    <3>3. CASE BeginScan(p)
        BY <3>3 DEF UnchangedFiles, BeginScan
    <3>5. CASE InsertBatch(p)
        BY <3>5 DEF UnchangedFiles, InsertBatch
    <3>4. CASE SaveFiles(p) \/ SavePrint(p) \/ ScanOther(p)
        BY <3>4 DEF UnchangedFiles, SaveFiles, SavePrint, ScanOther
    <3> QED
        BY <1>3, <3>1, <3>2, <3>3, <3>4, <3>5 DEF RebuildAction
  <2>3. version[p] = lastBuild /\ db.price <= lastBuild
      BY <2>1, <2>2 DEF PriceInv
  <2>4. /\ db'.cost = db.cost => \A s \in Row : IsPriced(s) => IsPriced(s)'
        /\ CostRow(p, r) => IsPriced(r)' /\ \A s \in Row : IsPriced(s) => IsPriced(s)'
        /\ DeleteByProvider(p) \/ InsertBatch(p) \/ ScanOther(p) =>
             \A s \in Row : IsPriced(s) => IsPriced(s)'
      BY <2>1, <2>3, PricedStep
  <2>5. \A s \in Row : IsPriced(s) => IsPriced(s)'
      BY <1>3, <2>4
      DEF RebuildAction, RebuildTypeOK, CheckPrices, MarkPrices, CheckKeys,
          RemoveFingerprint, RemoveFiles, MarkKeys, BeginScan, SaveFiles, SavePrint
  <2>6. CASE CheckPrices(p)
    <3>1. db' = db /\ lastBuild' = lastBuild
        BY <2>1, <2>6 DEF CheckPrices
    <3>2. \A s \in Row : s \notin Present => IsPriced(s)'
        BY <3>1 DEF IsPriced, Present
    <3>3. \A q \in Programs :
            \/ at'[q] = at[q] /\ todo'[q] = todo[q]
            \/ at'[q] = "keys" /\ db.price = lastBuild
            \/ at'[q] = "costing" /\ todo'[q] = Present
        BY <2>3, <2>6 DEF CheckPrices, Goto, RebuildTypeOK
    <3> QED
        BY <2>1, <2>2, <2>3, <2>5, <3>1, <3>2, <3>3 DEF PriceInv, Priced, Opened
  <2>7. CASE CostRow(p, r)
      BY <2>1, <2>2, <2>3, <2>4, <2>5, <2>7
      DEF PriceInv, CostRow, Goto, RebuildTypeOK, Priced, Opened
  <2>8. CASE MarkPrices(p)
      BY <2>1, <2>2, <2>3, <2>5, <2>8
      DEF PriceInv, MarkPrices, Goto, RebuildTypeOK, Priced, Opened
  <2>9. CASE CheckKeys(p) \/ RemoveFingerprint(p) \/ RemoveFiles(p) \/ MarkKeys(p)
      BY <2>1, <2>2, <2>3, <2>5, <2>9
      DEF PriceInv, CheckKeys, RemoveFingerprint, RemoveFiles, MarkKeys,
          Goto, RebuildTypeOK, Priced, Opened
  <2>10. CASE DeleteByProvider(p)
    <3>1. \A s \in Row : s \in Codebuddy => IsPriced(s)'
        BY <2>10 DEF DeleteByProvider, IsPriced, Present, RebuildTypeOK
    <3> QED
        BY <2>1, <2>2, <2>3, <2>5, <2>10, <3>1
        DEF PriceInv, DeleteByProvider, Goto, RebuildTypeOK, Priced, Opened
  <2>11. CASE BeginScan(p) \/ SaveFiles(p) \/ SavePrint(p)
      BY <2>1, <2>2, <2>3, <2>5, <2>11
      DEF PriceInv, BeginScan, SaveFiles, SavePrint, Goto, RebuildTypeOK, Priced, Opened
  <2>12. CASE InsertBatch(p) \/ ScanOther(p)
      BY <2>1, <2>2, <2>3, <2>5, <2>12
      DEF PriceInv, InsertBatch, ScanOther, Goto, RebuildTypeOK, Priced, Opened
  <2> QED
      BY <1>3, <2>6, <2>7, <2>8, <2>9, <2>10, <2>11, <2>12 DEF RebuildAction
<1> QED
    BY <1>1, <1>2, <1>3

\* Before the first launch there is only the legacy database.
LEMMA OpenStart == RebuildInit => OpenInv
<1> SUFFICES ASSUME RebuildInit PROVE OpenInv
    OBVIOUS
<1> USE RebuildAssumption DEF RebuildInit
<1>1. [s \in Row |-> Absent] \in [Row -> Int]
    BY DEF Absent
<1>2. RebuildTypeOK
  <2>1. db \in [cost : [Row -> Int], price : Nat, keys : BOOLEAN, print : BOOLEAN, files : BOOLEAN]
      BY <1>1 DEF Fresh
  <2>2. {overlapped, mixed, raced} \subseteq BOOLEAN
      OBVIOUS
  <2> QED
      BY <2>1, <2>2 DEF RebuildTypeOK, Places
<1>3. HandleInv /\ CopyInv
    BY DEF HandleInv, CopyInv, Copying
<1>4. KeysInv /\ VouchInv
    BY DEF KeysInv, VouchInv, Fresh
<1>5. PriceInv
    BY DEF PriceInv, Fresh, Priced, Opened
<1> QED
    BY <1>2, <1>3, <1>4, <1>5 DEF OpenInv

\* Every step of two starts, their scans and their ends keeps OpenInv.
LEMMA OpenStep == OpenInv /\ [RebuildNext]_rebuildVars => OpenInv'
<1> SUFFICES ASSUME OpenInv, [RebuildNext]_rebuildVars PROVE OpenInv'
    OBVIOUS
<1>1. CASE UNCHANGED rebuildVars
  <2> USE <1>1 DEF OpenInv, rebuildVars, fileVars
  <2>1. RebuildTypeOK' /\ HandleInv'
      BY DEF RebuildTypeOK, HandleInv
  <2>2. CopyInv'
      BY DEF CopyInv
  <2>3. Present' = Present /\ \A r \in Row : IsPriced(r)' <=> IsPriced(r)
      BY DEF Present, IsPriced
  <2>4. KeysInv' /\ VouchInv'
      BY <2>3 DEF KeysInv, VouchInv
  <2>5. PriceInv'
      BY <2>3 DEF PriceInv
  <2> QED
      BY <2>1, <2>2, <2>4, <2>5
<1>2. CASE RebuildNext
  <2>1. PICK p \in Programs, ok \in BOOLEAN, r \in Row : RebuildAction(p, ok, r)
      BY <1>2 DEF RebuildNext, RebuildAction, Row
  <2>2. RebuildTypeOK' /\ HandleInv'
      BY <2>1, RebuildTypeStep, HandleStep DEF OpenInv
  <2>3. CopyInv'
      BY <2>1, CopyStep DEF OpenInv
  <2>4. KeysInv' /\ VouchInv'
      BY <2>1, KeysStep, VouchStep DEF OpenInv
  <2>5. PriceInv'
      BY <2>1, PriceStep DEF OpenInv
  <2> QED
      BY <2>2, <2>3, <2>4, <2>5 DEF OpenInv
<1> QED
    BY <1>1, <1>2

\* The properties follow from the invariant.
LEMMA OpenIsSound == OpenInv => RebuildInv
<1> SUFFICES ASSUME OpenInv PROVE RebuildInv
    OBVIOUS
<1>1. CopyIsWhole
    BY DEF OpenInv, CopyInv, CopyIsWhole
<1>2. PricesAreCurrent
  <2> SUFFICES ASSUME ~mixed, ~overlapped, NEW p \in Programs, at[p] \in Priced, NEW r \in Present
               PROVE  db.cost[r] = Cost(version[p], r)
      BY DEF PricesAreCurrent
  <2>1. at[p] # "off" /\ r \in Row
      BY DEF Priced, Opened, Present
  <2> QED
      BY <2>1 DEF OpenInv, PriceInv, IsPriced
<1>3. OldKeysAreGone /\ RebuiltIsRead
    BY DEF OpenInv, KeysInv, VouchInv, OldKeysAreGone, RebuiltIsRead
<1> QED
    BY <1>1, <1>2, <1>3 DEF OpenInv, RebuildInv

-----------------------------------------------------------------------------
\* The terminal's report.  The streaks are recursions over the days: a set of natural
\* numbers that is not empty has a least member, which makes an induction a proof by
\* contradiction about the least day that is wrong.

\* A set of natural numbers that is not empty has a least one.
LEMMA LeastNatural ==
  ASSUME NEW T, T \subseteq Nat, T # {}
  PROVE  \E z \in T : \A y \in T : z <= y
<1> DEFINE R == {ss \in Nat \X Nat : ss[1] < ss[2]}
<1>1. IsWellFoundedOn(R, Nat)
    BY NatLessThanWellFounded DEF OpToRel
<1>2. \A z, y \in Nat : ~(<<y, z>> \in R) => z <= y
    OBVIOUS
<1> HIDE DEF R
<1>3. PICK z \in T : \A y \in T : ~ (<<y, z>> \in R)
    BY <1>1, WFMin
<1> QED
    BY <1>2, <1>3

\* Induction over a range of integers: a set that holds its first member, and with each
\* member the next, holds them all.
LEMMA RangeInduction ==
  ASSUME NEW a \in Int, NEW b \in Int, NEW S,
         a \in S,
         \A d \in a + 1 .. b : d - 1 \in S => d \in S
  PROVE  \A d \in a .. b : d \in S
<1> DEFINE T == {n \in Nat : a + n <= b /\ a + n \notin S}
<1>1. SUFFICES ASSUME NEW d \in a .. b, d \notin S PROVE FALSE
    OBVIOUS
<1>2. d - a \in Nat /\ a + (d - a) = d /\ d <= b
    OBVIOUS
<1>3. d - a \in T
    BY <1>1, <1>2
<1>4. PICK n \in T : \A m \in T : n <= m
    BY <1>3, LeastNatural
<1>5. n \in Nat /\ a + n <= b /\ a + n \notin S
    BY <1>4
<1>6. n # 0 /\ n - 1 \in Nat
    BY <1>5
<1>7. a + (n - 1) \in S
    BY <1>4, <1>5, <1>6
<1>8. a + n \in a + 1 .. b /\ (a + n) - 1 = a + (n - 1)
    BY <1>5, <1>6
<1> QED
    BY <1>5, <1>7, <1>8

\* A recursion over a range of integers, each value made from the one before, has a solution.
IsRecursion(f, a, b, V, base, step) ==
  f \in [a .. b -> V] /\ \A d \in a .. b : f[d] = IF d = a THEN base ELSE step[<<d, f[d - 1]>>]

\* A function defined by recursion over the days exists: otherwise its definition would
\* say nothing of it.
LEMMA RecursionHasSolution ==
  ASSUME NEW a \in Int, NEW b \in Int, a <= b,
         NEW V, NEW base \in V, NEW step \in [Int \X V -> V]
  PROVE  \E f : IsRecursion(f, a, b, V, base, step)
<1> DEFINE Solves(f, e) == /\ f \in [a .. e -> V]
                           /\ \A d \in a .. e : f[d] = IF d = a THEN base ELSE step[<<d, f[d - 1]>>]
           S == {e \in a .. b : \E f : Solves(f, e)}
<1>1. a \in S
  <2>1. Solves([d \in a .. a |-> base], a)
      OBVIOUS
  <2> HIDE DEF Solves
  <2> QED
      BY <2>1
<1>2. ASSUME NEW e \in a + 1 .. b, e - 1 \in S PROVE e \in S
  <2>1. PICK f : Solves(f, e - 1)
      BY <1>2
  <2>2. f \in [a .. e - 1 -> V] /\ e - 1 \in a .. e - 1
      BY <2>1
  <2>3. step[<<e, f[e - 1]>>] \in V
      BY <2>2
  <2> DEFINE g == [d \in a .. e |-> IF d = e THEN step[<<e, f[e - 1]>>] ELSE f[d]]
  <2>4. g \in [a .. e -> V]
    <3>1. \A d \in a .. e : d # e => d \in a .. e - 1
        OBVIOUS
    <3> QED
        BY <2>2, <2>3, <3>1
  <2>5. ASSUME NEW d \in a .. e
        PROVE  g[d] = IF d = a THEN base ELSE step[<<d, g[d - 1]>>]
    <3>1. CASE d = e
      <4>1. e # a /\ e - 1 \in a .. e /\ e - 1 # e
          OBVIOUS
      <4>2. g[e - 1] = f[e - 1] /\ g[d] = step[<<e, f[e - 1]>>]
          BY <3>1, <4>1
      <4> QED
          BY <3>1, <4>1, <4>2
    <3>2. CASE d # e
      <4>1. d \in a .. e - 1 /\ (d # a => d - 1 \in a .. e - 1)
          BY <2>5, <3>2
      <4>2. g[d] = f[d] /\ (d # a => g[d - 1] = f[d - 1])
          BY <3>2, <4>1
      <4>3. f[d] = IF d = a THEN base ELSE step[<<d, f[d - 1]>>]
          BY <2>1, <4>1
      <4> QED
          BY <4>2, <4>3
    <3> QED
        BY <3>1, <3>2
  <2>6. Solves(g, e)
      BY <2>4, <2>5
  <2> HIDE DEF Solves, g
  <2> QED
      BY <2>6
<1>3. \A e \in a .. b : e \in S
  <2> HIDE DEF S
  <2> QED
      BY <1>1, <1>2, RangeInduction
<1>4. PICK f : Solves(f, b)
    BY <1>3
<1>5. IsRecursion(f, a, b, V, base, step)
    BY <1>4 DEF IsRecursion
<1> QED
    BY <1>5

\* The walk over the days that makes the longest streak satisfies its own equation.
LEMMA RunsAreRecursive ==
  ASSUME NEW active, NEW first \in Int, NEW t \in Int, first <= t + 1
  PROVE  LET after == RunsAfter(active, first, t)
         IN  /\ after[first - 1] = [run |-> 0, longest |-> 0]
             /\ \A d \in first .. t :
                  LET run == IF d \in active THEN after[d - 1].run + 1 ELSE 0
                  IN  after[d] = [run |-> run,
                                  longest |-> IF run > after[d - 1].longest THEN run ELSE after[d - 1].longest]
<1> DEFINE Count(d, before) ==
             LET run == IF d \in active THEN before.run + 1 ELSE 0
             IN  [run |-> run, longest |-> IF run > before.longest THEN run ELSE before.longest]
           Solves(f) == f = [d \in first - 1 .. t |->
                               IF d < first THEN [run |-> 0, longest |-> 0] ELSE Count(d, f[d - 1])]
           base == [run |-> 0, longest |-> 0]
           V == [run : Int, longest : Int]
           step == [z \in Int \X V |-> Count(z[1], z[2])]
<1>1. \E f : Solves(f)
  <2>1. base \in V /\ first - 1 \in Int /\ first - 1 <= t
      OBVIOUS
  <2>2. \A d \in Int, v \in V : step[<<d, v>>] = Count(d, v) /\ Count(d, v) \in V
      OBVIOUS
  <2>3. step \in [Int \X V -> V]
      BY <2>2
  <2>4. PICK f : IsRecursion(f, first - 1, t, V, base, step)
    <3> HIDE DEF V, step, base
    <3> QED
        BY <2>1, <2>3, RecursionHasSolution, Zenon
  <2>5. ASSUME NEW d \in first - 1 .. t
        PROVE  f[d] = IF d < first THEN [run |-> 0, longest |-> 0] ELSE Count(d, f[d - 1])
    <3>1. CASE d < first
      <4>1. d = first - 1
          BY <3>1
      <4>2. f[d] = base
          BY <2>4, <4>1 DEF IsRecursion
      <4> QED
          BY <3>1, <4>2
    <3>2. CASE ~(d < first)
      <4>1. d \in first .. t /\ d # first - 1 /\ d - 1 \in first - 1 .. t
          BY <3>2
      <4>2. f[d] = step[<<d, f[d - 1]>>] /\ f[d - 1] \in V
          BY <2>4, <4>1 DEF IsRecursion
      <4> HIDE DEF V, step, Count
      <4> QED
          BY <2>2, <3>2, <4>1, <4>2
    <3> QED
        BY <3>1, <3>2
  <2>6. Solves(f)
    <3> HIDE DEF Count
    <3> QED
      BY <2>4, <2>5 DEF IsRecursion
  <2> QED
    <3> HIDE DEF Solves
    <3> QED
      BY <2>6
<1>2. Solves(CHOOSE f : Solves(f))
  <2> HIDE DEF Solves
  <2> QED
    BY <1>1
<1>3. RunsAfter(active, first, t) = CHOOSE f : Solves(f)
    BY DEF RunsAfter
<1>4. Solves(RunsAfter(active, first, t))
  <2> HIDE DEF Solves
  <2> QED
    BY <1>2, <1>3
<1>5. ASSUME NEW d \in first - 1 .. t
      PROVE  RunsAfter(active, first, t)[d] = IF d < first THEN [run |-> 0, longest |-> 0] ELSE Count(d, RunsAfter(active, first, t)[d - 1])
    BY <1>4
<1>6. first - 1 \in first - 1 .. t /\ first - 1 < first /\ \A d \in first .. t : d \in first - 1 .. t /\ ~(d < first)
    OBVIOUS
<1> HIDE DEF Solves
<1> QED
   BY <1>5, <1>6

\* So does the walk back from today.
LEMMA RunUpToIsRecursive ==
  ASSUME NEW first \in Int, NEW t \in Int, first <= t, NEW active, active \subseteq first .. t
  PROVE  LET upTo == RunUpTo(active, first, t)
         IN  /\ upTo[first - 1] = 0
             /\ \A d \in first .. t : upTo[d] = IF d \notin active THEN 0 ELSE 1 + upTo[d - 1]
<1> DEFINE Count(d, before) == IF d \notin active THEN 0 ELSE IF d = first THEN 1 ELSE 1 + before
           Solves(f) == f = [d \in first - 1 .. t |->
                        IF d \notin active THEN 0 ELSE IF d = first THEN 1 ELSE 1 + f[d - 1]]
           step == [z \in Int \X Nat |-> Count(z[1], z[2])]
<1>1. PICK f : IsRecursion(f, first - 1, t, Nat, 0, step)
  <2>1. 0 \in Nat /\ first - 1 \in Int /\ first - 1 <= t
      OBVIOUS
  <2>2. step \in [Int \X Nat -> Nat]
      OBVIOUS
  <2> HIDE DEF step
  <2> QED
      BY <2>1, <2>2, RecursionHasSolution, Zenon
<1>2. first - 1 \notin active
    OBVIOUS
<1>3. ASSUME NEW d \in first - 1 .. t
      PROVE  f[d] = IF d \notin active THEN 0 ELSE IF d = first THEN 1 ELSE 1 + f[d - 1]
  <2>1. CASE d = first - 1
      BY <1>1, <1>2, <2>1 DEF IsRecursion
  <2>2. CASE d # first - 1
    <3>1. d \in first .. t /\ d - 1 \in first - 1 .. t
        BY <2>2
    <3>2. f[d] = step[<<d, f[d - 1]>>] /\ f[d - 1] \in Nat
        BY <1>1, <2>2, <3>1 DEF IsRecursion
    <3> QED
        BY <3>1, <3>2
  <2> QED
      BY <2>1, <2>2
<1>4. Solves(f)
    BY <1>1, <1>3 DEF IsRecursion
<1>5. Solves(CHOOSE g : Solves(g))
  <2> HIDE DEF Solves
  <2> QED
      BY <1>4
<1>6. RunUpTo(active, first, t) = CHOOSE g : Solves(g)
    BY DEF RunUpTo
<1>7. Solves(RunUpTo(active, first, t))
  <2> HIDE DEF Solves
  <2> QED
      BY <1>5, <1>6
<1> QED
    BY <1>1, <1>2, <1>3, <1>7

\* Days with usage among those up to today.
DaysOf(active, first, t) == first \in Int /\ t \in Int /\ first <= t /\ active \subseteq first .. t

\* The longest streak is a run of days with usage, and no run is longer.
LEMMA LongestIsFound ==
  ASSUME NEW active, NEW first, NEW t, DaysOf(active, first, t)
  PROVE  LET longest == RunsAfter(active, first, t)[t].longest IN
         /\ longest \in Nat
         /\ \E d \in first .. t : d - longest + 1 .. d \subseteq active
         /\ \A d \in first .. t : ~(d - longest .. d \subseteq active)
<1>0. first \in Int /\ t \in Int /\ first <= t /\ active \subseteq first .. t
    BY DEF DaysOf
<1> DEFINE after == RunsAfter(active, first, t)
           RunOk(d) == /\ after[d].run \in Nat
                       /\ d - after[d].run + 1 .. d \subseteq active
                       /\ d - after[d].run \notin active
           LongOk(d) == /\ after[d].longest \in Nat
                        /\ \E e \in first .. t : e - after[d].longest + 1 .. e \subseteq active
                        /\ \A e \in first - 1 .. d : after[e].run \in 0 .. after[d].longest
           S == {d \in first - 1 .. t : RunOk(d) /\ LongOk(d)}
<1>1. after[first - 1] = [run |-> 0, longest |-> 0]
    BY <1>0, RunsAreRecursive
<1>2. \A d \in first .. t :
        LET run == IF d \in active THEN after[d - 1].run + 1 ELSE 0
        IN  after[d] = [run |-> run,
                        longest |-> IF run > after[d - 1].longest THEN run ELSE after[d - 1].longest]
    BY <1>0, RunsAreRecursive
<1> HIDE DEF after
<1> USE <1>0
<1>3. first - 1 \in S
  <2>1. RunOk(first - 1)
      BY <1>1
  <2>2. t - 0 + 1 .. t \subseteq active
      OBVIOUS
  <2>3. first - 1 .. first - 1 = {first - 1}
      OBVIOUS
  <2>4. LongOk(first - 1)
      BY <1>1, <2>2, <2>3
  <2> QED
      BY <2>1, <2>4
<1>4. ASSUME NEW d \in first .. t, d - 1 \in S PROVE d \in S
  <2> DEFINE b == after[d - 1]
             n == after[d]
  <2>1. b.run \in Nat /\ d - 1 - b.run + 1 .. d - 1 \subseteq active /\ d - 1 - b.run \notin active
      BY <1>4
  <2>2. /\ b.longest \in Nat
        /\ \E e \in first .. t : e - b.longest + 1 .. e \subseteq active
        /\ \A e \in first - 1 .. d - 1 : after[e].run \in 0 .. b.longest
      BY <1>4
  <2> DEFINE run == IF d \in active THEN b.run + 1 ELSE 0
  <2>3. n = [run |-> run, longest |-> IF run > b.longest THEN run ELSE b.longest]
      BY <1>2
  <2> HIDE DEF b, n
  <2>8. n.run = run /\ n.longest = IF run > b.longest THEN run ELSE b.longest
      BY <2>3
  <2>4. /\ n.run \in Nat /\ d - n.run + 1 .. d \subseteq active /\ d - n.run \notin active
    <3>1. CASE d \in active
      <4>1. n.run = b.run + 1 /\ d - n.run = d - 1 - b.run
          BY <2>1, <2>8, <3>1
      <4>2. ASSUME NEW z \in d - n.run + 1 .. d PROVE z \in active
        <5>1. z = d \/ z \in d - 1 - b.run + 1 .. d - 1
            BY <2>1, <4>1
        <5> QED
            BY <2>1, <3>1, <5>1
      <4> QED
          BY <2>1, <4>1, <4>2
    <3>2. CASE d \notin active
        BY <2>8, <3>2
    <3> QED
        BY <3>1, <3>2
  <2>5. n.longest \in Nat /\ b.longest <= n.longest /\ n.run <= n.longest
      BY <2>2, <2>8, <2>4
  <2>6. \E e \in first .. t : e - n.longest + 1 .. e \subseteq active
    <3>1. CASE n.longest = n.run
        BY <2>4, <3>1
    <3>2. CASE n.longest = b.longest
        BY <2>2, <3>2
    <3> QED
        BY <2>8, <3>1, <3>2
  <2>7. ASSUME NEW e \in first - 1 .. d PROVE after[e].run \in 0 .. n.longest
    <3>1. CASE e = d
        BY <2>4, <2>5, <3>1 DEF n
    <3>2. CASE e # d
      <4>1. e \in first - 1 .. d - 1
          BY <3>2
      <4>2. after[e].run \in 0 .. b.longest
          BY <2>2, <4>1
      <4> QED
          BY <2>2, <2>5, <4>2
    <3> QED
        BY <3>1, <3>2
  <2> QED
      BY <2>4, <2>5, <2>6, <2>7 DEF n
<1>5. \A d \in first - 1 .. t : d \in S
  <2> DEFINE a == first - 1
  <2>1. a \in Int /\ \A d \in a + 1 .. t : d \in first .. t
      OBVIOUS
  <2> HIDE DEF S
  <2>2. \A d \in a .. t : d \in S
      BY <1>3, <1>4, <2>1, RangeInduction
  <2> QED
      BY <2>2
<1>6. RunOk(t) /\ LongOk(t)
    BY <1>5
<1>7. ASSUME NEW d \in first .. t PROVE ~(d - after[t].longest .. d \subseteq active)
  <2>1. after[d].run \in Nat /\ d - after[d].run \notin active /\ after[d].run \in 0 .. after[t].longest
      BY <1>5, <1>6
  <2>2. d - after[d].run \in d - after[t].longest .. d
      BY <1>6, <2>1
  <2> QED
      BY <2>1, <2>2
<1> QED
    BY <1>6, <1>7 DEF after

\* What is counted back from a day is the run of days with usage that ends there.
LEMMA CurrentIsFound ==
  ASSUME NEW active, NEW first, NEW t, DaysOf(active, first, t),
         NEW d \in first - 1 .. t
  PROVE  LET current == RunUpTo(active, first, t)[d] IN
         /\ current \in Nat
         /\ d - current + 1 .. d \subseteq active
         /\ d - current \notin active
         /\ current <= RunsAfter(active, first, t)[t].longest
<1>0. first \in Int /\ t \in Int /\ first <= t /\ active \subseteq first .. t
    BY DEF DaysOf
<1> DEFINE upTo == RunUpTo(active, first, t)
           S == {e \in first - 1 .. t : /\ upTo[e] \in Nat
                                        /\ e - upTo[e] + 1 .. e \subseteq active
                                        /\ e - upTo[e] \notin active}
<1>1. upTo[first - 1] = 0
    BY <1>0, RunUpToIsRecursive
<1>2. \A e \in first .. t : upTo[e] = IF e \notin active THEN 0 ELSE 1 + upTo[e - 1]
    BY <1>0, RunUpToIsRecursive
<1> HIDE DEF upTo
<1> USE <1>0
<1>3. first - 1 \in S
    BY <1>1
<1>4. ASSUME NEW e \in first .. t, e - 1 \in S PROVE e \in S
  <2>1. CASE e \notin active
      BY <1>2, <2>1
  <2>2. CASE e \in active
    <3> DEFINE m == upTo[e - 1]
    <3>1. m \in Nat /\ e - 1 - m + 1 .. e - 1 \subseteq active /\ e - 1 - m \notin active
        BY <1>4
    <3>2. upTo[e] = 1 + m
        BY <1>2, <2>2
    <3> HIDE DEF m
    <3>3. e - upTo[e] = e - 1 - m
        BY <3>1, <3>2
    <3>4. ASSUME NEW z \in e - upTo[e] + 1 .. e PROVE z \in active
      <4>1. z = e \/ z \in e - 1 - m + 1 .. e - 1
          BY <3>1, <3>2
      <4> QED
          BY <2>2, <3>1, <4>1
    <3> QED
        BY <3>1, <3>2, <3>3, <3>4
  <2> QED
      BY <2>1, <2>2
<1>5. \A e \in first - 1 .. t : e \in S
  <2> DEFINE a == first - 1
  <2>1. a \in Int /\ \A e \in a + 1 .. t : e \in first .. t
      OBVIOUS
  <2> HIDE DEF S
  <2>2. \A e \in a .. t : e \in S
      BY <1>3, <1>4, <2>1, RangeInduction
  <2> QED
      BY <2>2
<1> DEFINE current == upTo[d]
           longest == RunsAfter(active, first, t)[t].longest
<1>6. current \in Nat /\ d - current + 1 .. d \subseteq active /\ d - current \notin active
    BY <1>5
<1>7. longest \in Nat /\ \A e \in first .. t : ~(e - longest .. e \subseteq active)
    BY LongestIsFound
<1> HIDE DEF current, longest
<1>8. ~(longest < current)
  <2> SUFFICES ASSUME longest < current PROVE FALSE
      OBVIOUS
  <2>1. d \in d - current + 1 .. d
      BY <1>6, <1>7
  <2>2. d \in first .. t
      BY <1>6, <2>1
  <2>3. d - longest .. d \subseteq d - current + 1 .. d
      BY <1>6, <1>7
  <2> QED
      BY <1>6, <1>7, <2>2, <2>3
<1>9. current <= longest
    BY <1>6, <1>7, <1>8
<1> QED
    BY <1>6, <1>9 DEF current, longest, upTo

\* What may be left of the queries of a terminal that starts.
StartPlans ==
  {<<"days", "hours", "provider", "model", "range", "cursor", "hours">>,
   <<"hours", "provider", "model", "range", "cursor", "hours">>,
   <<"provider", "model", "range", "cursor", "hours">>,
   <<"model", "range", "cursor", "hours">>,
   <<"range", "cursor", "hours">>,
   <<"cursor", "hours">>,
   <<"hours">>}

\* What may be left of the queries of a terminal that runs.
RunPlans ==
  {<<"days", "hours", "provider", "model", "range">>,
   <<"hours", "provider", "model", "range">>,
   <<"provider", "model", "range">>,
   <<"model", "range">>,
   <<"range">>,
   <<"hours">>,
   << >>}

\* The queries still to be made.
Left(plan) == {plan[i] : i \in DOMAIN plan}

\* The queries still to be made are the end of a start's or of a reload's.
PlanInv ==
  \/ phase = "starting" /\ queries \in StartPlans
  \/ phase = "running" /\ queries \in RunPlans
  \/ phase = "ended" /\ queries = << >>

\* Neither the report's day nor any usage is of the future.
DayInv ==
  /\ clock \in Clocks /\ asOf \in Clocks /\ today \in Int /\ today <= clock
  /\ IsFiniteSet(uses) /\ \A u \in uses : u[1] \in Int /\ u[2] \in Nat /\ u[1] <= clock
  /\ weeks # 0 => today \in Clocks

\* The grid is that of the report's day, and the cursor is in it.
GridInv ==
  /\ start \in Int /\ weeks \in Nat
  /\ cursor \in (0 .. LastWeek) \X (0 .. 6)
  /\ weeks # 0 =>
       /\ start = GridStart(today) /\ weeks = WeekCount(start, today)
       /\ \A u \in days : u[1] \in LastDays(GridDays, today)

\* Once they are read, the hours are those of the cursor's day.
HoursInv ==
  phase # "ended" /\ "hours" \notin Left(queries) /\ ~misread => \A u \in hours : u[1] = SelectedDate

\* What has been read since the last reload began is what the database holds.
InWindow == {u \in uses : u[1] \in Window(range, asOf)}
DaysRead == days = InReport(uses, today) /\ today \in Clocks /\ \A u \in uses : u[1] <= today
HoursRead == hours = {u \in uses : u[1] = SelectedDate}
ReadSince ==
  /\ "days" \notin Left(queries) => DaysRead
  /\ "hours" \notin Left(queries) => HoursRead
  /\ "provider" \notin Left(queries) => today <= asOf /\ byProvider = InWindow
  /\ "model" \notin Left(queries) => byModel = InWindow
  /\ "range" \notin Left(queries) => rangeDays = InWindow

\* Unless there is news to come, or news this program never hears of.
ReadInv == told = 0 /\ ~untold => ReadSince

\* The invariant.
PanelInv == ReportTypeOK /\ PlanInv /\ DayInv /\ GridInv /\ HoursInv /\ ReadInv

\* The queries of a start, written out.
LEMMA StartPlan ==
  FullReload \o <<"cursor", "hours">> = <<"days", "hours", "provider", "model", "range", "cursor", "hours">>
<1> DEFINE A == {"days", "hours", "provider", "model", "range", "cursor"}
           end == <<"cursor", "hours">>
           t == <<"days", "hours", "provider", "model", "range", "cursor", "hours">>
<1>1. FullReload \in Seq(A) /\ end \in Seq(A) /\ t \in Seq(A)
    BY DEF FullReload
<1>2. Len(FullReload) = 5 /\ Len(end) = 2 /\ Len(t) = 7
    BY DEF FullReload
<1>3. \A i \in 1 .. 7 : t[i] = IF i <= 5 THEN FullReload[i] ELSE end[i - 5]
    BY DEF FullReload
<1> HIDE DEF A, end, t
<1>4. /\ FullReload \o end \in Seq(A)
      /\ Len(FullReload \o end) = Len(FullReload) + Len(end)
      /\ \A i \in 1 .. Len(FullReload) + Len(end) :
           (FullReload \o end)[i] = IF i <= Len(FullReload) THEN FullReload[i] ELSE end[i - Len(FullReload)]
    BY <1>1, ConcatProperties
<1>5. Len(FullReload \o end) = Len(t) /\ \A i \in 1 .. Len(t) : (FullReload \o end)[i] = t[i]
    BY <1>2, <1>3, <1>4
<1>6. FullReload \o end = t
    BY <1>1, <1>4, <1>5, SeqEqual
<1> QED
    BY <1>6 DEF end, t

Follows(plan) ==
  LET query == Head(plan)
      rest  == Tail(plan)
  IN  /\ Left(plan) = {query} \cup Left(rest)
      /\ plan \in StartPlans => rest \in StartPlans \cup {<< >>}
      /\ plan \in RunPlans => rest \in RunPlans
      /\ Len(plan) = 1 <=> rest = << >>
      /\ "days" \notin Left(rest)
      /\ query = "days" => {"hours", "provider", "model", "range"} \subseteq Left(rest)
      /\ query = "provider" => {"model", "range"} \subseteq Left(rest)
      /\ query = "cursor" => "hours" \in Left(rest)

\* What is left of a plan after its first query is a plan again, and in the order that
\* the invariant needs.
LEMMA PlansAreFollowed ==
  ASSUME NEW plan \in StartPlans \cup RunPlans, plan # << >>
  PROVE  Follows(plan)
<1>1. CASE plan = <<"days", "hours", "provider", "model", "range", "cursor", "hours">>
  <2>1. Head(plan) = "days" /\ Tail(plan) = <<"hours", "provider", "model", "range", "cursor", "hours">> /\ Len(plan) = 7
      BY <1>1
  <2>2. Left(plan) = {"days", "hours", "provider", "model", "range", "cursor", "hours"} /\ Left(<<"hours", "provider", "model", "range", "cursor", "hours">>) = {"hours", "provider", "model", "range", "cursor", "hours"}
      BY <1>1 DEF Left
  <2> QED
      BY <1>1, <2>1, <2>2 DEF Follows, StartPlans, RunPlans
<1>2. CASE plan = <<"hours", "provider", "model", "range", "cursor", "hours">>
  <2>1. Head(plan) = "hours" /\ Tail(plan) = <<"provider", "model", "range", "cursor", "hours">> /\ Len(plan) = 6
      BY <1>2
  <2>2. Left(plan) = {"hours", "provider", "model", "range", "cursor", "hours"} /\ Left(<<"provider", "model", "range", "cursor", "hours">>) = {"provider", "model", "range", "cursor", "hours"}
      BY <1>2 DEF Left
  <2> QED
      BY <1>2, <2>1, <2>2 DEF Follows, StartPlans, RunPlans
<1>3. CASE plan = <<"provider", "model", "range", "cursor", "hours">>
  <2>1. Head(plan) = "provider" /\ Tail(plan) = <<"model", "range", "cursor", "hours">> /\ Len(plan) = 5
      BY <1>3
  <2>2. Left(plan) = {"provider", "model", "range", "cursor", "hours"} /\ Left(<<"model", "range", "cursor", "hours">>) = {"model", "range", "cursor", "hours"}
      BY <1>3 DEF Left
  <2> QED
      BY <1>3, <2>1, <2>2 DEF Follows, StartPlans, RunPlans
<1>4. CASE plan = <<"model", "range", "cursor", "hours">>
  <2>1. Head(plan) = "model" /\ Tail(plan) = <<"range", "cursor", "hours">> /\ Len(plan) = 4
      BY <1>4
  <2>2. Left(plan) = {"model", "range", "cursor", "hours"} /\ Left(<<"range", "cursor", "hours">>) = {"range", "cursor", "hours"}
      BY <1>4 DEF Left
  <2> QED
      BY <1>4, <2>1, <2>2 DEF Follows, StartPlans, RunPlans
<1>5. CASE plan = <<"range", "cursor", "hours">>
  <2>1. Head(plan) = "range" /\ Tail(plan) = <<"cursor", "hours">> /\ Len(plan) = 3
      BY <1>5
  <2>2. Left(plan) = {"range", "cursor", "hours"} /\ Left(<<"cursor", "hours">>) = {"cursor", "hours"}
      BY <1>5 DEF Left
  <2> QED
      BY <1>5, <2>1, <2>2 DEF Follows, StartPlans, RunPlans
<1>6. CASE plan = <<"cursor", "hours">>
  <2>1. Head(plan) = "cursor" /\ Tail(plan) = <<"hours">> /\ Len(plan) = 2
      BY <1>6
  <2>2. Left(plan) = {"cursor", "hours"} /\ Left(<<"hours">>) = {"hours"}
      BY <1>6 DEF Left
  <2> QED
      BY <1>6, <2>1, <2>2 DEF Follows, StartPlans, RunPlans
<1>7. CASE plan = <<"hours">>
  <2>1. Head(plan) = "hours" /\ Tail(plan) = << >> /\ Len(plan) = 1
      BY <1>7
  <2>2. Left(plan) = {"hours"} /\ Left(<< >>) = {}
      BY <1>7 DEF Left
  <2> QED
      BY <1>7, <2>1, <2>2 DEF Follows, StartPlans, RunPlans
<1>8. CASE plan = <<"days", "hours", "provider", "model", "range">>
  <2>1. Head(plan) = "days" /\ Tail(plan) = <<"hours", "provider", "model", "range">> /\ Len(plan) = 5
      BY <1>8
  <2>2. Left(plan) = {"days", "hours", "provider", "model", "range"} /\ Left(<<"hours", "provider", "model", "range">>) = {"hours", "provider", "model", "range"}
      BY <1>8 DEF Left
  <2> QED
      BY <1>8, <2>1, <2>2 DEF Follows, StartPlans, RunPlans
<1>9. CASE plan = <<"hours", "provider", "model", "range">>
  <2>1. Head(plan) = "hours" /\ Tail(plan) = <<"provider", "model", "range">> /\ Len(plan) = 4
      BY <1>9
  <2>2. Left(plan) = {"hours", "provider", "model", "range"} /\ Left(<<"provider", "model", "range">>) = {"provider", "model", "range"}
      BY <1>9 DEF Left
  <2> QED
      BY <1>9, <2>1, <2>2 DEF Follows, StartPlans, RunPlans
<1>10. CASE plan = <<"provider", "model", "range">>
  <2>1. Head(plan) = "provider" /\ Tail(plan) = <<"model", "range">> /\ Len(plan) = 3
      BY <1>10
  <2>2. Left(plan) = {"provider", "model", "range"} /\ Left(<<"model", "range">>) = {"model", "range"}
      BY <1>10 DEF Left
  <2> QED
      BY <1>10, <2>1, <2>2 DEF Follows, StartPlans, RunPlans
<1>11. CASE plan = <<"model", "range">>
  <2>1. Head(plan) = "model" /\ Tail(plan) = <<"range">> /\ Len(plan) = 2
      BY <1>11
  <2>2. Left(plan) = {"model", "range"} /\ Left(<<"range">>) = {"range"}
      BY <1>11 DEF Left
  <2> QED
      BY <1>11, <2>1, <2>2 DEF Follows, StartPlans, RunPlans
<1>12. CASE plan = <<"range">>
  <2>1. Head(plan) = "range" /\ Tail(plan) = << >> /\ Len(plan) = 1
      BY <1>12
  <2>2. Left(plan) = {"range"} /\ Left(<< >>) = {}
      BY <1>12 DEF Left
  <2> QED
      BY <1>12, <2>1, <2>2 DEF Follows, StartPlans, RunPlans
<1> QED
    BY <1>1, <1>2, <1>3, <1>4, <1>5, <1>6, <1>7, <1>8, <1>9, <1>10, <1>11, <1>12 DEF StartPlans, RunPlans

\* A query that is answered is the first of those left.
LEMMA ReadingFollows ==
  ASSUME PlanInv, NEW query, Reads(query)
  PROVE  /\ PlanInv' /\ phase # "ended" /\ phase' # "ended"
         /\ Left(queries) = {query} \cup Left(queries')
         /\ "days" \notin Left(queries')
         /\ query = "days" => {"hours", "provider", "model", "range"} \subseteq Left(queries')
         /\ query = "provider" => {"model", "range"} \subseteq Left(queries')
         /\ query = "cursor" => "hours" \in Left(queries')
<1>1. queries # << >> /\ queries \in StartPlans \cup RunPlans /\ phase # "ended"
    BY DEF PlanInv, Reads
<1>2. Follows(queries)
    BY <1>1, PlansAreFollowed
<1>3. queries' = Tail(queries) /\ Head(queries) = query
    BY DEF Reads
<1>4. << >> \in RunPlans
    BY DEF RunPlans
<1>5. PlanInv' /\ phase' # "ended"
  <2>1. CASE Len(queries) = 1
      BY <1>1, <1>2, <1>3, <1>4, <2>1 DEF Follows, PlanInv, Reads
  <2>2. CASE Len(queries) # 1
    <3>1. phase' = phase /\ queries' # << >>
        BY <1>2, <1>3, <2>2 DEF Follows, Reads
    <3> QED
        BY <1>1, <1>2, <1>3, <3>1 DEF Follows, PlanInv
  <2> QED
      BY <2>1, <2>2
<1> QED
    BY <1>1, <1>2, <1>3, <1>5 DEF Follows

\* The grid has at least one week and covers the report.
LEMMA GridIsWhole ==
  ASSUME NEW d \in Int
  PROVE  /\ GridStart(d) \in Int /\ WeekCount(GridStart(d), d) \in Nat \ {0}
         /\ GridStart(d) <= d - GridDays + 1
         /\ \A c \in Int : WeekCount(GridStart(d), d) # 0 => Within(c, WeekCount(GridStart(d), d) - 1) \in 0 .. WeekCount(GridStart(d), d) - 1
  BY ReportAssumption DEF GridStart, WeekCount, WeekIndex, Weekday, Within

\* The cursor is one of the grid's cells, and Within keeps it one.
LEMMA CursorIsIn ==
  ASSUME GridInv, today \in Int
  PROVE  /\ LastWeek \in Nat /\ cursor = <<cursor[1], cursor[2]>>
         /\ cursor[1] \in Int /\ cursor[2] \in Int
         /\ Weekday(today) \in 0 .. 6
         /\ \A c \in Int : Within(c, LastWeek) \in 0 .. LastWeek /\ Within(c, 6) \in 0 .. 6
  BY DEF GridInv, LastWeek, Within, Weekday

\* The ranges a reader steps through.
LEMMA RangesAreSeven ==
  DOMAIN Ranges = 1 .. 7 /\ Len(Ranges) = 7 /\ 1 \in DOMAIN Ranges /\ Ranges[1] = "Year365"
<1>1. DOMAIN Ranges = 1 .. 7
    BY DEF Ranges
<1>2. Len(Ranges) = 7
    BY DEF Ranges
<1>3. Ranges[1] = "Year365"
    BY DEF Ranges
<1>4. 1 \in DOMAIN Ranges
    BY <1>1
<1> QED
    BY <1>1, <1>2, <1>3, <1>4

\* Stepping from a range, in either direction, leads to a range.
LEMMA RangesAreSteppedThrough ==
  ASSUME NEW r, \E i \in DOMAIN Ranges : r = Ranges[i], NEW dir \in {-1, 1}
  PROVE  \E i \in DOMAIN Ranges : Stepped(r, dir) = Ranges[i]
<1>1. Position(r) \in 1 .. 7
    BY RangesAreSeven DEF Position
<1>2. ((Position(r) - 1 + dir) % 7) + 1 \in 1 .. 7
    BY <1>1
<1> QED
    BY <1>2, RangesAreSeven DEF Stepped

\* A terminal that starts has read nothing.
LEMMA PanelStart == ReportInit => PanelInv
<1> SUFFICES ASSUME ReportInit PROVE PanelInv
    OBVIOUS
<1>1. queries = <<"days", "hours", "provider", "model", "range", "cursor", "hours">>
    BY StartPlan DEF ReportInit
<1>2. Left(queries) = {"days", "hours", "provider", "model", "range", "cursor"}
    BY <1>1 DEF Left
<1>3. PlanInv
    BY <1>1 DEF ReportInit, PlanInv, StartPlans
<1>4. /\ clock \in Clocks /\ clock \in Int /\ today \in Int /\ today <= clock /\ asOf = clock
      /\ start = today /\ weeks = 0 /\ cursor = <<0, 0>>
  <2>1. /\ clock \in Clocks /\ today \in {clock, clock - 1} /\ asOf = clock
        /\ start = today /\ weeks = 0 /\ cursor = <<0, 0>>
      BY DEF ReportInit
  <2>2. clock \in Int
      BY <2>1, ReportAssumption
  <2> QED
      BY <2>1, <2>2
<1>5. /\ uses = {} \/ uses = EarlyUses
      /\ IsFiniteSet(uses) /\ \A u \in uses : u[1] \in Int /\ u[2] \in Nat /\ u[1] <= clock
    BY <1>4, FS_EmptySet, ReportAssumption, CalendarAssumption DEF ReportInit
<1>6. ReportTypeOK
  <2>1. range = Ranges[1] /\ 1 \in DOMAIN Ranges
      BY RangesAreSeven DEF ReportInit
  <2>2. \A S \in {days, hours, byProvider, byModel, rangeDays} : S \subseteq uses
      BY DEF ReportInit
  <2> QED
      BY <1>4, <1>5, <2>1, <2>2 DEF ReportInit, ReportTypeOK, IsUse
<1>7. DayInv
    BY <1>4, <1>5 DEF DayInv
<1>8. GridInv
  <2>1. LastWeek = 0
      BY <1>4 DEF LastWeek
  <2> QED
      BY <1>4, <2>1 DEF GridInv
<1>9. HoursInv /\ ReadInv
    BY <1>2 DEF HoursInv, ReadInv, ReadSince
<1> QED
    BY <1>3, <1>6, <1>7, <1>8, <1>9 DEF PanelInv

\* Each action changes the panel it reads, or what lies outside the panels.
LEMMA ReportActions ==
  ReportNext => \/ DayPasses \/ FindNothingNew \/ QueryFails \/ OnScanCompleted
                \/ \E d \in {clock - 1, clock}, own \in BOOLEAN : StoreUse(d, own)
                \/ LoadDays \/ LoadHours \/ LoadProviders \/ LoadModels \/ LoadRangeDays \/ PlaceCursor
                \/ \E dir \in {-1, 1} : CycleRange(dir)
                \/ \E dw, dr \in Int : MoveSelection(dw, dr)
                \/ \E w \in {0, LastWeek} : GoToColumn(w)
  BY DEF ReportNext

\* Every step keeps the types.
LEMMA ReportTypeStep ==
  ASSUME ReportTypeOK, DayInv, ReportNext
  PROVE  ReportTypeOK'
<1> DEFINE panels == {days, hours, byProvider, byModel, rangeDays}
<1>1. /\ clock \in Clocks /\ told \in Nat /\ untold \in BOOLEAN /\ misread \in BOOLEAN
      /\ phase \in {"starting", "running", "ended"}
      /\ \A u \in uses : IsUse(u)
      /\ days \subseteq uses /\ hours \subseteq uses /\ byProvider \subseteq uses
      /\ byModel \subseteq uses /\ rangeDays \subseteq uses
      /\ \E i \in DOMAIN Ranges : range = Ranges[i]
    BY DEF ReportTypeOK
<1>2. /\ clock' \in Clocks /\ told' \in Nat /\ untold' \in BOOLEAN /\ misread' \in BOOLEAN
      /\ phase' \in {"starting", "running", "ended"}
  <2>1. clock' \in Clocks
      BY <1>1 DEF ReportNext, DayPasses, StoreUse, FindNothingNew, Reads, LoadDays, LoadHours, LoadProviders,
             LoadModels, LoadRangeDays, PlaceCursor, QueryFails, OnScanCompleted, CycleRange,
             MoveSelection, GoToColumn
  <2>2. told' \in Nat
    <3>1. told' = told \/ told' = told + 1 \/ (told > 0 /\ told' = told - 1)
        BY DEF ReportNext, DayPasses, StoreUse, FindNothingNew, Reads, LoadDays, LoadHours, LoadProviders,
             LoadModels, LoadRangeDays, PlaceCursor, QueryFails, OnScanCompleted, CycleRange,
             MoveSelection, GoToColumn
    <3> QED
        BY <1>1, <3>1
  <2>3. untold' \in BOOLEAN
      BY <1>1 DEF ReportNext, DayPasses, StoreUse, FindNothingNew, Reads, LoadDays, LoadHours, LoadProviders,
             LoadModels, LoadRangeDays, PlaceCursor, QueryFails, OnScanCompleted, CycleRange,
             MoveSelection, GoToColumn
  <2>4. misread' \in BOOLEAN
      BY <1>1 DEF ReportNext, DayPasses, StoreUse, FindNothingNew, Reads, LoadDays, LoadHours, LoadProviders,
             LoadModels, LoadRangeDays, PlaceCursor, QueryFails, OnScanCompleted, CycleRange,
             MoveSelection, GoToColumn
  <2>5. phase' \in {"starting", "running", "ended"}
      BY <1>1 DEF ReportNext, DayPasses, StoreUse, FindNothingNew, Reads, LoadDays, LoadHours, LoadProviders,
             LoadModels, LoadRangeDays, PlaceCursor, QueryFails, OnScanCompleted, CycleRange,
             MoveSelection, GoToColumn
  <2> QED
      BY <2>1, <2>2, <2>3, <2>4, <2>5
<1>3. uses \subseteq uses' /\ \A u \in uses' : IsUse(u)
  <2>1. CASE uses' = uses
      BY <1>1, <2>1
  <2>2. ASSUME NEW d \in {clock - 1, clock}, NEW own \in BOOLEAN, StoreUse(d, own)
        PROVE  uses \subseteq uses' /\ \A u \in uses' : IsUse(u)
    <3>1. d \in Int /\ Cardinality(uses) + 1 \in Nat
        BY <1>1, ReportAssumption, FS_CardinalityType DEF DayInv
    <3>2. uses' = uses \cup {<<d, Cardinality(uses) + 1>>}
        BY <2>2 DEF StoreUse
    <3> QED
        BY <1>1, <3>1, <3>2 DEF IsUse
  <2>3. uses' = uses \/ \E d \in {clock - 1, clock}, own \in BOOLEAN : StoreUse(d, own)
      BY DEF ReportNext, DayPasses, FindNothingNew, Reads, LoadDays, LoadHours, LoadProviders,
             LoadModels, LoadRangeDays, PlaceCursor, QueryFails, OnScanCompleted, CycleRange,
             MoveSelection, GoToColumn
  <2> QED
      BY <2>1, <2>2, <2>3
<1>4. /\ days' \subseteq uses \cup days /\ hours' \subseteq uses \cup hours
      /\ byProvider' \subseteq uses \cup byProvider /\ byModel' \subseteq uses \cup byModel
      /\ rangeDays' \subseteq uses \cup rangeDays
    BY DEF ReportNext, DayPasses, StoreUse, FindNothingNew, Reads, LoadDays, LoadHours, LoadProviders,
           LoadModels, LoadRangeDays, PlaceCursor, QueryFails, OnScanCompleted, CycleRange,
           MoveSelection, GoToColumn, shownVars, InReport
<1>5. \A S \in panels' : S \subseteq uses'
    BY <1>1, <1>3, <1>4
<1>6. \E i \in DOMAIN Ranges : range' = Ranges[i]
  <2>1. range' = range \/ \E dir \in {-1, 1} : range' = Stepped(range, dir)
      BY DEF ReportNext, DayPasses, StoreUse, FindNothingNew, Reads, LoadDays, LoadHours, LoadProviders,
             LoadModels, LoadRangeDays, PlaceCursor, QueryFails, OnScanCompleted, CycleRange,
             MoveSelection, GoToColumn
  <2> QED
      BY <1>1, <2>1, RangesAreSteppedThrough
<1> QED
    BY <1>2, <1>3, <1>5, <1>6 DEF ReportTypeOK

\* Every step keeps what is left to do a part of a plan.
LEMMA PlanStep ==
  ASSUME PlanInv, ReportNext
  PROVE  PlanInv'
<1>1. CASE queries' = queries /\ phase' = phase
    BY <1>1 DEF PlanInv
<1>2. ASSUME NEW query, Reads(query) PROVE PlanInv'
    BY <1>2, ReadingFollows
<1>3. CASE QueryFails
  <2>1. <<"cursor", "hours">> \in StartPlans /\ << >> \in RunPlans
      BY DEF StartPlans, RunPlans
  <2>2. phase = "starting" \/ phase = "running"
      BY <1>3 DEF PlanInv, QueryFails
  <2> QED
      BY <1>3, <2>1, <2>2 DEF PlanInv, QueryFails
<1>4. CASE /\ phase = "running" /\ phase' = phase
           /\ queries' \in {FullReload, <<"provider", "model", "range">>, <<"hours">>}
    BY <1>4 DEF PlanInv, RunPlans, FullReload
<1> QED
    BY <1>1, <1>2, <1>3, <1>4
    DEF ReportNext, DayPasses, StoreUse, FindNothingNew, LoadDays, LoadHours, LoadProviders,
        LoadModels, LoadRangeDays, PlaceCursor, AtRest, OnScanCompleted, CycleRange,
        MoveSelection, GoToColumn

\* Every step keeps the days: neither the report nor the usage is of the future.
LEMMA DayStep ==
  ASSUME DayInv, ReportNext
  PROVE  DayInv'
<1>1. /\ clock \in Clocks /\ clock \in Int /\ asOf \in Clocks /\ today \in Int /\ today <= clock
      /\ IsFiniteSet(uses) /\ \A u \in uses : u[1] \in Int /\ u[2] \in Nat /\ u[1] <= clock
      /\ weeks # 0 => today \in Clocks
    BY ReportAssumption DEF DayInv
<1>2. CASE DayPasses
  <2>1. PICK d \in Clocks : d > clock /\ clock' = d
      BY <1>2 DEF DayPasses
  <2>2. d \in Int
      BY ReportAssumption
  <2> QED
      BY <1>1, <1>2, <2>1, <2>2 DEF DayPasses, DayInv, gridVars
<1>3. ASSUME NEW d \in {clock - 1, clock}, NEW own \in BOOLEAN, StoreUse(d, own) PROVE DayInv'
  <2> DEFINE n == Cardinality(uses) + 1
  <2>1. d \in Int /\ d <= clock /\ n \in Nat
      BY <1>1, FS_CardinalityType
  <2>2. uses' = uses \cup {<<d, n>>}
      BY <1>3 DEF StoreUse
  <2>3. IsFiniteSet(uses')
      BY <1>1, <2>2, FS_AddElement
  <2> HIDE DEF n
  <2>4. \A u \in uses' : u[1] \in Int /\ u[2] \in Nat /\ u[1] <= clock
      BY <1>1, <2>1, <2>2
  <2>5. clock' = clock /\ asOf' = asOf /\ today' = today /\ weeks' = weeks
      BY <1>3 DEF StoreUse, gridVars
  <2> QED
      BY <1>1, <2>3, <2>4, <2>5 DEF DayInv
<1>4. CASE LoadDays
    BY <1>1, <1>4 DEF LoadDays, Reads, DayInv
<1>5. CASE LoadProviders
    BY <1>1, <1>5 DEF LoadProviders, Reads, DayInv, gridVars
<1>6. CASE UNCHANGED <<clock, asOf, today, weeks, uses>>
    BY <1>1, <1>6 DEF DayInv
<1> QED
    BY <1>2, <1>3, <1>4, <1>5, <1>6
    DEF ReportNext, FindNothingNew, Reads, LoadHours, LoadModels, LoadRangeDays, PlaceCursor, QueryFails,
        OnScanCompleted, CycleRange, MoveSelection, GoToColumn, gridVars

\* Every step keeps the grid that of its day, and the cursor in it.
LEMMA GridStep ==
  ASSUME GridInv, DayInv, ReportNext
  PROVE  GridInv'
<1>1. /\ start \in Int /\ weeks \in Nat /\ today \in Int /\ clock \in Int
      /\ cursor \in (0 .. LastWeek) \X (0 .. 6)
    BY ReportAssumption DEF GridInv, DayInv
<1>2. CASE LoadDays
  <2> DEFINE first == GridStart(clock)
             n == WeekCount(GridStart(clock), clock)
  <2>1. first \in Int /\ n \in Nat \ {0} /\ Within(cursor[1], n - 1) \in 0 .. n - 1
    <3>1. cursor[1] \in Int
        BY <1>1
    <3> QED
        BY <1>1, <3>1, GridIsWhole
  <2>2. /\ start' = first /\ weeks' = n /\ today' = clock
        /\ cursor' = <<Within(cursor[1], n - 1), cursor[2]>> /\ days' = InReport(uses, clock)
      BY <1>2 DEF LoadDays
  <2>3. LastWeek' = n - 1
      BY <2>1, <2>2 DEF LastWeek
  <2>4. \A u \in days' : u[1] \in LastDays(GridDays, clock)
      BY <2>2 DEF InReport
  <2> HIDE DEF first, n
  <2>5. cursor' \in (0 .. n - 1) \X (0 .. 6)
      BY <1>1, <2>1, <2>2
  <2>6. start' = GridStart(today') /\ weeks' = WeekCount(start', today')
      BY <2>2 DEF first, n
  <2> QED
      BY <2>1, <2>2, <2>3, <2>4, <2>5, <2>6 DEF GridInv
<1>3. CASE UNCHANGED gridVars /\ days' = days /\ cursor' \in (0 .. LastWeek) \X (0 .. 6)
    BY <1>1, <1>3 DEF GridInv, gridVars, LastWeek
<1>4. CASE PlaceCursor
  <2>1. UNCHANGED gridVars /\ days' = days /\ cursor' = <<LastWeek, Weekday(today)>>
      BY <1>4 DEF PlaceCursor, shownVars
  <2>2. LastWeek \in 0 .. LastWeek /\ Weekday(today) \in 0 .. 6
      BY <1>1 DEF LastWeek, Weekday
  <2> QED
      BY <1>3, <2>1, <2>2
<1>5. ASSUME NEW dw \in Int, NEW dr \in Int, MoveSelection(dw, dr) PROVE GridInv'
  <2>1. /\ UNCHANGED gridVars /\ days' = days
        /\ cursor' = <<Within(cursor[1] + dw, LastWeek), Within(cursor[2] + dr, 6)>>
      BY <1>5 DEF MoveSelection, shownVars
  <2>2. Within(cursor[1] + dw, LastWeek) \in 0 .. LastWeek /\ Within(cursor[2] + dr, 6) \in 0 .. 6
      BY <1>1 DEF Within, LastWeek
  <2> QED
      BY <1>3, <2>1, <2>2
<1>6. ASSUME NEW w \in {0, LastWeek}, GoToColumn(w) PROVE GridInv'
  <2>1. UNCHANGED gridVars /\ days' = days /\ cursor' = <<w, cursor[2]>>
      BY <1>6 DEF GoToColumn, shownVars
  <2>2. w \in 0 .. LastWeek
      BY <1>1 DEF LastWeek
  <2> QED
      BY <1>1, <1>3, <2>1, <2>2
<1>7. CASE UNCHANGED <<gridVars, days, cursor>>
    BY <1>1, <1>3, <1>7
<1> QED
  <2>1. \/ UNCHANGED <<gridVars, days, cursor>>
        \/ LoadDays \/ PlaceCursor \/ (\E dw, dr \in Int : MoveSelection(dw, dr))
        \/ (\E w \in {0, LastWeek} : GoToColumn(w))
      BY ReportActions DEF DayPasses, StoreUse, FindNothingNew, LoadHours, LoadProviders, LoadModels,
                           LoadRangeDays, QueryFails, OnScanCompleted, CycleRange, shownVars
  <2> QED
      BY <1>2, <1>4, <1>5, <1>6, <1>7, <2>1

\* Every step keeps the hours those of the cursor's day.
LEMMA HoursStep ==
  ASSUME HoursInv, PlanInv, ReportNext
  PROVE  HoursInv'
<1> SUFFICES ASSUME phase' # "ended", "hours" \notin Left(queries'), ~misread', NEW u \in hours'
             PROVE  u[1] = SelectedDate'
    BY DEF HoursInv
<1>1. CASE LoadHours
  <2>1. hours' = {v \in uses : v[1] = SelectedDate} /\ UNCHANGED <<cursor, gridVars>>
      BY <1>1 DEF LoadHours
  <2> QED
      BY <2>1 DEF SelectedDate, gridVars
<1>2. ASSUME NEW query \in {"days", "cursor"}, Reads(query) PROVE FALSE
    BY <1>2, ReadingFollows
<1>3. ASSUME NEW query, query # "hours", Reads(query), UNCHANGED <<cursor, gridVars, hours, misread>>
      PROVE  u[1] = SelectedDate'
  <2>1. phase # "ended" /\ "hours" \notin Left(queries)
      BY <1>3, ReadingFollows
  <2> QED
      BY <1>3, <2>1 DEF HoursInv, SelectedDate, gridVars
<1>4. CASE /\ "hours" \notin Left(queries) /\ phase # "ended"
           /\ UNCHANGED <<cursor, gridVars, hours, misread>>
    BY <1>4 DEF HoursInv, SelectedDate, gridVars
<1>5. CASE QueryFails
  <2>1. phase = "starting" \/ phase = "running"
      BY <1>5 DEF PlanInv, QueryFails
  <2>2. \A plan \in StartPlans : Len(plan) \in Nat \ {0}
      BY DEF StartPlans
  <2>3. Len(queries) > 1
    <3>1. phase = "starting"
        BY <1>5, <2>1 DEF QueryFails
    <3>2. queries \in StartPlans
        BY <3>1 DEF PlanInv
    <3>3. Len(queries) # 1
        BY <1>5, <3>1, Zenon DEF QueryFails
    <3>4. Len(queries) \in Nat \ {0}
        BY <2>2, <3>2
    <3> DEFINE n == Len(queries)
    <3> HIDE DEF n
    <3>5. n \in Nat \ {0} /\ n # 1
        BY <3>3, <3>4 DEF n
    <3>6. n > 1
        BY <3>5
    <3> QED
        BY <3>6 DEF n
  <2>4. queries' = <<"cursor", "hours">>
      BY <1>5, <2>1, <2>3 DEF QueryFails
  <2> QED
      BY <2>4 DEF Left
<1>6. CASE queries' \in {FullReload, <<"hours">>}
    BY <1>6 DEF FullReload, Left
<1>7. Left(<< >>) = {}
    BY DEF Left
<1> QED
    BY <1>1, <1>2, <1>3, <1>4, <1>5, <1>6, <1>7
    DEF ReportNext, DayPasses, StoreUse, FindNothingNew, LoadDays, LoadProviders, LoadModels,
        LoadRangeDays, PlaceCursor, OnScanCompleted, CycleRange, MoveSelection, GoToColumn, shownVars, AtRest

\* A step after which nothing is untold has stored nothing, and is the reload that hears
\* of a scan, or had no scan to hear of before.
LEMMA UsesAreSteady ==
  ASSUME ReportTypeOK, ReportNext, told' = 0, ~untold'
  PROVE  /\ uses' = uses
         /\ OnScanCompleted \/ (told = 0 /\ ~untold /\ ~QueryFails)
<1>1. told \in Nat
    BY DEF ReportTypeOK
<1>2. ~FindNothingNew
    BY <1>1 DEF FindNothingNew
<1>3. ~QueryFails
    BY DEF QueryFails
<1>4. ASSUME NEW d, NEW own \in BOOLEAN, StoreUse(d, own) PROVE FALSE
  <2>1. told' = IF own THEN told + 1 ELSE told
      BY <1>4 DEF StoreUse
  <2>2. untold' = (untold \/ ~own)
      BY <1>4 DEF StoreUse
  <2>3. own
      BY <2>2, Zenon
  <2> QED
      BY <1>1, <2>1, <2>3
<1> QED
    BY <1>2, <1>3, <1>4, ReportActions
    DEF DayPasses, OnScanCompleted, Reads, LoadDays, LoadHours, LoadProviders, LoadModels,
        LoadRangeDays, PlaceCursor, CycleRange, MoveSelection, GoToColumn

\* Every step keeps what has been read since the last reload what the database holds.
LEMMA ReadStep ==
  ASSUME ReportTypeOK, PlanInv, DayInv, ReadInv, ReportNext
  PROVE  ReadInv'
<1> SUFFICES ASSUME told' = 0, ~untold' PROVE ReadSince'
    BY DEF ReadInv
<1>1. uses' = uses
    BY UsesAreSteady
<1>2. CASE OnScanCompleted
  <2>1. Left(queries') = {"days", "hours", "provider", "model", "range"}
      BY <1>2 DEF OnScanCompleted, FullReload, Left
  <2> QED
      BY <2>1 DEF ReadSince
<1> SUFFICES ASSUME told = 0, ~untold, ~QueryFails PROVE ReadSince'
    BY <1>2, UsesAreSteady
<1>3. ReadSince
    BY DEF ReadInv
<1>4. Left(<< >>) = {}
    BY DEF Left
<1>5. CASE LoadDays
  <2>1. /\ days' = InReport(uses, clock) /\ today' = clock
        /\ UNCHANGED <<asOf, range, byProvider, byModel, rangeDays>>
      BY <1>5 DEF LoadDays
  <2>2. {"hours", "provider", "model", "range"} \subseteq Left(queries') /\ Reads("days")
      BY <1>5, ReadingFollows DEF LoadDays
  <2>3. DaysRead'
      BY <1>1, <2>1 DEF DaysRead, DayInv
  <2> QED
      BY <2>2, <2>3 DEF ReadSince
<1>6. CASE LoadHours
  <2>1. /\ hours' = {u \in uses : u[1] = SelectedDate}
        /\ UNCHANGED <<asOf, range, cursor, gridVars, days, byProvider, byModel, rangeDays>>
      BY <1>6 DEF LoadHours
  <2>2. Left(queries) = {"hours"} \cup Left(queries')
      BY <1>6, ReadingFollows DEF LoadHours
  <2>3. HoursRead' /\ (DaysRead => DaysRead') /\ InWindow' = InWindow
      BY <1>1, <2>1 DEF HoursRead, DaysRead, SelectedDate, InWindow, gridVars
  <2> QED
      BY <1>3, <2>1, <2>2, <2>3 DEF ReadSince, gridVars
<1>7. CASE LoadProviders
  <2>1. /\ byProvider' = {u \in uses : u[1] \in Window(range, clock)} /\ asOf' = clock
        /\ UNCHANGED <<range, cursor, gridVars, days, hours>>
      BY <1>7 DEF LoadProviders
  <2>2. /\ Left(queries) = {"provider"} \cup Left(queries')
        /\ {"model", "range"} \subseteq Left(queries')
      BY <1>7, ReadingFollows DEF LoadProviders
  <2>3. (HoursRead => HoursRead') /\ (DaysRead => DaysRead') /\ byProvider' = InWindow'
      BY <1>1, <2>1 DEF HoursRead, DaysRead, SelectedDate, InWindow, gridVars
  <2>4. today' <= asOf'
      BY <2>1 DEF DayInv, gridVars
  <2> QED
      BY <1>3, <2>2, <2>3, <2>4 DEF ReadSince
<1>8. CASE LoadModels \/ LoadRangeDays
  <2>1. UNCHANGED <<asOf, range, cursor, gridVars, days, hours, byProvider>>
      BY <1>8 DEF LoadModels, LoadRangeDays
  <2>2. (HoursRead => HoursRead') /\ (DaysRead => DaysRead') /\ InWindow' = InWindow
      BY <1>1, <2>1 DEF HoursRead, DaysRead, SelectedDate, InWindow, gridVars
  <2>3. CASE LoadModels
    <3>1. byModel' = InWindow /\ rangeDays' = rangeDays
        BY <2>3 DEF LoadModels, InWindow
    <3>2. Left(queries) = {"model"} \cup Left(queries')
        BY <2>3, ReadingFollows DEF LoadModels
    <3> QED
        BY <1>3, <2>1, <2>2, <3>1, <3>2 DEF ReadSince, gridVars
  <2>4. CASE LoadRangeDays
    <3>1. rangeDays' = InWindow /\ byModel' = byModel
        BY <2>4 DEF LoadRangeDays, InWindow
    <3>2. Left(queries) = {"range"} \cup Left(queries')
        BY <2>4, ReadingFollows DEF LoadRangeDays
    <3> QED
        BY <1>3, <2>1, <2>2, <3>1, <3>2 DEF ReadSince, gridVars
  <2> QED
      BY <1>8, <2>3, <2>4
<1>9. ASSUME "hours" \in Left(queries'), Left(queries) \subseteq {"cursor"} \cup Left(queries'),
             UNCHANGED <<asOf, range, gridVars, days, byProvider, byModel, rangeDays>>
      PROVE  ReadSince'
  <2>1. (DaysRead => DaysRead') /\ InWindow' = InWindow
      BY <1>1, <1>9 DEF DaysRead, InWindow, gridVars
  <2> QED
      BY <1>3, <1>9, <2>1 DEF ReadSince, gridVars
<1>10. CASE PlaceCursor
    BY <1>9, <1>10, ReadingFollows DEF PlaceCursor, shownVars
<1>11. CASE queries = << >> /\ queries' = <<"hours">>
            /\ UNCHANGED <<asOf, range, gridVars, days, byProvider, byModel, rangeDays>>
  <2>1. "hours" \in Left(queries')
      BY <1>11 DEF Left
  <2> QED
      BY <1>4, <1>9, <1>11, <2>1
<1>12. CASE queries = << >> /\ queries' = <<"provider", "model", "range">>
            /\ UNCHANGED <<cursor, gridVars, days, hours>>
  <2>1. Left(queries') = {"provider", "model", "range"}
      BY <1>12 DEF Left
  <2>2. (HoursRead => HoursRead') /\ (DaysRead => DaysRead')
      BY <1>1, <1>12 DEF HoursRead, DaysRead, SelectedDate, gridVars
  <2> QED
      BY <1>3, <1>4, <1>12, <2>1, <2>2 DEF ReadSince
<1>13. CASE UNCHANGED <<queries, asOf, range, cursor, gridVars, shownVars>>
    BY <1>1, <1>3, <1>13 DEF ReadSince, HoursRead, DaysRead, SelectedDate, InWindow, gridVars, shownVars
<1> QED
    BY <1>2, <1>5, <1>6, <1>7, <1>8, <1>10, <1>11, <1>12, <1>13, ReportActions, UsesAreSteady
    DEF DayPasses, StoreUse, FindNothingNew, CycleRange, MoveSelection, GoToColumn, AtRest, shownVars

\* The latest of the first days up to a day: a month or a year begins there.
LEMMA LatestIsLatest ==
  ASSUME NEW S, S \subseteq Int, NEW d \in Int, \E f \in S : f <= d
  PROVE  Latest(S, d) \in S /\ Latest(S, d) <= d /\ \A g \in S : g <= d => g <= Latest(S, d)
<1> DEFINE T == {n \in Nat : d - n \in S}
           P(f) == f \in S /\ f <= d /\ \A g \in S : g <= d => g <= f
<1>1. PICK f \in S : f <= d
    OBVIOUS
<1>2. d - f \in T
  <2>1. d - f \in Nat /\ d - (d - f) = f
      BY <1>1
  <2> QED
      BY <1>1, <2>1
<1>3. PICK n \in T : \A m \in T : n <= m
    BY <1>2, LeastNatural
<1>4. n \in Nat /\ d - n \in S /\ d - n <= d
    BY <1>3
<1>5. ASSUME NEW g \in S, g <= d PROVE g <= d - n
  <2>1. d - g \in Nat /\ d - (d - g) = g /\ g \in Int
      BY <1>5
  <2>2. n <= d - g
      BY <1>3, <2>1
  <2> QED
      BY <1>4, <2>1, <2>2
<1>6. P(d - n)
    BY <1>4, <1>5
<1>7. P(CHOOSE g : P(g))
  <2> HIDE DEF P
  <2> QED
      BY <1>6
<1>8. Latest(S, d) = CHOOSE g : P(g)
    BY DEF Latest
<1> QED
    BY <1>7, <1>8

\* The earliest of the first days after a day: a month or a year ends before it.
LEMMA EarliestIsEarliest ==
  ASSUME NEW S, S \subseteq Int, NEW d \in Int, \E f \in S : f > d
  PROVE  Earliest(S, d) \in S /\ Earliest(S, d) > d
<1> DEFINE T == {n \in Nat : d + 1 + n \in S}
           P(f) == f \in S /\ f > d /\ \A g \in S : g > d => f <= g
<1>1. PICK f \in S : f > d
    OBVIOUS
<1>2. f - d - 1 \in T
  <2>1. f - d - 1 \in Nat /\ d + 1 + (f - d - 1) = f
      BY <1>1
  <2> QED
      BY <1>1, <2>1
<1>3. PICK n \in T : \A m \in T : n <= m
    BY <1>2, LeastNatural
<1>4. n \in Nat /\ d + 1 + n \in S /\ d + 1 + n > d
    BY <1>3
<1>5. ASSUME NEW g \in S, g > d PROVE d + 1 + n <= g
  <2>1. g - d - 1 \in Nat /\ d + 1 + (g - d - 1) = g /\ g \in Int
      BY <1>5
  <2>2. n <= g - d - 1
      BY <1>3, <2>1
  <2> QED
      BY <1>4, <2>1, <2>2
<1>6. P(d + 1 + n)
    BY <1>4, <1>5
<1>7. P(CHOOSE g : P(g))
  <2> HIDE DEF P
  <2> QED
      BY <1>6
<1>8. Earliest(S, d) = CHOOSE g : P(g)
    BY DEF Earliest
<1> QED
    BY <1>7, <1>8

\* The statistics of whatever days were read are runs of those days.
LEMMA StreaksFollow == DayInv => StreaksAreRuns
<1> SUFFICES ASSUME DayInv PROVE StreaksAreRuns
    OBVIOUS
<1> DEFINE first == today - GridDays + 1
           active == ActiveDays(rangeDays, today)
           longest == LongestStreak(active, today)
           final == IF today \in active THEN today ELSE today - 1
           current == CurrentStreak(active, today)
<1>1. today \in Int /\ first \in Int /\ first <= today
    BY ReportAssumption DEF DayInv
<1>2. active \subseteq first .. today
    BY DEF ActiveDays, InReport, LastDays
<1>3. DaysOf(active, first, today)
    BY <1>1, <1>2 DEF DaysOf
<1>4. longest = RunsAfter(active, first, today)[today].longest
    BY DEF LongestStreak
<1>5. current = RunUpTo(active, first, today)[final]
    BY DEF CurrentStreak
<1>6. LastDays(GridDays, today) = first .. today
    BY DEF LastDays
<1>7. final \in first - 1 .. today /\ final \in {today, today - 1}
    BY <1>1
<1> HIDE DEF first, active, longest, final, current
<1>8. /\ longest \in Nat
      /\ \E d \in first .. today : d - longest + 1 .. d \subseteq active
      /\ \A d \in first .. today : ~(d - longest .. d \subseteq active)
    BY <1>3, <1>4, LongestIsFound
<1>9. /\ current \in Nat
      /\ final - current + 1 .. final \subseteq active
      /\ final - current \notin active
      /\ current <= longest
    BY <1>3, <1>4, <1>5, <1>7, CurrentIsFound
<1>10. \A d \in first .. today : d - (longest + 1) + 1 = d - longest
    BY <1>1, <1>8
<1>11. /\ \E d \in LastDays(GridDays, today) : d - longest + 1 .. d \subseteq active
       /\ ~\E d \in LastDays(GridDays, today) : d - (longest + 1) + 1 .. d \subseteq active
    BY <1>6, <1>8, <1>10
<1>12. \E d \in {today, today - 1} : d - current + 1 .. d \subseteq active /\ d - current \notin active
    BY <1>7, <1>9
<1> QED
    BY <1>9, <1>11, <1>12 DEF StreaksAreRuns, active, longest, current

\* A window ends before today, or starts where today's own does.
LEMMA PeriodsAreRecent ==
  ASSUME NEW S, S \subseteq Int, NEW t \in Int, NEW a \in Int, t <= a,
         \E f \in S : f <= t, \E f \in S : f > a,
         NEW d \in PeriodFrom(S, a), d <= t
  PROVE  d >= Latest(S, t)
<1>1. \E f \in S : f <= a
    OBVIOUS
<1>2. Latest(S, a) \in S /\ Latest(S, a) \in Int
    BY <1>1, LatestIsLatest
<1>3. Earliest(S, a) \in Int
    BY EarliestIsEarliest
<1>4. d \in Int /\ Latest(S, a) <= d
    BY <1>2, <1>3 DEF PeriodFrom
<1>5. Latest(S, a) <= t
    BY <1>2, <1>4
<1>6. /\ Latest(S, t) \in S /\ Latest(S, t) \in Int /\ Latest(S, t) <= t
      /\ \A g \in S : g <= t => g <= Latest(S, t)
    BY LatestIsLatest
<1>7. Latest(S, t) <= a
    BY <1>6
<1>8. Latest(S, t) <= Latest(S, a)
    BY <1>1, <1>6, <1>7, LatestIsLatest
<1> QED
    BY <1>2, <1>4, <1>6, <1>8

\* Which window a range stands for.
LEMMA RangeIsOneOf ==
  ASSUME NEW i \in 1 .. 7
  PROVE  Ranges[i] \in {"Year365", "Today", "Yesterday", "ThisWeek", "LastWeek", "ThisMonth", "ThisYear"}
<1>2. CASE i = 1
    BY <1>2 DEF Ranges
<1>3. CASE i = 2
    BY <1>3 DEF Ranges
<1>4. CASE i = 3
    BY <1>4 DEF Ranges
<1>5. CASE i = 4
    BY <1>5 DEF Ranges
<1>6. CASE i = 5
    BY <1>6 DEF Ranges
<1>7. CASE i = 6
    BY <1>7 DEF Ranges
<1>8. CASE i = 7
    BY <1>8 DEF Ranges
<1> QED
    BY <1>2, <1>3, <1>4, <1>5, <1>6, <1>7, <1>8

\* Whatever the range, its window is of days the database may have.
LEMMA WindowsAreRecent ==
  ASSUME NEW t \in Int, NEW a \in Int, t \in Clocks, a \in Clocks, t <= a, 
         NEW r \in {"Year365", "Today", "Yesterday", "ThisWeek", "LastWeek", "ThisMonth", "ThisYear"},
         ~(r = "ThisYear" /\ Latest(YearStarts, t) < t - GridDays + 1),
         NEW d \in Int, d \in Window(r, a), d <= t
  PROVE  d \in LastDays(GridDays, t)
<1>1. GridDays \in Nat /\ GridDays >= 14
      /\ YearStarts \subseteq Int /\ MonthStarts \subseteq Int
    BY ReportAssumption, CalendarAssumption
<1>2. d \in Int /\ d >= t - GridDays + 1
  <2>1. CASE r = "Year365"
    <3>1. d \in a - GridDays + 1 .. a
        BY <2>1 DEF Window, LastDays
    <3> QED
        BY <1>1, <3>1
  <2>2. CASE r \in {"Today", "Yesterday"}
    <3>1. d \in {a, a - 1}
        BY <2>2 DEF Window
    <3> QED
        BY <1>1, <3>1
  <2>3. CASE r \in {"ThisWeek", "LastWeek"}
    <3>1. d \in Monday(a) - 7 .. Monday(a) + 6 /\ Monday(a) \in Int /\ Monday(a) >= a - 6
      <4>1. Monday(a) \in Int /\ Monday(a) >= a - 6
          BY <1>1 DEF Monday
      <4>2. d \in Monday(a) .. Monday(a) + 6 \/ d \in Monday(a) - 7 .. Monday(a) - 1
          BY <2>3 DEF Window
      <4> QED
          BY <4>1, <4>2
    <3> QED
        BY <1>1, <3>1
  <2>4. CASE r = "ThisMonth"
    <3>1. PICK m \in MonthStarts : t - GridDays < m /\ m <= t
        BY CalendarAssumption
    <3>2. \E f \in MonthStarts : f > a
        BY ReportAssumption, CalendarAssumption
    <3>3. Latest(MonthStarts, t) \in Int /\ m <= Latest(MonthStarts, t)
        BY <1>1, <3>1, LatestIsLatest
    <3>4. Latest(MonthStarts, t) >= t - GridDays + 1 /\ t - GridDays + 1 \in Int
        BY <1>1, <3>1, <3>3
    <3>5. d \in PeriodFrom(MonthStarts, a)
        BY <2>4 DEF Window
    <3>6. d \in Int
        BY <3>5 DEF PeriodFrom
    <3>7. \E f \in MonthStarts : f <= t
        BY <3>1
    <3>8. d >= Latest(MonthStarts, t)
        BY <1>1, <3>2, <3>5, <3>7, PeriodsAreRecent
    <3> QED
        BY <3>3, <3>4, <3>6, <3>8
  <2>5. CASE r = "ThisYear"
    <3>1. (\E f \in YearStarts : f <= t) /\ (\E f \in YearStarts : f > a)
        BY CalendarAssumption
    <3>2. Latest(YearStarts, t) \in Int
        BY <1>1, <3>1, LatestIsLatest
    <3>3. Latest(YearStarts, t) >= t - GridDays + 1 /\ t - GridDays + 1 \in Int
        BY <1>1, <2>5, <3>2
    <3>4. d \in PeriodFrom(YearStarts, a)
        BY <2>5 DEF Window
    <3>5. d \in Int
        BY <3>4 DEF PeriodFrom
    <3>6. d >= Latest(YearStarts, t)
        BY <1>1, <3>1, <3>4, PeriodsAreRecent
    <3> QED
        BY <3>2, <3>3, <3>5, <3>6
  <2> QED
      BY <2>1, <2>2, <2>3, <2>4, <2>5
<1> QED
    BY <1>1, <1>2 DEF LastDays

\* The properties follow from the invariant.
LEMMA PanelIsSound == PanelInv => ReportInv
<1> SUFFICES ASSUME PanelInv PROVE ReportInv
    OBVIOUS
<1> USE DEF PanelInv
<1>1. AtRest => Left(queries) = {} /\ phase # "ended"
    BY DEF AtRest, Left
<1>2. HoursAreTheSelectedDays
    BY <1>1 DEF HoursAreTheSelectedDays, HoursInv
<1>3. CursorIsInTheGrid
  <2> SUFFICES ASSUME weeks > 0
               PROVE  /\ cursor[1] \in 0 .. weeks - 1 /\ cursor[2] \in 0 .. 6
                      /\ WeekIndex(today, start) = weeks - 1
                      /\ \A u \in days : WeekIndex(u[1], start) \in 0 .. weeks - 1
      BY DEF CursorIsInTheGrid
  <2>1. /\ weeks \in Nat /\ start \in Int /\ today \in Int
        /\ start = GridStart(today) /\ weeks = WeekCount(start, today)
        /\ \A u \in days : u[1] \in LastDays(GridDays, today)
      BY DEF GridInv, DayInv
  <2>2. LastWeek = weeks - 1
      BY <2>1 DEF LastWeek
  <2>3. cursor[1] \in 0 .. weeks - 1 /\ cursor[2] \in 0 .. 6
      BY <2>2 DEF GridInv
  <2>4. start <= today - GridDays + 1
      BY <2>1, GridIsWhole
  <2>5. ASSUME NEW u \in days PROVE WeekIndex(u[1], start) \in 0 .. weeks - 1
    <3>1. u[1] \in today - GridDays + 1 .. today
        BY <2>1 DEF LastDays
    <3>2. u[1] \in Int /\ start <= u[1] /\ u[1] <= today
        BY <2>1, <2>4, <3>1, ReportAssumption
    <3> QED
        BY <2>1, <3>2 DEF WeekIndex, WeekCount
  <2>6. WeekIndex(today, start) = weeks - 1
      BY <2>1 DEF WeekCount, WeekIndex
  <2> QED
      BY <2>3, <2>5, <2>6
<1>4. Heard => /\ DaysRead /\ HoursRead /\ today <= asOf
               /\ byProvider = InWindow /\ byModel = InWindow /\ rangeDays = InWindow
    BY <1>1 DEF Heard, ReadInv, ReadSince
<1>5. ReportIsCurrent
    BY <1>4 DEF ReportIsCurrent, DaysRead, HoursRead, InWindow
<1>6. SummaryIsTheBreakdown
  <2> SUFFICES ASSUME Heard, ~(range = "ThisYear" /\ Latest(YearStarts, today) < today - GridDays + 1),
                      NEW u \in rangeDays
               PROVE  u[1] \in LastDays(GridDays, today)
      BY <1>4 DEF SummaryIsTheBreakdown, InReport
  <2>1. u \in uses /\ u[1] \in Window(range, asOf) /\ u[1] <= today /\ today \in Clocks /\ asOf \in Clocks
      BY <1>4 DEF InWindow, DaysRead, DayInv
  <2>3. u[1] \in Int /\ today \in Int /\ asOf \in Int
      BY <2>1, ReportAssumption DEF DayInv
  <2>2. PICK i \in DOMAIN Ranges : range = Ranges[i]
      BY DEF ReportTypeOK
  <2>4. range \in {"Year365", "Today", "Yesterday", "ThisWeek", "LastWeek", "ThisMonth", "ThisYear"}
      BY <2>2, RangesAreSeven, RangeIsOneOf
  <2> QED
      BY <1>4, <2>1, <2>3, <2>4, WindowsAreRecent
<1>7. StreaksAreRuns
    BY StreaksFollow
<1> QED
    BY <1>2, <1>3, <1>5, <1>6, <1>7 DEF ReportInv

\* Every step of the terminal, its clock and its scans keeps PanelInv.
LEMMA PanelStep == PanelInv /\ [ReportNext]_reportVars => PanelInv'
<1> SUFFICES ASSUME PanelInv, [ReportNext]_reportVars PROVE PanelInv'
    OBVIOUS
<1>1. CASE ReportNext
    BY <1>1, ReportTypeStep, PlanStep, DayStep, GridStep, HoursStep, ReadStep DEF PanelInv
<1>2. CASE UNCHANGED reportVars
    BY <1>2 DEF PanelInv, reportVars, gridVars, shownVars, ReportTypeOK, PlanInv, DayInv, GridInv, HoursInv,
                ReadInv, ReadSince, DaysRead, HoursRead, InWindow, LastWeek, SelectedDate
<1> QED
    BY <1>1, <1>2

-----------------------------------------------------------------------------
\* The program: a step of it is a step of one part, and leaves the others alone.

\* What a part keeps, the program keeps: the parts share no state.
LEMMA ProgramStep ==
  [Next]_programVars => /\ [BallNext]_ballVars /\ [SizeNext]_sizeVars
                        /\ [AutostartNext]_autostartVars /\ [RebuildNext]_rebuildVars
                        /\ [SchedulerNext]_schedulerVars /\ [ReportNext]_reportVars
    BY DEF Next, programVars

\* The last drop decides where the ball is docked, however late its report is
\* handled; an owed snap is owed to that edge, and a dragged ball that is not docked
\* stays under the pointer (floating.rs set_docked, advance_morph and render, and
\* the window procedure's dock_and_snap, whichever runs first).
THEOREM BallIsDocked == Spec => []BallInv
<1>1. Init => DockInv
    BY DockStart DEF Init
<1>2. DockInv /\ [Next]_programVars => DockInv'
    BY DockStep, ProgramStep
<1>3. DockInv => BallInv
    BY DEF DockInv
<1> QED
    BY <1>1, <1>2, <1>3, PTL DEF Spec

\* A ball at rest is whole: its shape, its place on the edge's line and the size it
\* published agree with each other and with where it was dropped, though the drop, the
\* handling of its report and the frames write them at different times.
THEOREM BallRestsWhole == Spec => []RestingBallIsWhole
<1>1. Init => DockInv
    BY DockStart DEF Init
<1>2. DockInv /\ [Next]_programVars => DockInv'
    BY DockStep, ProgramStep
<1>3. DockInv => RestingBallIsWhole
    BY RestingFollows
<1> QED
    BY <1>1, <1>2, <1>3, PTL DEF Spec

\* The last size the window was given reaches the settings once the writer is idle,
\* and only a usable one does (main.rs and window_state.rs: the observer, the
\* channel, and the writer that waits for a pause).
THEOREM SizeIsRemembered == Spec => []SizeInv
<1>1. Init => SizeInv
    BY SizeStart DEF Init
<1>2. SizeInv /\ [Next]_programVars => SizeInv'
    BY SizeStep, ProgramStep
<1> QED
    BY <1>1, <1>2, PTL DEF Spec

\* Once the background jobs have been handled the auto-start switch shows what the
\* registry holds, unless writes crossed or the registry could not be read (app.rs
\* set_autostart and refresh_autostart_enabled).
THEOREM SwitchIsRight == Spec => []AutostartInv
<1>1. Init => SwitchInv
    BY SwitchStart DEF Init
<1>2. SwitchInv /\ [Next]_programVars => SwitchInv'
    BY SwitchStep, ProgramStep
<1>3. SwitchInv => AutostartInv
    BY SwitchIsSound
<1> QED
    BY <1>1, <1>2, <1>3, PTL DEF Spec

\* The scheduler never waits by an interval that was replaced without a wake on its
\* way (scheduler.rs run_scheduler and the settings' handler in app.rs).
THEOREM IntervalTakesEffect == Spec => []SchedulerInv
<1>1. Init => SchedulerInv
    BY SchedulerStart DEF Init
<1>2. SchedulerInv /\ [Next]_programVars => SchedulerInv'
    BY SchedulerStep, ProgramStep
<1> QED
    BY <1>1, <1>2, PTL DEF Spec

\* Whatever fails or dies while a database is copied, costed and rebuilt: a copy in
\* use is whole, all rows have the prices of the program that runs, and what a
\* scan would pass over is held (collector/mod.rs Collector::open), except for what
\* two programs do to each other.
THEOREM RebuildIsSafe == Spec => []RebuildInv
<1>1. Init => OpenInv
    BY OpenStart DEF Init
<1>2. OpenInv /\ [Next]_programVars => OpenInv'
    BY OpenStep, ProgramStep
<1>3. OpenInv => RebuildInv
    BY OpenIsSound
<1> QED
    BY <1>1, <1>2, <1>3, PTL DEF Spec

\* The terminal's panels agree with the database and with each other once it is at
\* rest and has heard of every scan, although they are read by queries of their own
\* while scans commit and midnight passes; the cursor and its day's hours stay
\* together; and the streaks are runs of days (tui/app.rs, report/stats.rs).
THEOREM ReportAgrees == Spec => []ReportInv
<1>1. Init => PanelInv
    BY PanelStart DEF Init
<1>2. PanelInv /\ [Next]_programVars => PanelInv'
    BY PanelStep, ProgramStep
<1>3. PanelInv => ReportInv
    BY PanelIsSound
<1> QED
    BY <1>1, <1>2, <1>3, PTL DEF Spec

=============================================================================
