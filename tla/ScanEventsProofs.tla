-------------------------- MODULE ScanEventsProofs --------------------------
(***************************************************************************)
(* ScanEvents for any set of threads and any number of sources.            *)
(***************************************************************************)
EXTENDS ScanEvents, TLAPS

\* Saving a setting moves nothing but the UI thread.
LEMMA SavingMovesNothing ==
  ASSUME SaveSetting \/ SettingSaved
  PROVE  /\ UNCHANGED <<dirty, uses, stale, unheard, pc, at, outbox, events>>
         /\ UNCHANGED <<status, completed, faults, muddled>> /\ saving' \in BOOLEAN
    BY DEF SaveSetting, SettingSaved, toolVars, screenVars, workerVars

-----------------------------------------------------------------------------
\* Typing.  A worker's place and its outbox go together: only one that has something
\* to send sends, and one that is idle or about to look at a source has sent it all.
OutboxInv == \A w \in Worker :
  /\ pc[w] \in {"idle", "next"} => outbox[w] = <<>>
  /\ pc[w] = "send" => outbox[w] # <<>>
  /\ pc[w] \in {"wait", "scan"} => at[w] <= Total

\* The channel holds events.
LEMMA EventsAreTyped ==
  ASSUME NEW p \in Source
  PROVE  /\ Started(p) \in Event /\ Failed(p) \in Event
         /\ \A same \in BOOLEAN : Completed(p, same) \in Event
    BY DEF Event

\* What a scan that ends leaves behind, whatever its outcome.
LEMMA AdvanceStep ==
  ASSUME TypeOK, OutboxInv, NEW w \in Worker, pc[w] = "scan", Advance(w), NEW e \in Event,
         outbox' = [outbox EXCEPT ![w] = Append(@, e)]
  PROVE  /\ pc' \in [Worker -> {"idle", "next", "wait", "scan", "send"}]
         /\ at' \in [Worker -> 1 .. Total + 1] /\ outbox' \in [Worker -> Seq(Event)]
         /\ OutboxInv'
<1> USE ConstantsAreTyped DEF ConstantsAreTyped
<1>1. /\ at \in [Worker -> 1 .. Total + 1] /\ pc \in [Worker -> {"idle", "next", "wait", "scan", "send"}]
      /\ outbox \in [Worker -> Seq(Event)] /\ at[w] <= Total /\ at[w] + 1 \in 1 .. Total + 1
    BY DEF TypeOK, OutboxInv
<1>2. /\ at' = [at EXCEPT ![w] = @ + 1]
      /\ pc' = [pc EXCEPT ![w] = IF w = "scheduler" /\ at[w] < Total THEN "scan" ELSE "send"]
    BY DEF Advance
<1>3. Append(outbox[w], e) \in Seq(Event) /\ Append(outbox[w], e) # <<>>
    BY <1>1
<1>4. at' \in [Worker -> 1 .. Total + 1]
    BY <1>1, <1>2
<1>5. pc' \in [Worker -> {"idle", "next", "wait", "scan", "send"}]
    BY <1>1, <1>2
<1>6. outbox' \in [Worker -> Seq(Event)]
    BY <1>1, <1>3
<1>7. ASSUME NEW v \in Worker
      PROVE  /\ pc'[v] \in {"idle", "next"} => outbox'[v] = <<>>
             /\ pc'[v] = "send" => outbox'[v] # <<>>
             /\ pc'[v] \in {"wait", "scan"} => at'[v] <= Total
  <2>1. CASE v = w
      BY <1>1, <1>2, <1>3, <2>1
  <2>2. CASE v # w
      BY <1>1, <1>2, <2>2 DEF OutboxInv
  <2> QED
      BY <2>1, <2>2
<1> QED
    BY <1>4, <1>5, <1>6, <1>7 DEF OutboxInv

\* Every step keeps the types.
LEMMA TypeStep == TypeOK /\ OutboxInv /\ [Next]_vars => TypeOK' /\ OutboxInv'
<1> SUFFICES ASSUME TypeOK, OutboxInv, [Next]_vars PROVE TypeOK' /\ OutboxInv'
    OBVIOUS
<1> USE ConstantsAreTyped DEF ConstantsAreTyped
<1>0. /\ dirty \subseteq Source /\ stale \subseteq Source /\ unheard \subseteq stale
      /\ pc \in [Worker -> {"idle", "next", "wait", "scan", "send"}]
      /\ at \in [Worker -> 1 .. Total + 1]
      /\ outbox \in [Worker -> Seq(Event)] /\ events \in Seq(Event)
      /\ status \in {"idle", "scanning", "done", "failed"} /\ completed \in 0 .. Total - 1
      /\ uses \in 0 .. MaxUses /\ faults \in 0 .. MaxFaults /\ muddled \in BOOLEAN
      /\ saving \in BOOLEAN
    BY DEF TypeOK
<1>20. saving' \in BOOLEAN
  <2>1. saving' = saving \/ saving' \in BOOLEAN
    <3>1. CASE \E p \in Source : Use(p) \/ OtherProcessScans(p)
        BY <3>1 DEF Use, OtherProcessScans, uiVars
    <3>2. CASE \E t \in Thread : TriggerScan(t) \/ RefreshFromTray(t)
        BY <3>2 DEF TriggerScan, RefreshFromTray, uiVars
    <3>3. CASE Tick
        BY <3>3 DEF Tick, uiVars
    <3>4. CASE \E w \in Worker : Step(w)
        BY <3>4 DEF Step, Lock, ScanOk, ScanErr, Send, NextSource, uiVars
    <3>5. CASE Handle
        BY <3>5 DEF Handle, OnStarted, OnCompleted, OnFailed, Receive
    <3>6. CASE SaveSetting \/ SettingSaved
        BY <3>6, SavingMovesNothing
    <3>7. CASE UNCHANGED vars
        BY <3>7 DEF vars
    <3> QED
        BY <3>1, <3>2, <3>3, <3>4, <3>5, <3>6, <3>7 DEF Next
  <2> QED
      BY <1>0, <2>1
<1>11. "scheduler" \in Worker /\ Thread \subseteq Worker
    BY DEF Worker
<1>1. ASSUME NEW p \in Source, Use(p) \/ OtherProcessScans(p) PROVE TypeOK' /\ OutboxInv'
  <2>1. UNCHANGED <<pc, at, outbox, events, status, completed, faults, muddled>>
      BY <1>1 DEF Use, OtherProcessScans, workerVars, uiVars
  <2>2. /\ dirty' \subseteq Source /\ stale' \subseteq Source /\ unheard' \subseteq stale'
        /\ uses' \in 0 .. MaxUses
      BY <1>0, <1>1 DEF Use, OtherProcessScans, screenVars
  <2> QED
      BY <1>0, <1>20, <2>1, <2>2 DEF TypeOK, OutboxInv
<1>2. ASSUME NEW t \in Thread, TriggerScan(t) \/ RefreshFromTray(t) PROVE TypeOK' /\ OutboxInv'
  <2>1. /\ pc[t] = "idle" /\ pc' = [pc EXCEPT ![t] = "next"] /\ at' = [at EXCEPT ![t] = 1]
        /\ UNCHANGED <<dirty, uses, stale, unheard, outbox, events, faults>>
      BY <1>2 DEF TriggerScan, RefreshFromTray, Spawn, toolVars, screenVars
  <2>2. status' \in {"idle", "scanning", "done", "failed"} /\ completed' \in 0 .. Total - 1
      BY <1>0, <1>2 DEF TriggerScan, RefreshFromTray, uiVars
  <2>3. muddled' \in BOOLEAN
    <3>1. CASE TriggerScan(t)
        BY <3>1 DEF TriggerScan
    <3>2. CASE RefreshFromTray(t)
        BY <1>0, <3>2 DEF RefreshFromTray
    <3> QED
        BY <1>2, <3>1, <3>2
  <2>4. pc' \in [Worker -> {"idle", "next", "wait", "scan", "send"}] /\ at' \in [Worker -> 1 .. Total + 1]
    <3>1. 1 \in 1 .. Total + 1
        OBVIOUS
    <3> QED
        BY <1>0, <2>1, <3>1
  <2>5. OutboxInv'
      BY <1>0, <1>11, <2>1 DEF OutboxInv
  <2> QED
      BY <1>0, <1>20, <2>1, <2>2, <2>3, <2>4, <2>5 DEF TypeOK
<1>3. CASE Tick
  <2>1. /\ pc["scheduler"] = "idle" /\ pc' = [pc EXCEPT !["scheduler"] = "wait"]
        /\ at' = [at EXCEPT !["scheduler"] = 1]
        /\ UNCHANGED <<dirty, uses, stale, unheard, outbox, events, status, completed, faults>>
      BY <1>3 DEF Tick, toolVars, screenVars, uiVars
  <2>2. muddled' \in BOOLEAN
      BY <1>0, <1>3 DEF Tick
  <2>3. pc' \in [Worker -> {"idle", "next", "wait", "scan", "send"}] /\ at' \in [Worker -> 1 .. Total + 1]
    <3>1. 1 \in 1 .. Total + 1
        OBVIOUS
    <3> QED
        BY <1>0, <2>1, <3>1
  <2>4. OutboxInv'
      BY <1>0, <1>11, <2>1 DEF OutboxInv
  <2> QED
      BY <1>0, <1>20, <2>1, <2>2, <2>3, <2>4 DEF TypeOK
<1>4. ASSUME NEW w \in Worker, Lock(w) PROVE TypeOK' /\ OutboxInv'
  <2>1. /\ pc[w] = "wait" /\ pc' = [pc EXCEPT ![w] = "scan"]
        /\ UNCHANGED <<dirty, uses, stale, unheard, at, outbox, events, status, completed, faults, muddled>>
      BY <1>4 DEF Lock, toolVars, screenVars, uiVars
  <2>2. pc' \in [Worker -> {"idle", "next", "wait", "scan", "send"}]
      BY <1>0, <2>1
  <2>3. OutboxInv'
      BY <1>0, <2>1 DEF OutboxInv
  <2> QED
      BY <1>0, <1>20, <2>1, <2>2, <2>3 DEF TypeOK
<1>5. ASSUME NEW w \in Worker, ScanOk(w) PROVE TypeOK' /\ OutboxInv'
  <2>1. /\ pc[w] = "scan" /\ Advance(w)
        /\ dirty' = dirty \ {at[w]} /\ stale' = stale \cup (dirty \cap {at[w]})
        /\ UNCHANGED <<events, status, completed, uses, faults, muddled, unheard>>
      BY <1>5 DEF ScanOk, uiVars
  <2>2. PICK e \in Event : outbox' = [outbox EXCEPT ![w] = Append(@, e)]
    <3>1. at[w] \in Source
        BY <1>0, <2>1 DEF OutboxInv, Source
    <3>2. PICK same \in BOOLEAN : same = (at[w] \notin dirty /\ at[w] \notin Absent)
        OBVIOUS
    <3>3. Completed(at[w], same) \in Event
        BY <3>1, EventsAreTyped
    <3>4. outbox' = [outbox EXCEPT ![w] = Append(@, Completed(at[w], same))]
        BY <1>5, <3>2 DEF ScanOk
    <3> QED
        BY <3>3, <3>4
  <2>3. /\ pc' \in [Worker -> {"idle", "next", "wait", "scan", "send"}]
        /\ at' \in [Worker -> 1 .. Total + 1] /\ outbox' \in [Worker -> Seq(Event)]
        /\ OutboxInv'
      BY <2>1, <2>2, AdvanceStep
  <2>4. dirty' \subseteq Source /\ stale' \subseteq Source /\ unheard' \subseteq stale'
      BY <1>0, <2>1
  <2> QED
      BY <1>0, <1>20, <2>1, <2>3, <2>4 DEF TypeOK
<1>6. ASSUME NEW w \in Worker, ScanErr(w) PROVE TypeOK' /\ OutboxInv'
  <2>1. /\ pc[w] = "scan" /\ faults < MaxFaults /\ faults' = faults + 1 /\ muddled' = TRUE
        /\ UNCHANGED <<dirty, uses, events, status, completed>>
      BY <1>6 DEF ScanErr, toolVars, uiVars
  <2>2. stale \subseteq stale' /\ stale' \subseteq Source
      BY <1>0, <1>6 DEF ScanErr
  <2>3. unheard' \subseteq stale'
      BY <1>0, <1>6, <2>2 DEF ScanErr
  <2>4. faults' \in 0 .. MaxFaults /\ muddled' \in BOOLEAN
      BY <1>0, <2>1
  <2>5. /\ pc' \in [Worker -> {"idle", "next", "wait", "scan", "send"}]
        /\ at' \in [Worker -> 1 .. Total + 1] /\ outbox' \in [Worker -> Seq(Event)]
        /\ OutboxInv'
    <3>1. CASE w # "scheduler"
      <4>1. Advance(w) /\ outbox' = [outbox EXCEPT ![w] = Append(@, Failed(at[w]))]
          BY <1>6, <3>1 DEF ScanErr
      <4>2. at[w] \in Source
          BY <1>0, <2>1 DEF OutboxInv, Source
      <4>3. Failed(at[w]) \in Event
          BY <4>2, EventsAreTyped
      <4> QED
          BY <2>1, <4>1, <4>3, AdvanceStep
    <3>2. CASE w = "scheduler"
      <4>1. /\ pc' = [pc EXCEPT ![w] = "idle"] /\ outbox' = [outbox EXCEPT ![w] = <<>>]
            /\ UNCHANGED at
          BY <1>6, <3>2 DEF ScanErr
      <4>2. <<>> \in Seq(Event)
          OBVIOUS
      <4>3. outbox' \in [Worker -> Seq(Event)]
          BY <1>0, <4>1, <4>2
      <4>4. pc' \in [Worker -> {"idle", "next", "wait", "scan", "send"}]
          BY <1>0, <4>1
      <4>5. OutboxInv'
          BY <1>0, <4>1 DEF OutboxInv
      <4> QED
          BY <1>0, <4>1, <4>3, <4>4, <4>5
    <3> QED
        BY <3>1, <3>2
  <2> QED
      BY <1>0, <1>20, <2>1, <2>2, <2>3, <2>4, <2>5 DEF TypeOK
<1>7. ASSUME NEW w \in Worker, Send(w) PROVE TypeOK' /\ OutboxInv'
  <2>1. /\ pc[w] = "send" /\ events' = Append(events, Head(outbox[w]))
        /\ outbox' = [outbox EXCEPT ![w] = Tail(@)]
        /\ pc' = [pc EXCEPT ![w] = IF Len(outbox[w]) > 1 THEN "send"
                                     ELSE IF w = "scheduler" THEN "idle" ELSE "next"]
        /\ UNCHANGED <<dirty, uses, stale, unheard, at, status, completed, faults, muddled>>
      BY <1>7 DEF Send, toolVars, screenVars, uiVars
  <2>2. outbox[w] \in Seq(Event) /\ outbox[w] # <<>>
      BY <1>0, <2>1 DEF OutboxInv
  <2>3. /\ Head(outbox[w]) \in Event /\ Tail(outbox[w]) \in Seq(Event)
        /\ IF Len(outbox[w]) > 1 THEN Tail(outbox[w]) # <<>> ELSE Tail(outbox[w]) = <<>>
    <3>1. PICK out \in Seq(Event) : out = outbox[w] /\ out # <<>>
        BY <2>2
    <3>2. Len(out) \in Nat \ {0} /\ Head(out) \in Event /\ Tail(out) \in Seq(Event)
        BY <3>1
    <3>3. Len(Tail(out)) = Len(out) - 1
        BY <3>1
    <3>4. Len(out) > 1 => Tail(out) # <<>>
      <4>1. Tail(out) = <<>> => Len(out) - 1 = 0
          BY <3>3
      <4>2. PICK n \in Nat : n = Len(out)
          BY <3>1
      <4>3. n > 1 => n - 1 # 0
          OBVIOUS
      <4> QED
          BY <4>1, <4>2, <4>3
    <3>5. ~ (Len(out) > 1) => Tail(out) = <<>>
        BY <3>2, <3>3
    <3> QED
        BY <3>1, <3>2, <3>4, <3>5
  <2>4. events' \in Seq(Event)
      BY <1>0, <2>1, <2>3
  <2>5. outbox' \in [Worker -> Seq(Event)]
      BY <1>0, <2>1, <2>3
  <2>6. pc' \in [Worker -> {"idle", "next", "wait", "scan", "send"}]
      BY <1>0, <2>1
  <2>7. OutboxInv'
      BY <1>0, <2>1, <2>3 DEF OutboxInv
  <2> QED
      BY <1>0, <1>20, <2>1, <2>4, <2>5, <2>6, <2>7 DEF TypeOK
<1>8. ASSUME NEW w \in Worker, NextSource(w) PROVE TypeOK' /\ OutboxInv'
  <2>1. /\ pc[w] = "next"
        /\ \/ at[w] <= Total /\ events' = Append(events, Started(at[w])) /\ pc' = [pc EXCEPT ![w] = "wait"]
           \/ at[w] > Total /\ pc' = [pc EXCEPT ![w] = "idle"] /\ UNCHANGED events
        /\ UNCHANGED <<dirty, uses, stale, unheard, at, outbox, status, completed, faults, muddled>>
      BY <1>8 DEF NextSource, toolVars, screenVars, uiVars
  <2>2. events' \in Seq(Event)
    <3>1. at[w] <= Total => at[w] \in Source
        BY <1>0 DEF Source
    <3>2. at[w] <= Total => Started(at[w]) \in Event
        BY <3>1, EventsAreTyped
    <3>3. \A e \in Event : Append(events, e) \in Seq(Event)
        BY <1>0
    <3> QED
        BY <1>0, <2>1, <3>2, <3>3
  <2>3. pc' \in [Worker -> {"idle", "next", "wait", "scan", "send"}]
      BY <1>0, <2>1
  <2>4. OutboxInv'
      BY <1>0, <2>1 DEF OutboxInv
  <2> QED
      BY <1>0, <1>20, <2>1, <2>2, <2>3, <2>4 DEF TypeOK
<1>9. CASE Handle
  <2>1. /\ events # <<>> /\ events' = Tail(events)
        /\ UNCHANGED <<dirty, uses, pc, at, outbox, faults, muddled>>
      BY <1>9 DEF Handle, OnStarted, OnCompleted, OnFailed, Receive, toolVars, workerVars
  <2>2. events' \in Seq(Event)
      BY <1>0, <2>1
  <2>3. stale' \subseteq Source /\ unheard' \subseteq stale'
      BY <1>0, <1>9 DEF Handle, OnStarted, OnCompleted, OnFailed, Refresh, screenVars
  <2>4. status' \in {"idle", "scanning", "done", "failed"} /\ completed' \in 0 .. Total - 1
    <3>1. CASE OnStarted
        BY <1>0, <3>1 DEF OnStarted
    <3>2. CASE OnCompleted
        BY <1>0, <3>2 DEF OnCompleted
    <3>3. CASE OnFailed
        BY <1>0, <3>3 DEF OnFailed
    <3> QED
        BY <1>9, <3>1, <3>2, <3>3 DEF Handle
  <2>5. OutboxInv'
      BY <2>1 DEF OutboxInv
  <2> QED
      BY <1>0, <1>20, <2>1, <2>2, <2>3, <2>4, <2>5 DEF TypeOK
<1>12. CASE SaveSetting \/ SettingSaved
    BY <1>0, <1>12, SavingMovesNothing DEF TypeOK, OutboxInv
<1>10. CASE UNCHANGED vars
    BY <1>10 DEF vars, TypeOK, OutboxInv
<1> QED
    BY <1>1, <1>2, <1>3, <1>4, <1>5, <1>6, <1>7, <1>8, <1>9, <1>10, <1>12 DEF Next, Step

\* The types at the start.
LEMMA TypeStart == Init => TypeOK /\ OutboxInv
<1> SUFFICES ASSUME Init PROVE TypeOK /\ OutboxInv
    OBVIOUS
<1> USE ConstantsAreTyped DEF ConstantsAreTyped, Init
<1>1. dirty \subseteq Source /\ stale \subseteq Source /\ unheard \subseteq stale
    OBVIOUS
<1>2. /\ pc \in [Worker -> {"idle", "next", "wait", "scan", "send"}]
      /\ at \in [Worker -> 1 .. Total + 1]
    OBVIOUS
<1>3. outbox \in [Worker -> Seq(Event)] /\ events \in Seq(Event)
    OBVIOUS
<1>4. status \in {"idle", "scanning", "done", "failed"} /\ completed \in 0 .. Total - 1
    OBVIOUS
<1>5. uses \in 0 .. MaxUses /\ faults \in 0 .. MaxFaults
    OBVIOUS
<1>6. muddled \in BOOLEAN /\ saving \in BOOLEAN
  <2>1. muddled = FALSE /\ saving = FALSE
      OBVIOUS
  <2> QED
      BY <2>1
<1>7. OutboxInv
    BY DEF OutboxInv
<1> QED
    BY <1>1, <1>2, <1>3, <1>4, <1>5, <1>6, <1>7 DEF TypeOK

\* The workers, the channel and the screen keep their types, whatever threads there
\* are beside the scheduler: a worker in the middle of its sends always has one to
\* make, so that none of scan_async and run_scan sends an event it has not got.
THEOREM TypeCorrect == Spec => []TypeOK
    BY TypeStart, TypeStep, PTL DEF Spec

-----------------------------------------------------------------------------
\* What is in a queue after something was put in or taken out.
LEMMA AppendedIsThere ==
  ASSUME NEW S, NEW q \in Seq(S), NEW e \in S
  PROVE  Range(Append(q, e)) = Range(q) \cup {e}
<1>1. PICK n \in Nat : n = Len(q) /\ DOMAIN q = 1 .. n
    OBVIOUS
<1>2. PICK r : r = Append(q, e)
    OBVIOUS
<1>3. DOMAIN r = 1 .. n + 1 /\ r[n + 1] = e /\ \A i \in 1 .. n : r[i] = q[i]
    BY <1>1, <1>2
<1>4. \A i \in 1 .. n + 1 : i = n + 1 \/ i \in 1 .. n
    OBVIOUS
<1>5. n + 1 \in 1 .. n + 1 /\ \A i \in 1 .. n : i \in 1 .. n + 1
    OBVIOUS
<1>6. Range(r) \subseteq Range(q) \cup {e}
    BY <1>1, <1>3, <1>4 DEF Range
<1>7. Range(q) \cup {e} \subseteq Range(r)
    BY <1>1, <1>3, <1>5 DEF Range
<1> QED
    BY <1>2, <1>6, <1>7

\* What is in a channel is its oldest event and what remains when that is taken.
LEMMA TakenIsTheHead ==
  ASSUME NEW S, NEW q \in Seq(S), q # <<>>
  PROVE  Range(q) = {Head(q)} \cup Range(Tail(q))
<1>1. PICK n \in Nat \ {0} : n = Len(q) /\ DOMAIN q = 1 .. n
    OBVIOUS
<1>2. PICK r : r = Tail(q)
    OBVIOUS
<1>3. DOMAIN r = 1 .. n - 1 /\ Head(q) = q[1] /\ \A i \in 1 .. n - 1 : r[i] = q[i + 1]
    BY <1>1, <1>2
<1>4. 1 \in 1 .. n /\ \A i \in 1 .. n - 1 : i + 1 \in 1 .. n
    BY <1>1
<1>5. \A i \in 1 .. n : i = 1 \/ (i - 1 \in 1 .. n - 1 /\ q[i] = r[i - 1])
    BY <1>1, <1>3
<1>6. Range(q) \subseteq {q[1]} \cup Range(r)
    BY <1>1, <1>3, <1>5 DEF Range
<1>7. {q[1]} \cup Range(r) \subseteq Range(q)
    BY <1>1, <1>3, <1>4 DEF Range
<1> QED
    BY <1>2, <1>3, <1>6, <1>7

\* News of a source's stored usage is on its way to the window.
OnItsWay(p) ==
  \/ Completed(p, FALSE) \in Range(events)
  \/ \E w \in Worker : Completed(p, FALSE) \in Range(outbox[w])

\* What is stored and not on screen will be stored again, is on its way, or is never
\* heard of.
HeardInv == \A p \in stale : p \in dirty \cup unheard \/ OnItsWay(p)

\* Every step keeps the news of a stale source on its way, or lost.
LEMMA HeardStep == TypeOK /\ OutboxInv /\ HeardInv /\ [Next]_vars => HeardInv'
<1> SUFFICES ASSUME TypeOK, OutboxInv, HeardInv, [Next]_vars, NEW p \in stale'
             PROVE  p \in dirty' \cup unheard' \/ OnItsWay(p)'
    BY DEF HeardInv
<1>0. /\ dirty \subseteq Source /\ stale \subseteq Source /\ unheard \subseteq stale
      /\ outbox \in [Worker -> Seq(Event)] /\ events \in Seq(Event)
    BY DEF TypeOK
<1>1. ASSUME UNCHANGED <<outbox, events>>, p \in stale => dirty \cup unheard \subseteq dirty' \cup unheard',
             p \in stale \cup dirty' \cup unheard'
      PROVE  p \in dirty' \cup unheard' \/ OnItsWay(p)'
    BY <1>1 DEF HeardInv, OnItsWay
<1>2. ASSUME NEW q \in Source, Use(q) \/ OtherProcessScans(q)
      PROVE  p \in dirty' \cup unheard' \/ OnItsWay(p)'
  <2>1. UNCHANGED <<outbox, events>>
      BY <1>2 DEF Use, OtherProcessScans, workerVars
  <2>2. dirty \cup unheard \subseteq dirty' \cup unheard' /\ p \in stale \cup dirty' \cup unheard'
      BY <1>2 DEF Use, OtherProcessScans, screenVars
  <2> QED
      BY <1>1, <2>1, <2>2
<1>3. ASSUME NEW t \in Thread, TriggerScan(t) \/ RefreshFromTray(t)
      PROVE  p \in dirty' \cup unheard' \/ OnItsWay(p)'
    BY <1>1, <1>3 DEF TriggerScan, RefreshFromTray, screenVars, toolVars
<1>4. CASE Tick
    BY <1>1, <1>4 DEF Tick, screenVars, toolVars
<1>5. ASSUME NEW w \in Worker, Lock(w) PROVE p \in dirty' \cup unheard' \/ OnItsWay(p)'
    BY <1>1, <1>5 DEF Lock, screenVars, toolVars
<1>6. ASSUME NEW w \in Worker, ScanOk(w) PROVE p \in dirty' \cup unheard' \/ OnItsWay(p)'
  <2>1. PICK same \in BOOLEAN : same = (at[w] \notin dirty /\ at[w] \notin Absent)
      OBVIOUS
  <2>2. /\ pc[w] = "scan" /\ dirty' = dirty \ {at[w]} /\ stale' = stale \cup (dirty \cap {at[w]})
        /\ outbox' = [outbox EXCEPT ![w] = Append(@, Completed(at[w], same))]
        /\ events' = events /\ unheard' = unheard
      BY <1>6, <2>1 DEF ScanOk
  <2>3. at[w] \in Source
      BY <2>2 DEF TypeOK, OutboxInv, Source
  <2>4. outbox'[w] = Append(outbox[w], Completed(at[w], same))
      BY <1>0, <2>2
  <2>5. Range(outbox'[w]) = Range(outbox[w]) \cup {Completed(at[w], same)}
      BY <1>0, <2>3, <2>4, EventsAreTyped, AppendedIsThere
  <2>6. \A v \in Worker : v # w => outbox'[v] = outbox[v]
      BY <1>0, <2>2
  <2>7. OnItsWay(p) => OnItsWay(p)'
      BY <2>2, <2>5, <2>6 DEF OnItsWay
  <2>8. CASE p \in dirty /\ p = at[w]
    <3>1. same = FALSE
        BY <2>1, <2>8
    <3>2. Completed(p, FALSE) \in Range(outbox'[w])
        BY <2>5, <2>8, <3>1
    <3> QED
        BY <3>2 DEF OnItsWay
  <2>9. CASE ~ (p \in dirty /\ p = at[w])
    <3>1. p \in stale
        BY <2>2, <2>9
    <3> QED
        BY <2>2, <2>7, <2>9, <3>1 DEF HeardInv
  <2> QED
      BY <2>8, <2>9
<1>7. ASSUME NEW w \in Worker, ScanErr(w) PROVE p \in dirty' \cup unheard' \/ OnItsWay(p)'
  <2>1. /\ pc[w] = "scan" /\ dirty' = dirty /\ events' = events
        /\ stale' \subseteq stale \cup dirty
      BY <1>7 DEF ScanErr, toolVars
  <2>2. at[w] \in Source
      BY <2>1 DEF TypeOK, OutboxInv, Source
  <2>3. CASE p \in dirty
      BY <2>1, <2>3
  <2>4. CASE p \notin dirty /\ w # "scheduler"
    <3>1. unheard' = unheard /\ outbox' = [outbox EXCEPT ![w] = Append(@, Failed(at[w]))]
        BY <1>7, <2>4 DEF ScanErr
    <3>2. outbox'[w] = Append(outbox[w], Failed(at[w])) /\ \A v \in Worker : v # w => outbox'[v] = outbox[v]
        BY <1>0, <3>1
    <3>3. Range(outbox'[w]) = Range(outbox[w]) \cup {Failed(at[w])}
        BY <1>0, <2>2, <3>2, EventsAreTyped, AppendedIsThere
    <3>4. OnItsWay(p) => OnItsWay(p)'
        BY <2>1, <3>2, <3>3 DEF OnItsWay
    <3> QED
        BY <2>1, <2>4, <3>1, <3>4 DEF HeardInv
  <2>5. CASE p \notin dirty /\ w = "scheduler"
    <3>1. /\ outbox' = [outbox EXCEPT ![w] = <<>>]
          /\ unheard' = unheard \cup
               (stale \cap {q \in Source : Completed(q, FALSE) \in Range(outbox[w])})
        BY <1>7, <2>5 DEF ScanErr
    <3>2. \A v \in Worker : v # w => outbox'[v] = outbox[v]
        BY <1>0, <3>1
    <3>3. p \in stale /\ p \in Source
        BY <1>0, <2>1, <2>5
    <3>4. CASE Completed(p, FALSE) \in Range(outbox[w])
        BY <3>1, <3>3, <3>4
    <3>5. CASE Completed(p, FALSE) \notin Range(outbox[w])
        BY <2>1, <2>5, <3>1, <3>2, <3>3, <3>5 DEF HeardInv, OnItsWay
    <3> QED
        BY <3>4, <3>5
  <2> QED
      BY <2>3, <2>4, <2>5
<1>8. ASSUME NEW w \in Worker, Send(w) PROVE p \in dirty' \cup unheard' \/ OnItsWay(p)'
  <2>1. /\ pc[w] = "send" /\ events' = Append(events, Head(outbox[w]))
        /\ outbox' = [outbox EXCEPT ![w] = Tail(@)]
        /\ UNCHANGED <<dirty, stale, unheard>>
      BY <1>8 DEF Send, toolVars, screenVars
  <2>2. outbox[w] \in Seq(Event) /\ outbox[w] # <<>>
      BY <1>0, <2>1 DEF OutboxInv
  <2>3. outbox'[w] = Tail(outbox[w]) /\ \A v \in Worker : v # w => outbox'[v] = outbox[v]
      BY <1>0, <2>1
  <2>4. Range(outbox[w]) = {Head(outbox[w])} \cup Range(outbox'[w])
      BY <2>2, <2>3, TakenIsTheHead
  <2>5. Head(outbox[w]) \in Event
      BY <2>2
  <2>6. Range(events') = Range(events) \cup {Head(outbox[w])}
      BY <1>0, <2>1, <2>5, AppendedIsThere
  <2>7. OnItsWay(p) => OnItsWay(p)'
      BY <2>3, <2>4, <2>6 DEF OnItsWay
  <2> QED
      BY <2>1, <2>7 DEF HeardInv
<1>9. ASSUME NEW w \in Worker, NextSource(w) PROVE p \in dirty' \cup unheard' \/ OnItsWay(p)'
  <2>1. UNCHANGED <<dirty, stale, unheard, outbox>>
      BY <1>9 DEF NextSource, toolVars, screenVars
  <2>2. CASE events' = events
      BY <1>1, <2>1, <2>2
  <2>3. CASE at[w] <= Total /\ events' = Append(events, Started(at[w]))
    <3>1. at[w] \in Source
        BY <2>3 DEF TypeOK, Source
    <3>2. Range(events') = Range(events) \cup {Started(at[w])}
        BY <1>0, <2>3, <3>1, EventsAreTyped, AppendedIsThere
    <3> QED
        BY <2>1, <3>2 DEF HeardInv, OnItsWay
  <2> QED
      BY <1>9, <2>2, <2>3 DEF NextSource
<1>10. CASE Handle
  <2>1. events # <<>> /\ events' = Tail(events) /\ UNCHANGED <<dirty, outbox>>
      BY <1>10 DEF Handle, OnStarted, OnCompleted, OnFailed, Receive, toolVars, workerVars
  <2>2. Range(events) = {Head(events)} \cup Range(events')
      BY <1>0, <2>1, TakenIsTheHead
  <2>3. CASE Head(events).kind = "completed" /\ ~ Head(events).unchanged
    <3>1. stale' = {}
        BY <1>10, <2>3 DEF Handle, OnStarted, OnCompleted, OnFailed, Receive, Refresh
    <3> QED
        BY <3>1
  <2>4. CASE ~ (Head(events).kind = "completed" /\ ~ Head(events).unchanged)
    <3>1. UNCHANGED <<stale, unheard>>
        BY <1>10, <2>4 DEF Handle, OnStarted, OnCompleted, OnFailed, Receive, Refresh, screenVars
    <3>2. Head(events) # Completed(p, FALSE)
        BY <2>4 DEF Completed
    <3> QED
        BY <2>1, <2>2, <3>1, <3>2 DEF HeardInv, OnItsWay
  <2> QED
      BY <2>3, <2>4
<1>11. CASE UNCHANGED vars
    BY <1>1, <1>11 DEF vars
<1>12. CASE SaveSetting \/ SettingSaved
    BY <1>1, <1>12, SavingMovesNothing
<1> QED
    BY <1>2, <1>3, <1>4, <1>5, <1>6, <1>7, <1>8, <1>9, <1>10, <1>11, <1>12 DEF Next, Step

\* Whatever scans by hand, from the tray and by the timer overlap, and whatever the
\* other frontend stores in between, a quiet window lacks only usage that is still
\* to be stored or that this process never hears of.
THEOREM QuietScreenCorrect == Spec => []QuietScreenIsCurrent
<1>1. Init => TypeOK /\ OutboxInv /\ HeardInv
  <2>1. Init => TypeOK /\ OutboxInv
      BY TypeStart
  <2>2. Init => HeardInv
      BY DEF Init, HeardInv
  <2> QED
      BY <2>1, <2>2
<1>2. ASSUME OutboxInv, HeardInv PROVE QuietScreenIsCurrent
  <2> SUFFICES ASSUME Quiet, NEW p \in stale PROVE p \in dirty \cup unheard
      BY DEF QuietScreenIsCurrent
  <2>1. events = <<>> /\ \A w \in Worker : outbox[w] = <<>>
      BY <1>2 DEF Quiet, Busy, OutboxInv
  <2>2. Range(<<>>) = {}
      BY DEF Range
  <2>3. ~ OnItsWay(p)
      BY <2>1, <2>2 DEF OnItsWay
  <2> QED
      BY <1>2, <2>3 DEF HeardInv
<1> QED
    BY <1>1, <1>2, TypeStep, HeardStep, PTL DEF Spec

-----------------------------------------------------------------------------
\* The spinner.  While nothing disturbs a scan its worker is alone, and the window has
\* handled the first h of the events that worker sends.
Alone(w) == \A v \in Worker : v # w => pc[v] = "idle"

\* The events a thread has sent: one as it comes to a source, one as it leaves it.
Sent(t) ==
  IF pc[t] = "idle" THEN 2 * Total
  ELSE IF pc[t] = "next" THEN 2 * at[t] - 2
  ELSE IF pc[t] = "send" THEN 2 * at[t] - 3
  ELSE 2 * at[t] - 1

\* The count of a thread's scan: started and completed events alternate.
ThreadCount(t, h) ==
  /\ h + Len(events) = Sent(t)
  /\ \A i \in DOMAIN events : events[i].kind = IF (h + i) % 2 = 1 THEN "started" ELSE "completed"
  /\ IF pc[t] = "send" THEN Len(outbox[t]) = 1 /\ outbox[t][1].kind = "completed"
                       ELSE outbox[t] = <<>>
  /\ h = 0 /\ status = "scanning" => completed = 0
  /\ 0 < h /\ h < 2 * Total => status = "scanning" /\ 2 * completed \in {h, h - 1}
  /\ h = 2 * Total => status # "scanning"

\* The count of the scheduler's scan: its events come all at the end.
SchedulerCount(h) ==
  LET w == "scheduler" IN
  /\ h + Len(events) + Len(outbox[w]) = IF pc[w] \in {"wait", "scan"} THEN at[w] - 1 ELSE Total
  /\ pc[w] # "next"
  /\ \A i \in DOMAIN events : events[i].kind = "completed"
  /\ \A i \in DOMAIN outbox[w] : outbox[w][i].kind = "completed"
  /\ 0 < h /\ h < Total => status = "scanning" /\ completed = h
  /\ h = 0 \/ h = Total => status # "scanning"

CountInv == ~ muddled =>
  \/ Quiet /\ status # "scanning"
  \/ \E t \in Thread, h \in 0 .. 2 * Total : Alone(t) /\ ThreadCount(t, h)
  \/ \E h \in 0 .. Total : Alone("scheduler") /\ SchedulerCount(h)

\* Once everything is heard of an undisturbed scan, the count has ended its spinner.
LEMMA CountEnds ==
  ASSUME TypeOK, OutboxInv, CountInv
  PROVE  UndisturbedScanEnds
<1> SUFFICES ASSUME Quiet, ~ muddled PROVE status # "scanning"
    BY DEF UndisturbedScanEnds
<1>1. events = <<>> /\ Len(events) = 0 /\ \A w \in Worker : pc[w] = "idle" /\ outbox[w] = <<>>
    BY DEF Quiet, Busy, OutboxInv
<1>2. "scheduler" \in Worker /\ Thread \subseteq Worker
    BY DEF Worker
<1>3. ASSUME NEW t \in Thread, NEW h \in 0 .. 2 * Total, ThreadCount(t, h) PROVE status # "scanning"
  <2>1. h = 2 * Total
      BY <1>1, <1>2, <1>3 DEF ThreadCount, Sent
  <2> QED
      BY <1>3, <2>1 DEF ThreadCount
<1>4. ASSUME NEW h \in 0 .. Total, SchedulerCount(h) PROVE status # "scanning"
  <2>1. Len(outbox["scheduler"]) = 0 /\ pc["scheduler"] = "idle"
      BY <1>1, <1>2
  <2>2. h = Total
      BY <1>1, <1>4, <2>1 DEF SchedulerCount
  <2> QED
      BY <1>4, <2>2 DEF SchedulerCount
<1> QED
    BY <1>3, <1>4 DEF CountInv

\* A thread that starts when all is quiet starts the count.
LEMMA CountStarts ==
  ASSUME TypeOK, OutboxInv, CountInv, NEW t \in Thread, TriggerScan(t) \/ RefreshFromTray(t)
  PROVE  CountInv'
<1> USE ConstantsAreTyped DEF ConstantsAreTyped
<1> SUFFICES ASSUME ~ muddled' PROVE Alone(t)' /\ ThreadCount(t, 0)'
    BY DEF CountInv
<1>1. Quiet /\ t \in Worker /\ pc \in [Worker -> {"idle", "next", "wait", "scan", "send"}]
    BY DEF TriggerScan, RefreshFromTray, Worker, TypeOK
<1>2. at \in [Worker -> 1 .. Total + 1]
    BY DEF TypeOK
<1>3. events = <<>> /\ Len(events) = 0 /\ \A w \in Worker : pc[w] = "idle" /\ outbox[w] = <<>>
    BY <1>1 DEF Quiet, Busy, OutboxInv
<1>4. /\ pc' = [pc EXCEPT ![t] = "next"] /\ at' = [at EXCEPT ![t] = 1]
      /\ UNCHANGED <<outbox, events>>
    BY DEF TriggerScan, RefreshFromTray, Spawn
<1>5. pc'[t] = "next" /\ at'[t] = 1 /\ Alone(t)'
    BY <1>1, <1>2, <1>3, <1>4 DEF Alone
<1>6. Sent(t)' = 0
    BY <1>5 DEF Sent
<1>7. status' = "scanning" => completed' = 0
  <2>1. CASE TriggerScan(t)
      BY <2>1 DEF TriggerScan
  <2>2. CASE RefreshFromTray(t)
    <3>1. ~ muddled
        BY <2>2 DEF RefreshFromTray
    <3>2. status # "scanning"
        BY <1>1, <3>1, CountEnds DEF UndisturbedScanEnds
    <3> QED
        BY <2>2, <3>2 DEF RefreshFromTray, uiVars
  <2> QED
      BY <2>1, <2>2
<1>8. 0 # 2 * Total
    OBVIOUS
<1> QED
    BY <1>1, <1>3, <1>4, <1>5, <1>6, <1>7, <1>8 DEF ThreadCount

\* So does the scheduler's timer.
LEMMA CountTicks == ASSUME TypeOK, OutboxInv, CountInv, Tick PROVE CountInv'
<1> USE ConstantsAreTyped DEF ConstantsAreTyped
<1> SUFFICES ASSUME ~ muddled' PROVE Alone("scheduler")' /\ SchedulerCount(0)'
    BY DEF CountInv
<1>1. Quiet /\ ~ muddled /\ "scheduler" \in Worker
    BY DEF Tick, Worker
<1>2. at \in [Worker -> 1 .. Total + 1] /\ pc \in [Worker -> {"idle", "next", "wait", "scan", "send"}]
    BY DEF TypeOK
<1>3. events = <<>> /\ Len(events) = 0 /\ \A w \in Worker : pc[w] = "idle" /\ outbox[w] = <<>>
    BY <1>1 DEF Quiet, Busy, OutboxInv
<1>4. /\ pc' = [pc EXCEPT !["scheduler"] = "wait"] /\ at' = [at EXCEPT !["scheduler"] = 1]
      /\ UNCHANGED <<outbox, events, status>>
    BY DEF Tick, uiVars
<1>5. pc'["scheduler"] = "wait" /\ at'["scheduler"] = 1 /\ Alone("scheduler")'
    BY <1>1, <1>2, <1>3, <1>4 DEF Alone
<1>6. status' # "scanning"
    BY <1>1, <1>4, CountEnds DEF UndisturbedScanEnds
<1>7. outbox'["scheduler"] = <<>> /\ Len(outbox'["scheduler"]) = 0 /\ events' = <<>> /\ Len(events') = 0
    BY <1>1, <1>3, <1>4
<1>8. (\A i \in DOMAIN events : events[i].kind = "completed")'
    BY <1>7
<1>9. (\A i \in DOMAIN outbox["scheduler"] : outbox["scheduler"][i].kind = "completed")'
    BY <1>7
<1> QED
    BY <1>5, <1>6, <1>7, <1>8, <1>9 DEF SchedulerCount

\* The steps of a thread that is alone.  One that fails disturbs its own scan.
LEMMA ThreadCounts ==
  ASSUME TypeOK, OutboxInv, NEW t \in Thread, NEW h \in 0 .. 2 * Total, Alone(t), ThreadCount(t, h),
         NEW w \in Worker, Step(w), ~ muddled'
  PROVE  Alone(t)' /\ ThreadCount(t, h)'
<1> USE ConstantsAreTyped DEF ConstantsAreTyped
<1>0. /\ pc \in [Worker -> {"idle", "next", "wait", "scan", "send"}] /\ at \in [Worker -> 1 .. Total + 1]
      /\ outbox \in [Worker -> Seq(Event)] /\ events \in Seq(Event)
      /\ t \in Worker /\ t # "scheduler"
    BY DEF TypeOK, Worker
<1>1. pc[w] # "idle"
    BY DEF Step, Lock, ScanOk, ScanErr, Send, NextSource
<1>2. w = t
    BY <1>1 DEF Alone
<1>3. PICK n \in Nat : n = Len(events) /\ DOMAIN events = 1 .. n
    BY <1>0
<1>4. PICK a \in 1 .. Total + 1 : a = at[t]
    BY <1>0
<1>5. /\ \A i \in 1 .. n : events[i].kind = IF (h + i) % 2 = 1 THEN "started" ELSE "completed"
      /\ h + n = Sent(t)
    BY <1>3 DEF ThreadCount
<1>6. (Lock(t) \/ ScanOk(t) \/ Send(t) \/ NextSource(t)) /\ UNCHANGED <<status, completed>>
    BY <1>2 DEF Step, Lock, ScanOk, ScanErr, Send, NextSource, uiVars
<1>7. \A e : pc' = [pc EXCEPT ![t] = e] => Alone(t)' /\ pc'[t] = e
    BY <1>0 DEF Alone
<1>8. ASSUME Alone(t)', h + Len(events') = Sent(t)',
             \A i \in DOMAIN events' :
               events'[i].kind = IF (h + i) % 2 = 1 THEN "started" ELSE "completed",
             IF pc'[t] = "send" THEN Len(outbox'[t]) = 1 /\ outbox'[t][1].kind = "completed"
                                ELSE outbox'[t] = <<>>
      PROVE  Alone(t)' /\ ThreadCount(t, h)'
    BY <1>6, <1>8 DEF ThreadCount
<1>9. CASE Lock(t)
  <2>1. pc[t] = "wait" /\ pc' = [pc EXCEPT ![t] = "scan"] /\ UNCHANGED <<at, outbox, events>>
      BY <1>9 DEF Lock
  <2>2. Sent(t)' = Sent(t)
      BY <1>0, <2>1 DEF Sent
  <2> QED
      BY <1>0, <1>7, <1>8, <2>1, <2>2 DEF ThreadCount
<1>10. CASE ScanOk(t)
  <2>1. /\ pc[t] = "scan" /\ at' = [at EXCEPT ![t] = @ + 1] /\ pc' = [pc EXCEPT ![t] = "send"]
        /\ events' = events
      BY <1>0, <1>10 DEF ScanOk, Advance
  <2>9. PICK same : outbox' = [outbox EXCEPT ![t] = Append(@, Completed(at[t], same))]
      BY <1>10 DEF ScanOk
  <2>2. PICK e : outbox' = [outbox EXCEPT ![t] = Append(@, e)] /\ e.kind = "completed"
    <3>1. Completed(at[t], same).kind = "completed"
        BY DEF Completed
    <3> QED
        BY <2>9, <3>1
  <2>3. outbox[t] = <<>>
      BY <2>1 DEF ThreadCount
  <2>4. outbox'[t] = <<e>>
      BY <1>0, <2>2, <2>3
  <2>5. pc'[t] = "send" /\ at'[t] = a + 1
      BY <1>0, <1>4, <2>1
  <2>6. Sent(t)' = 2 * (a + 1) - 3 /\ Sent(t) = 2 * a - 1
      BY <1>4, <2>1, <2>5 DEF Sent
  <2>7. Sent(t)' = Sent(t)
      BY <2>6
  <2>8. Len(outbox'[t]) = 1 /\ outbox'[t][1].kind = "completed"
    <3>1. Len(<<e>>) = 1 /\ <<e>>[1] = e
        OBVIOUS
    <3> QED
        BY <2>2, <2>4, <3>1
  <2> QED
      BY <1>3, <1>5, <1>7, <1>8, <2>1, <2>5, <2>7, <2>8
<1>11. CASE Send(t)
  <2>1. pc[t] = "send" /\ Len(outbox[t]) = 1 /\ outbox[t][1].kind = "completed"
      BY <1>11 DEF Send, ThreadCount
  <2>10. PICK q \in Seq(Event) : q = outbox[t]
      BY <1>0
  <2>11. Len(q) = 1 /\ q[1].kind = "completed"
      BY <2>1, <2>10
  <2>12. Head(q) = q[1] /\ q[1] \in Event
      BY <2>11
  <2>13. Tail(q) = <<>>
    <3>1. PICK r : r = Tail(q)
        OBVIOUS
    <3>2. r \in Seq(Event) /\ Len(r) = 0
        BY <2>11, <3>1
    <3>3. r = <<>>
        BY <3>2
    <3> QED
        BY <3>1, <3>3
  <2>2. PICK e \in Event : /\ e = Head(outbox[t]) /\ e.kind = "completed"
                          /\ Tail(outbox[t]) = <<>>
      BY <2>10, <2>11, <2>12, <2>13
  <2>3. /\ events' = Append(events, e) /\ outbox' = [outbox EXCEPT ![t] = Tail(@)]
        /\ pc' = [pc EXCEPT ![t] = "next"] /\ at' = at
      BY <1>0, <1>11, <2>1, <2>2 DEF Send
  <2>4. pc'[t] = "next" /\ at'[t] = a /\ outbox'[t] = <<>>
      BY <1>0, <1>4, <2>2, <2>3
  <2>5. Sent(t) = 2 * a - 3 /\ Sent(t)' = 2 * a - 2
      BY <1>4, <2>1, <2>4 DEF Sent
  <2>6. /\ Len(events') = n + 1 /\ DOMAIN events' = 1 .. n + 1 /\ events'[n + 1] = e
        /\ \A i \in 1 .. n : events'[i] = events[i]
      BY <1>0, <1>3, <2>2, <2>3
  <2>7. h + (n + 1) = 2 * a - 2
    <3>1. h + n = 2 * a - 3
        BY <1>5, <2>5
    <3>2. h \in Nat /\ n \in Nat /\ a \in Nat
        BY <1>3, <1>4
    <3> QED
        BY <3>1, <3>2
  <2>8. (h + (n + 1)) % 2 # 1
      BY <2>7
  <2>9. \A i \in 1 .. n + 1 :
          events'[i].kind = IF (h + i) % 2 = 1 THEN "started" ELSE "completed"
    <3>1. TAKE i \in 1 .. n + 1
    <3>2. CASE i = n + 1
        BY <2>2, <2>6, <2>8, <3>2
    <3>3. CASE i \in 1 .. n
        BY <1>5, <2>6, <3>3
    <3> QED
        BY <3>2, <3>3
  <2> QED
      BY <1>7, <1>8, <2>3, <2>4, <2>5, <2>6, <2>7, <2>9
<1>12. CASE NextSource(t)
  <2>1. pc[t] = "next" /\ UNCHANGED <<at, outbox>>
      BY <1>12 DEF NextSource
  <2>2. outbox'[t] = <<>> /\ Sent(t) = 2 * a - 2
      BY <1>4, <2>1 DEF ThreadCount, Sent
  <2>3. CASE a <= Total /\ events' = Append(events, Started(a)) /\ pc' = [pc EXCEPT ![t] = "wait"]
    <3>1. pc'[t] = "wait" /\ Sent(t)' = 2 * a - 1
        BY <1>0, <1>4, <2>1, <2>3 DEF Sent
    <3>2. Started(a) \in Event /\ Started(a).kind = "started"
      <4>1. a \in Source
          BY <2>3 DEF Source
      <4> QED
          BY <4>1, EventsAreTyped DEF Started
    <3>3. /\ Len(events') = n + 1 /\ DOMAIN events' = 1 .. n + 1 /\ events'[n + 1] = Started(a)
          /\ \A i \in 1 .. n : events'[i] = events[i]
        BY <1>0, <1>3, <2>3, <3>2
    <3>4. h + (n + 1) = 2 * a - 1
        BY <1>5, <2>2
    <3>5. (h + (n + 1)) % 2 = 1
        BY <3>4
    <3>6. \A i \in 1 .. n + 1 :
            events'[i].kind = IF (h + i) % 2 = 1 THEN "started" ELSE "completed"
      <4>1. TAKE i \in 1 .. n + 1
      <4>2. CASE i = n + 1
          BY <3>2, <3>3, <3>5, <4>2
      <4>3. CASE i \in 1 .. n
          BY <1>5, <3>3, <4>3
      <4> QED
          BY <4>2, <4>3
    <3> QED
        BY <1>7, <1>8, <2>2, <2>3, <3>1, <3>3, <3>4, <3>6
  <2>4. CASE a > Total /\ pc' = [pc EXCEPT ![t] = "idle"] /\ events' = events
    <3>1. a = Total + 1
        BY <2>4
    <3>2. pc'[t] = "idle" /\ Sent(t)' = 2 * Total
        BY <1>0, <2>4 DEF Sent
    <3>3. Sent(t)' = Sent(t)
        BY <2>2, <3>1, <3>2
    <3> QED
        BY <1>3, <1>5, <1>7, <1>8, <2>2, <2>4, <3>2, <3>3
  <2> QED
      BY <1>4, <1>12, <2>3, <2>4 DEF NextSource
<1> QED
    BY <1>6, <1>9, <1>10, <1>11, <1>12

\* The steps of the scheduler when it is alone: the events move from its outbox to the
\* channel, and none is lost between.
LEMMA SchedulerCounts ==
  ASSUME TypeOK, OutboxInv, NEW h \in 0 .. Total, Alone("scheduler"), SchedulerCount(h),
         NEW w \in Worker, Step(w), ~ muddled'
  PROVE  Alone("scheduler")' /\ SchedulerCount(h)'
<1> USE ConstantsAreTyped DEF ConstantsAreTyped
<1>0. /\ pc \in [Worker -> {"idle", "next", "wait", "scan", "send"}] /\ at \in [Worker -> 1 .. Total + 1]
      /\ outbox \in [Worker -> Seq(Event)] /\ events \in Seq(Event) /\ "scheduler" \in Worker
    BY DEF TypeOK, Worker
<1>1. pc[w] # "idle"
    BY DEF Step, Lock, ScanOk, ScanErr, Send, NextSource
<1>2. w = "scheduler"
    BY <1>1 DEF Alone
<1>3. PICK t : t = "scheduler"
    OBVIOUS
<1>4. PICK n \in Nat : n = Len(events) /\ DOMAIN events = 1 .. n
    BY <1>0
<1>5. PICK q \in Seq(Event) : q = outbox[t]
    BY <1>0, <1>3
<1>6. PICK k \in Nat : k = Len(q) /\ DOMAIN q = 1 .. k
    OBVIOUS
<1>7. PICK a \in 1 .. Total + 1 : a = at[t]
    BY <1>0, <1>3
<1>8. /\ h + n + k = IF pc[t] \in {"wait", "scan"} THEN a - 1 ELSE Total
      /\ pc[t] # "next"
      /\ \A i \in 1 .. n : events[i].kind = "completed"
      /\ \A i \in 1 .. k : q[i].kind = "completed"
    BY <1>3, <1>4, <1>5, <1>6, <1>7 DEF SchedulerCount
<1>9. (Lock(t) \/ ScanOk(t) \/ Send(t)) /\ UNCHANGED <<status, completed>>
    BY <1>2, <1>3 DEF Step, Lock, ScanOk, ScanErr, Send, NextSource, uiVars
<1>10. \A e : pc' = [pc EXCEPT ![t] = e] => Alone(t)' /\ pc'[t] = e
    BY <1>0, <1>3 DEF Alone
<1>11. ASSUME Alone(t)', pc'[t] # "next",
              h + Len(events') + Len(outbox'[t])
                = IF pc'[t] \in {"wait", "scan"} THEN at'[t] - 1 ELSE Total,
              \A i \in DOMAIN events' : events'[i].kind = "completed",
              \A i \in DOMAIN outbox'[t] : outbox'[t][i].kind = "completed"
       PROVE  Alone("scheduler")' /\ SchedulerCount(h)'
    BY <1>3, <1>9, <1>11 DEF SchedulerCount
<1>12. CASE Lock(t)
  <2>1. pc[t] = "wait" /\ pc' = [pc EXCEPT ![t] = "scan"] /\ UNCHANGED <<at, outbox, events>>
      BY <1>12 DEF Lock
  <2> QED
      BY <1>4, <1>5, <1>6, <1>7, <1>8, <1>10, <1>11, <2>1
<1>13. CASE ScanOk(t)
  <2>1. /\ pc[t] = "scan" /\ at' = [at EXCEPT ![t] = @ + 1] /\ events' = events
        /\ pc' = [pc EXCEPT ![t] = IF at[t] < Total THEN "scan" ELSE "send"]
      BY <1>3, <1>13 DEF ScanOk, Advance
  <2>2. PICK same \in BOOLEAN : outbox' = [outbox EXCEPT ![t] = Append(@, Completed(at[t], same))]
      BY <1>13 DEF ScanOk
  <2>3. a \in Source
      BY <1>0, <1>3, <1>7, <2>1 DEF OutboxInv, Source
  <2>4. PICK e \in Event : e = Completed(a, same) /\ e.kind = "completed"
      BY <2>3, EventsAreTyped DEF Completed
  <2>5. outbox'[t] = Append(q, e) /\ at'[t] = a + 1
      BY <1>0, <1>3, <1>5, <1>7, <2>1, <2>2, <2>4
  <2>6. PICK r \in Seq(Event) : r = Append(q, e)
    <3>1. Append(q, e) \in Seq(Event)
        BY <1>5, <2>4
    <3> QED
        BY <3>1
  <2>7. Len(r) = k + 1 /\ DOMAIN r = 1 .. k + 1 /\ r[k + 1] = e /\ \A i \in 1 .. k : r[i] = q[i]
      BY <1>6, <2>6
  <2>8. \A i \in 1 .. k + 1 : r[i].kind = "completed"
    <3>1. TAKE i \in 1 .. k + 1
    <3>2. CASE i = k + 1
        BY <2>4, <2>7, <3>2
    <3>3. CASE i \in 1 .. k
        BY <1>8, <2>7, <3>3
    <3> QED
        BY <3>2, <3>3
  <2>9. h + n + k = a - 1
      BY <1>8, <2>1
  <2>10. CASE a < Total
    <3>1. Alone(t)' /\ pc'[t] = "scan"
        BY <1>7, <1>10, <2>1, <2>10
    <3>2. h + n + (k + 1) = (a + 1) - 1
        BY <2>9
    <3> QED
        BY <1>4, <1>8, <1>11, <2>1, <2>5, <2>6, <2>7, <2>8, <3>1, <3>2
  <2>11. CASE a = Total
    <3>3. ~ at[t] < Total
        BY <1>7, <2>11
    <3>4. pc' = [pc EXCEPT ![t] = "send"]
        BY <2>1, <3>3
    <3>1. Alone(t)' /\ pc'[t] = "send"
        BY <1>10, <3>4
    <3>2. h + n + (k + 1) = Total
        BY <2>9, <2>11
    <3> QED
        BY <1>4, <1>8, <1>11, <2>1, <2>5, <2>6, <2>7, <2>8, <3>1, <3>2
  <2> QED
      BY <2>3, <2>10, <2>11 DEF Source
<1>14. CASE Send(t)
  <2>1. pc[t] = "send" /\ q # <<>>
      BY <1>0, <1>3, <1>5, <1>14 DEF Send, OutboxInv
  <2>2. k # 0
      BY <1>6, <2>1
  <2>3. PICK e \in Event : e = Head(q) /\ e = q[1] /\ e.kind = "completed"
      BY <1>6, <1>8, <2>2
  <2>4. PICK r \in Seq(Event) : r = Tail(q)
    <3>1. Tail(q) \in Seq(Event)
        BY <1>5, <2>1
    <3> QED
        BY <3>1
  <2>5. Len(r) = k - 1 /\ DOMAIN r = 1 .. k - 1 /\ \A i \in 1 .. k - 1 : r[i] = q[i + 1]
      BY <1>6, <2>1, <2>2, <2>4
  <2>6. events' = Append(events, e) /\ outbox'[t] = r
      BY <1>0, <1>3, <1>5, <1>14, <2>3, <2>4 DEF Send
  <2>7. Alone(t)' /\ pc'[t] \in {"send", "idle"}
    <3>1. pc' = [pc EXCEPT ![t] = IF Len(outbox[t]) > 1 THEN "send" ELSE "idle"]
        BY <1>3, <1>14 DEF Send
    <3> QED
        BY <1>10, <3>1
  <2>8. /\ Len(events') = n + 1 /\ DOMAIN events' = 1 .. n + 1 /\ events'[n + 1] = e
        /\ \A i \in 1 .. n : events'[i] = events[i]
      BY <1>0, <1>4, <2>6
  <2>9. \A i \in 1 .. n + 1 : events'[i].kind = "completed"
    <3>1. TAKE i \in 1 .. n + 1
    <3>2. CASE i = n + 1
        BY <2>3, <2>8, <3>2
    <3>3. CASE i \in 1 .. n
        BY <1>8, <2>8, <3>3
    <3> QED
        BY <3>2, <3>3
  <2>10. \A i \in 1 .. k - 1 : r[i].kind = "completed"
    <3>1. TAKE i \in 1 .. k - 1
    <3>2. i + 1 \in 1 .. k
        OBVIOUS
    <3> QED
        BY <1>8, <2>5, <3>2
  <2>11. h + n + k = Total
      BY <1>8, <2>1
  <2>12. h + (n + 1) + (k - 1) = Total
      BY <2>11
  <2> QED
      BY <1>11, <2>5, <2>6, <2>7, <2>8, <2>9, <2>10, <2>12
<1> QED
    BY <1>9, <1>12, <1>13, <1>14

\* What the window makes of the next event of a thread's scan.
LEMMA ThreadIsHandled ==
  ASSUME TypeOK, OutboxInv, NEW t \in Thread, NEW h \in 0 .. 2 * Total, ThreadCount(t, h), Handle
  PROVE  h + 1 \in 0 .. 2 * Total /\ ThreadCount(t, h + 1)'
<1> USE ConstantsAreTyped DEF ConstantsAreTyped
<1>0. /\ pc \in [Worker -> {"idle", "next", "wait", "scan", "send"}] /\ at \in [Worker -> 1 .. Total + 1]
      /\ t \in Worker /\ events \in Seq(Event) /\ completed \in 0 .. Total - 1
    BY DEF TypeOK, Worker
<1>1. PICK n \in Nat : n = Len(events) /\ DOMAIN events = 1 .. n
    BY <1>0
<1>2. /\ h + n = Sent(t)
      /\ \A i \in 1 .. n : events[i].kind = IF (h + i) % 2 = 1 THEN "started" ELSE "completed"
    BY <1>1 DEF ThreadCount
<1>3. events # <<>> /\ events' = Tail(events) /\ UNCHANGED <<pc, at, outbox>>
    BY DEF Handle, OnStarted, OnCompleted, OnFailed, Receive, workerVars
<1>4. n # 0
    BY <1>0, <1>1, <1>3
<1>5. Sent(t) \in 0 .. 2 * Total
  <2>1. PICK a \in 1 .. Total + 1 : a = at[t]
      BY <1>0
  <2>2. pc[t] \in {"wait", "scan"} => a <= Total
      BY <1>0, <2>1 DEF OutboxInv
  <2>3. /\ pc[t] = "idle" => Sent(t) = 2 * Total
        /\ pc[t] = "next" => Sent(t) = 2 * a - 2
        /\ pc[t] = "send" => Sent(t) = 2 * a - 3
        /\ pc[t] \in {"wait", "scan"} => Sent(t) = 2 * a - 1
      BY <2>1 DEF Sent
  <2>4. pc[t] = "send" => a # 1
    <3>1. ASSUME pc[t] = "send", a = 1 PROVE FALSE
      <4>1. h + n = 2 * a - 3
          BY <1>2, <2>3, <3>1
      <4> QED
          BY <3>1, <4>1
    <3> QED
        BY <3>1
  <2> QED
      BY <1>0, <2>2, <2>3, <2>4
<1>6. h + n <= 2 * Total
    BY <1>2, <1>5
<1>7. h + 1 \in 0 .. 2 * Total
    BY <1>4, <1>6
<1>8. Len(events') = n - 1 /\ DOMAIN events' = 1 .. n - 1 /\ \A i \in 1 .. n - 1 : events'[i] = events[i + 1]
    BY <1>0, <1>1, <1>3, <1>4
<1>9. h + 1 + Len(events') = Sent(t)'
  <2>1. Sent(t)' = Sent(t)
      BY <1>3 DEF Sent
  <2>2. Sent(t)' = h + n
      BY <1>2, <2>1
  <2>3. h + 1 + (n - 1) = h + n
      BY <1>4
  <2> QED
      BY <1>8, <2>2, <2>3
<1>10. \A i \in 1 .. n - 1 :
         events'[i].kind = IF (h + 1 + i) % 2 = 1 THEN "started" ELSE "completed"
  <2>1. TAKE i \in 1 .. n - 1
  <2>2. i + 1 \in 1 .. n /\ h + (i + 1) = h + 1 + i
      BY <1>4
  <2> QED
      BY <1>2, <1>8, <2>2
<1>11. IF pc'[t] = "send" THEN Len(outbox'[t]) = 1 /\ outbox'[t][1].kind = "completed"
                          ELSE outbox'[t] = <<>>
    BY <1>3 DEF ThreadCount
<1>12. events[1].kind = IF (h + 1) % 2 = 1 THEN "started" ELSE "completed"
    BY <1>2, <1>4
<1>13. /\ h = 0 /\ status = "scanning" => completed = 0
       /\ 0 < h /\ h < 2 * Total => status = "scanning" /\ 2 * completed \in {h, h - 1}
    BY DEF ThreadCount
<1>14. ASSUME h + 1 < 2 * Total => status' = "scanning" /\ 2 * completed' \in {h + 1, h},
              h + 1 = 2 * Total => status' # "scanning"
       PROVE  ThreadCount(t, h + 1)'
  <2>1. h + 1 # 0 /\ (h + 1) - 1 = h
      OBVIOUS
  <2> QED
      BY <1>8, <1>9, <1>10, <1>11, <1>14, <2>1 DEF ThreadCount
<1>15. PICK e : e = Head(events) /\ e.kind = events[1].kind
    BY <1>0, <1>1, <1>3, <1>4
<1>16. CASE OnStarted
  <2>1. e.kind = "started" /\ status' = "scanning" /\ completed' = IF status = "scanning" THEN completed ELSE 0
      BY <1>15, <1>16 DEF OnStarted, Receive
  <2>2. (h + 1) % 2 = 1
      BY <1>12, <1>15, <2>1
  <2>3. PICK m \in Nat : h = 2 * m
      BY <2>2
  <2>4. 2 * completed' = h
    <3>1. CASE h = 0
        BY <1>13, <2>1, <3>1
    <3>2. CASE h # 0
      <4>1. 0 < h /\ h < 2 * Total
          BY <1>7, <3>2
      <4>2. status = "scanning" /\ 2 * completed \in {h, h - 1}
          BY <1>13, <4>1
      <4>3. completed' = completed /\ 2 * completed = h
          BY <1>0, <2>1, <2>3, <4>2
      <4> QED
          BY <4>3
    <3> QED
        BY <3>1, <3>2
  <2>5. h + 1 # 2 * Total
      BY <2>3
  <2> QED
      BY <1>7, <1>14, <2>1, <2>4, <2>5
<1>17. CASE OnCompleted
  <2>1. e.kind = "completed"
      BY <1>15, <1>17 DEF OnCompleted, Receive
  <2>2. (h + 1) % 2 # 1
      BY <1>12, <1>15, <2>1
  <2>3. PICK m \in Nat : h = 2 * m + 1
    <3>1. h \in Nat
        OBVIOUS
    <3>2. PICK k : k = (h - 1) \div 2
        OBVIOUS
    <3>3. k \in Nat /\ h = 2 * k + 1
        BY <2>2, <3>1, <3>2
    <3> QED
        BY <3>3
  <2>4. 0 < h /\ h < 2 * Total
      BY <1>7, <2>3
  <2>5. status = "scanning" /\ 2 * completed \in {h, h - 1}
      BY <1>13, <2>4
  <2>6. completed = m
      BY <1>0, <2>3, <2>5
  <2>7. /\ status' = IF completed + 1 >= Total THEN "done" ELSE "scanning"
        /\ completed' = IF completed + 1 >= Total THEN 0 ELSE completed + 1
      BY <1>17, <2>5 DEF OnCompleted
  <2>8. h + 1 < 2 * Total => status' = "scanning" /\ 2 * completed' = h + 1
      BY <2>3, <2>6, <2>7
  <2>9. h + 1 = 2 * Total => status' # "scanning"
      BY <2>3, <2>6, <2>7
  <2> QED
      BY <1>7, <1>14, <2>8, <2>9
<1>18. CASE OnFailed
  <2>1. e.kind = "failed"
      BY <1>15, <1>18 DEF OnFailed, Receive
  <2> QED
      BY <1>12, <1>15, <2>1
<1> QED
    BY <1>7, <1>16, <1>17, <1>18 DEF Handle

\* And of the next event of the scheduler's.
LEMMA SchedulerIsHandled ==
  ASSUME TypeOK, NEW h \in 0 .. Total, SchedulerCount(h), Handle
  PROVE  h + 1 \in 0 .. Total /\ SchedulerCount(h + 1)'
<1> USE ConstantsAreTyped DEF ConstantsAreTyped
<1>0. /\ at \in [Worker -> 1 .. Total + 1] /\ outbox \in [Worker -> Seq(Event)]
      /\ events \in Seq(Event) /\ completed \in 0 .. Total - 1 /\ "scheduler" \in Worker
    BY DEF TypeOK, Worker
<1>1. PICK t : t = "scheduler"
    OBVIOUS
<1>2. PICK n \in Nat : n = Len(events) /\ DOMAIN events = 1 .. n
    BY <1>0
<1>3. PICK k \in Nat : k = Len(outbox[t])
    BY <1>0, <1>1
<1>4. PICK z \in 0 .. Total : z = IF pc[t] \in {"wait", "scan"} THEN at[t] - 1 ELSE Total
    BY <1>0, <1>1
<1>5. \A i \in 1 .. n : events[i].kind = "completed"
    BY <1>2 DEF SchedulerCount
<1>20. h + n + k = z
    BY <1>1, <1>2, <1>3, <1>4 DEF SchedulerCount
<1>6. events # <<>> /\ events' = Tail(events) /\ UNCHANGED <<pc, at, outbox>>
    BY DEF Handle, OnStarted, OnCompleted, OnFailed, Receive, workerVars
<1>7. n # 0
    BY <1>0, <1>2, <1>6
<1>8. h + 1 \in 0 .. Total
    BY <1>7, <1>20
<1>9. Len(events') = n - 1 /\ DOMAIN events' = 1 .. n - 1 /\ \A i \in 1 .. n - 1 : events'[i] = events[i + 1]
    BY <1>0, <1>2, <1>6, <1>7
<1>10. h + 1 + (n - 1) + k = z
    BY <1>7, <1>20
<1>11. \A i \in 1 .. n - 1 : events'[i].kind = "completed"
  <2>1. TAKE i \in 1 .. n - 1
  <2>2. i + 1 \in 1 .. n
      BY <1>7
  <2> QED
      BY <1>5, <1>9, <2>2
<1>12. Head(events).kind = "completed"
    BY <1>0, <1>2, <1>5, <1>6, <1>7
<1>13. OnCompleted
    BY <1>12 DEF Handle, OnStarted, OnFailed, Receive
<1>14. PICK c \in Nat : c = IF status = "scanning" THEN completed + 1 ELSE 1
    BY <1>0
<1>15. /\ status' = IF c >= Total THEN "done" ELSE "scanning"
       /\ completed' = IF c >= Total THEN 0 ELSE c
    BY <1>13, <1>14 DEF OnCompleted
<1>16. c = h + 1
  <2>1. h < Total
      BY <1>8
  <2>2. CASE h = 0
      BY <1>14, <2>2 DEF SchedulerCount
  <2>3. CASE h # 0
    <3>1. status = "scanning" /\ completed = h
        BY <2>1, <2>3 DEF SchedulerCount
    <3> QED
        BY <1>14, <3>1
  <2> QED
      BY <2>2, <2>3
<1>17. /\ h + 1 < Total => status' = "scanning" /\ completed' = h + 1
       /\ h + 1 = Total => status' # "scanning"
       /\ h + 1 # 0
    BY <1>8, <1>15, <1>16
<1>18. h + 1 + Len(events') + Len(outbox'[t]) = IF pc'[t] \in {"wait", "scan"} THEN at'[t] - 1 ELSE Total
  <2>1. Len(outbox'[t]) = k
      BY <1>3, <1>6
  <2>2. z = IF pc'[t] \in {"wait", "scan"} THEN at'[t] - 1 ELSE Total
      BY <1>4, <1>6
  <2> QED
      BY <1>9, <1>10, <2>1, <2>2
<1>19. (\A i \in DOMAIN outbox'[t] : outbox'[t][i].kind = "completed") /\ pc'[t] # "next"
    BY <1>1, <1>6 DEF SchedulerCount
<1> QED
    BY <1>1, <1>8, <1>9, <1>11, <1>17, <1>18, <1>19 DEF SchedulerCount

\* Every step keeps the count what was sent and handled.
LEMMA CountStep == TypeOK /\ OutboxInv /\ CountInv /\ [Next]_vars => CountInv'
<1> SUFFICES ASSUME TypeOK, OutboxInv, CountInv, [Next]_vars PROVE CountInv'
    OBVIOUS
<1> USE ConstantsAreTyped DEF ConstantsAreTyped
<1>1. ASSUME UNCHANGED <<pc, at, outbox, events, status, completed, muddled>> PROVE CountInv'
  <2> SUFFICES ASSUME ~ muddled' PROVE CountInv'
      BY DEF CountInv
  <2>1. CASE Quiet /\ status # "scanning"
      BY <1>1, <2>1 DEF CountInv, Quiet, Busy
  <2>2. ASSUME NEW t \in Thread, NEW h \in 0 .. 2 * Total, Alone(t), ThreadCount(t, h) PROVE CountInv'
    <3>1. Alone(t)'
        BY <1>1, <2>2 DEF Alone
    <3>2. Sent(t)' = Sent(t)
        BY <1>1 DEF Sent
    <3>3. ThreadCount(t, h)'
        BY <1>1, <2>2, <3>2 DEF ThreadCount
    <3> QED
        BY <3>1, <3>3 DEF CountInv
  <2>3. ASSUME NEW h \in 0 .. Total, Alone("scheduler"), SchedulerCount(h) PROVE CountInv'
    <3>1. Alone("scheduler")'
        BY <1>1, <2>3 DEF Alone
    <3>2. SchedulerCount(h)'
        BY <1>1, <2>3 DEF SchedulerCount
    <3> QED
        BY <3>1, <3>2 DEF CountInv
  <2> QED
      BY <1>1, <2>1, <2>2, <2>3 DEF CountInv
<1>2. ASSUME NEW p \in Source, Use(p) \/ OtherProcessScans(p) PROVE CountInv'
    BY <1>1, <1>2 DEF Use, OtherProcessScans, workerVars, uiVars
<1>3. ASSUME NEW w \in Worker, Step(w) PROVE CountInv'
  <2> SUFFICES ASSUME ~ muddled' PROVE CountInv'
      BY DEF CountInv
  <2>1. ~ muddled
      BY <1>3 DEF Step, Lock, ScanOk, ScanErr, Send, NextSource
  <2>2. ~ Quiet
      BY <1>3 DEF Step, Lock, ScanOk, ScanErr, Send, NextSource, Quiet, Busy
  <2>3. ASSUME NEW t \in Thread, NEW h \in 0 .. 2 * Total, Alone(t), ThreadCount(t, h) PROVE CountInv'
    <3>1. Alone(t)' /\ ThreadCount(t, h)'
        BY <1>3, <2>3, ThreadCounts
    <3> QED
        BY <3>1 DEF CountInv
  <2>4. ASSUME NEW h \in 0 .. Total, Alone("scheduler"), SchedulerCount(h) PROVE CountInv'
    <3>1. Alone("scheduler")' /\ SchedulerCount(h)'
        BY <1>3, <2>4, SchedulerCounts
    <3> QED
        BY <3>1 DEF CountInv
  <2> QED
      BY <2>1, <2>2, <2>3, <2>4 DEF CountInv
<1>4. CASE Handle
  <2> SUFFICES ASSUME ~ muddled' PROVE CountInv'
      BY DEF CountInv
  <2>1. ~ muddled /\ events # <<>> /\ pc' = pc
      BY <1>4 DEF Handle, OnStarted, OnCompleted, OnFailed, Receive, workerVars
  <2>2. ~ Quiet
      BY <2>1 DEF Quiet
  <2>3. ASSUME NEW t \in Thread, NEW h \in 0 .. 2 * Total, Alone(t), ThreadCount(t, h) PROVE CountInv'
    <3>1. h + 1 \in 0 .. 2 * Total /\ ThreadCount(t, h + 1)'
        BY <1>4, <2>3, ThreadIsHandled
    <3>2. Alone(t)'
        BY <2>1, <2>3 DEF Alone
    <3> QED
        BY <3>1, <3>2 DEF CountInv
  <2>4. ASSUME NEW h \in 0 .. Total, Alone("scheduler"), SchedulerCount(h) PROVE CountInv'
    <3>1. h + 1 \in 0 .. Total /\ SchedulerCount(h + 1)'
        BY <1>4, <2>4, SchedulerIsHandled
    <3>2. Alone("scheduler")'
        BY <2>1, <2>4 DEF Alone
    <3> QED
        BY <3>1, <3>2 DEF CountInv
  <2> QED
      BY <2>1, <2>2, <2>3, <2>4 DEF CountInv
<1>5. CASE UNCHANGED vars
    BY <1>1, <1>5 DEF vars
<1>6. CASE SaveSetting \/ SettingSaved
    BY <1>1, <1>6, SavingMovesNothing
<1> QED
    BY <1>2, <1>3, <1>4, <1>5, <1>6, CountStarts, CountTicks DEF Next

\* app.rs clears the spinner by counting completed events, whichever scan they belong to
\* (handle_collector_event).  For a scan that was triggered when all was quiet and that
\* nothing disturbs the count comes out: whoever scanned before, however many sources and
\* threads there are, once every worker is idle and every event handled the spinner is off.
THEOREM UndisturbedScanCorrect == Spec => []UndisturbedScanEnds
<1>1. Init => TypeOK /\ OutboxInv /\ CountInv
  <2>1. Init => TypeOK /\ OutboxInv
      BY TypeStart
  <2>2. Init => CountInv
      BY DEF Init, CountInv, Quiet, Busy
  <2> QED
      BY <2>1, <2>2
<1> QED
    BY <1>1, TypeStep, CountStep, CountEnds, PTL DEF Spec
=============================================================================
