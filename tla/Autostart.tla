------------------------------ MODULE Autostart ------------------------------
(***************************************************************************)
(* The auto-start switch (app/app.rs set_autostart and                     *)
(* refresh_autostart_enabled) and the registry value behind it             *)
(* (platform/windows/autostart.rs).  Every toggle sends its own write to   *)
(* the background, where writes are not ordered, and the first reading of  *)
(* the registry is just another job there.                                 *)
(***************************************************************************)
EXTENDS Naturals, FiniteSets

CONSTANT MaxToggles  \* bound: toggles in one run of the program

ASSUME AutostartAssumption == MaxToggles \in Nat

VARIABLES
  switch,     \* autostart_enabled
  seq,        \* autostart_seq
  value,      \* the Run value is there
  jobs,       \* background jobs whose result has not been handled
  unsure      \* history: why the switch need not be the registry's
autostartVars == <<switch, seq, value, jobs, unsure>>

\* A job has the sequence number it was started at; toggles have one of their own,
\* the reading of a start has 0.  found is what it reads, failed its outcome.
Job(n, kind, blind) ==
  [n |-> n, kind |-> kind, blind |-> blind, stage |-> "query", found |-> FALSE, failed |-> FALSE]

Toggles == {j \in jobs : j.kind # "read"}

AutostartInit ==
  /\ switch = FALSE /\ seq = 0
  /\ value \in BOOLEAN
  /\ jobs = {Job(0, "read", FALSE)}
  /\ unsure = {}

\* The switch is clicked.
SetAutostart ==
  /\ seq < MaxToggles
  /\ switch' = ~switch
  /\ seq' = seq + 1
  /\ jobs' = jobs \cup {Job(seq + 1, IF switch THEN "remove" ELSE "add", Toggles # jobs)}
  /\ unsure' = IF Toggles # {} THEN unsure \cup {"crossed"} ELSE unsure
  /\ UNCHANGED value

Becomes(j, k) == jobs' = (jobs \ {j}) \cup {k}

\* reg query; one that does not run counts as an absent value.
QueryValue(j, runs) ==
  LET found == value /\ runs IN
  /\ j \in jobs /\ j.stage = "query" /\ j.kind # "add"
  /\ Becomes(j, [j EXCEPT !.found = found,
                          !.stage = IF j.kind = "remove" /\ found THEN "write" ELSE "done"])
  /\ unsure' = IF value /\ ~runs THEN unsure \cup {"misread"} ELSE unsure
  /\ UNCHANGED <<switch, seq, value>>

\* reg add, which overwrites.
AddValue(j, ok) ==
  /\ j \in jobs /\ j.stage = "query" /\ j.kind = "add"
  /\ Becomes(j, [j EXCEPT !.stage = "done", !.failed = ~ok])
  /\ value' = (value \/ ok)
  /\ UNCHANGED <<switch, seq, unsure>>

\* reg delete, which fails when the value has gone.
DeleteValue(j, ok) ==
  /\ j \in jobs /\ j.stage = "write"
  /\ Becomes(j, [j EXCEPT !.stage = "done", !.failed = ~(ok /\ value)])
  /\ value' = (value /\ ~ok)
  /\ UNCHANGED <<switch, seq, unsure>>

\* Mutation: a toggle that came after is not noticed.
HandleJob_Late(j) ==
  /\ j \in jobs /\ j.stage = "done"
  /\ jobs' = jobs \ {j}
  /\ switch' = IF j.kind = "read" THEN j.found
               ELSE IF j.failed THEN j.kind # "add"
               ELSE switch
  /\ unsure' = IF j.n = seq /\ j.failed /\ j.blind THEN unsure \cup {"blind"} ELSE unsure
  /\ UNCHANGED <<seq, value>>

\* The result reaches the application: it counts only if no toggle came after.  A
\* failed write puts the switch back to what it showed, which before the first
\* reading is not what the registry says.
HandleJob(j) ==
  /\ j \in jobs /\ j.stage = "done"
  /\ jobs' = jobs \ {j}
  /\ switch' = IF j.n # seq THEN switch
               ELSE IF j.kind = "read" THEN j.found
               ELSE IF j.failed THEN j.kind # "add"
               ELSE switch
  /\ unsure' = IF j.n = seq /\ j.failed /\ j.blind THEN unsure \cup {"blind"} ELSE unsure
  /\ UNCHANGED <<seq, value>>

AutostartNext ==
  \/ SetAutostart
  \/ \E j \in jobs, ok \in BOOLEAN : QueryValue(j, ok) \/ AddValue(j, ok) \/ DeleteValue(j, ok)
  \/ \E j \in jobs : HandleJob(j)

AutostartSpec == AutostartInit /\ [][AutostartNext]_autostartVars

-----------------------------------------------------------------------------
AutostartTypeOK ==
  /\ switch \in BOOLEAN /\ value \in BOOLEAN /\ seq \in 0 .. MaxToggles
  /\ jobs \subseteq [n : 0 .. seq, kind : {"read", "add", "remove"}, blind : BOOLEAN,
                     stage : {"query", "write", "done"}, found : BOOLEAN, failed : BOOLEAN]
  /\ unsure \subseteq {"crossed", "misread", "blind"}

\* Once every job has been handled the switch shows what the registry holds, unless
\* a toggle was made while another's write was running (the writes may end in
\* either order, and the late result of the first is ignored), the registry could
\* not be read, or a write failed that was made before the first reading.
SwitchIsTheRegistry == jobs = {} /\ unsure = {} => switch = value

\* No two jobs have the same number, so at most one of them may set the switch.
OneJobCounts == \A j, k \in jobs : j.n = k.n => j = k

AutostartInv == AutostartTypeOK /\ SwitchIsTheRegistry /\ OneJobCounts
=============================================================================
