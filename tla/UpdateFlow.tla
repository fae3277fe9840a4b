----------------------------- MODULE UpdateFlow -----------------------------
(***************************************************************************)
(* The update panel: app/update_check.rs and tui/app.rs over the states of *)
(* core/update.rs.  The user checks for a release, downloads it or skips   *)
(* it; checks and downloads run beside the UI thread and their results are *)
(* applied whenever they arrive, to whatever the state is by then.         *)
(*                                                                         *)
(* The window offers "download" and "skip" only while the state is         *)
(* Available and applies a result as its task ends.  The terminal takes    *)
(* every key at any time, and a thread's result waits in a channel.        *)
(*                                                                         *)
(* Data abstraction.  A version is a number; its asset is Chunks writes    *)
(* long and has a file of its own.  A file is the set of chunks it holds;  *)
(* its length is that of the last one, a hole before it being zeros.       *)
(***************************************************************************)
EXTENDS Naturals, FiniteSetsExt

CONSTANTS
    Frontends,   \* the frontends the user may be at
    MaxVersion,  \* bound: releases
    Chunks,      \* bound: writes of a download
    MaxTasks,    \* bound: checks and downloads started
    MaxFaults    \* bound: failed requests, cut connections, failed writes, restarts

ASSUME FrontendsAreKnown == Frontends \subseteq {"window", "portable window", "terminal"}

ASSUME ConstantsAreTyped ==
    /\ MaxVersion \in Nat \ {0} /\ Chunks \in Nat \ {0}
    /\ MaxTasks \in Nat \ {0} /\ MaxFaults \in Nat

Version == 1 .. MaxVersion
NoVersion == 0

\* UpdateState, with the version it carries and the file name of Downloaded.
State(kind, v, file) == [kind |-> kind, version |-> v, file |-> file]
Plain(kind) == State(kind, NoVersion, NoVersion)
Kind == {"idle", "checking", "available", "downloading", "installing", "downloaded",
         "uptodate", "error"}

\* What a check or a download comes back with.
Pending == [kind |-> "pending", version |-> NoVersion]
Failure == [kind |-> "failure", version |-> NoVersion]
Nothing == [kind |-> "nothing", version |-> NoVersion]
Done(v) == [kind |-> "done", version |-> v]
Result == {Pending, Failure, Nothing} \cup {Done(v) : v \in Version}

Check == [id : 1 .. MaxTasks, manual : BOOLEAN, result : Result]
Download == [id : 1 .. MaxTasks, version : Version, at : {"opening", "writing"},
             chunks : 0 .. Chunks, result : Result]

VARIABLES
    frontend,   \* which frontend this is: it never changes
    state,      \* UpdateState
    skipped,    \* skipped_update_version in memory
    stored,     \* and in the settings table
    dest,       \* the terminal's update_dest, as the version whose asset it is
    checks,     \* checks whose result has not been applied
    downloads,  \* downloads likewise
    file,       \* the downloaded files, by version
    current,    \* the running version
    latest,     \* the newest release
    made, faults,
    declined,   \* history: versions the user has skipped, and not those a
    unsaved     \* restart has forgotten, as they could not be saved

vars == <<frontend, state, skipped, stored, dest, checks, downloads, file, current, latest,
          made, faults, declined, unsaved>>
worldVars == <<frontend, current, latest>>
skipVars == <<skipped, stored, declined, unsaved>>

Terminal == frontend = "terminal"
Portable == frontend = "portable window"

TypeOK ==
    /\ frontend \in Frontends
    /\ state \in [kind : Kind, version : 0 .. MaxVersion, file : 0 .. MaxVersion]
    /\ state.kind = "available" => state.version \in Version
    /\ skipped \in 0 .. MaxVersion /\ stored \in 0 .. MaxVersion /\ dest \in 0 .. MaxVersion
    /\ checks \subseteq Check /\ downloads \subseteq Download
    /\ file \in [Version -> SUBSET (1 .. Chunks)]
    /\ current \in Version /\ latest \in Version
    /\ made \in 0 .. MaxTasks /\ faults \in 0 .. MaxFaults
    /\ declined \subseteq Version /\ unsaved \subseteq Version

\* UpdateState::is_busy.
IsBusy == state.kind \in {"checking", "downloading", "installing"}

Length(f) == Max({0} \cup f)
Whole(v) == file[v] = 1 .. Chunks

NewCheck(manual) == [id |-> made + 1, manual |-> manual, result |-> Pending]

Init ==
    /\ frontend \in Frontends
    /\ skipped = NoVersion /\ stored = NoVersion /\ dest = NoVersion
    /\ downloads = {} /\ file = [v \in Version |-> {}]
    /\ current = 1 /\ latest = 1 /\ faults = 0
    /\ declined = {} /\ unsaved = {}
    /\ \/ state = Plain("idle") /\ checks = {} /\ made = 0
       \/ /\ state = Plain("checking") /\ made = 1
          /\ checks = {[id |-> 1, manual |-> FALSE, result |-> Pending]}

Fault == faults < MaxFaults /\ faults' = faults + 1

Publish ==
    /\ latest < MaxVersion /\ latest' = latest + 1
    /\ UNCHANGED <<frontend, state, skipVars, dest, checks, downloads, file, current, made, faults>>

-----------------------------------------------------------------------------
(***************************************************************************)
(* What the user does.                                                     *)
(***************************************************************************)
\* Mutation: a check does not look whether one is under way.
CheckForUpdates_NotBusy ==
    /\ made < MaxTasks /\ made' = made + 1
    /\ state' = Plain("checking") /\ checks' = checks \cup {NewCheck(TRUE)}
    /\ UNCHANGED <<skipVars, dest, downloads, file, worldVars, faults>>

CheckForUpdates ==
    /\ ~ IsBusy
    /\ made < MaxTasks /\ made' = made + 1
    /\ state' = Plain("checking") /\ checks' = checks \cup {NewCheck(TRUE)}
    /\ UNCHANGED <<skipVars, dest, downloads, file, worldVars, faults>>

DownloadUpdate ==
    /\ state.kind = "available"
    /\ made < MaxTasks /\ made' = made + 1
    /\ state' = State("downloading", state.version, NoVersion)
    /\ dest' = IF Terminal THEN state.version ELSE dest
    /\ downloads' = downloads \cup {[id |-> made + 1, version |-> state.version,
                                     at |-> "opening", chunks |-> 0, result |-> Pending]}
    /\ UNCHANGED <<skipVars, checks, file, worldVars, faults>>

\* Mutation: the version is remembered until the program ends.
SkipUpdate_InMemory ==
    /\ \/ /\ state.kind = "available" /\ skipped' = state.version
          /\ declined' = declined \cup {state.version}
          /\ UNCHANGED <<stored, unsaved, faults>>
       \/ Terminal /\ state.kind # "available" /\ UNCHANGED <<skipVars, faults>>
    /\ state' = Plain("idle")
    /\ UNCHANGED <<dest, checks, downloads, file, worldVars, made>>

\* An available version is remembered as skipped; the state is Idle then, and
\* the terminal sets it in every state.  Failing to save the version passes
\* unseen in the window; it ends the terminal (Restart).
SkipUpdate ==
    /\ \/ /\ state.kind = "available" /\ skipped' = state.version
          /\ declined' = declined \cup {state.version}
          /\ \/ stored' = state.version /\ UNCHANGED <<unsaved, faults>>
             \/ ~ Terminal /\ Fault /\ unsaved' = unsaved \cup {state.version} /\ UNCHANGED stored
       \/ Terminal /\ state.kind # "available" /\ UNCHANGED <<skipVars, faults>>
    /\ state' = Plain("idle")
    /\ UNCHANGED <<dest, checks, downloads, file, worldVars, made>>

\* The program ends, by a crash or by the user, or when it has started the
\* installer, and is started again: perhaps as a version downloaded in full.
Restart ==
    /\ \/ state.kind = "installing" /\ UNCHANGED faults
       \/ state.kind # "installing" /\ Fault
    /\ current' \in {current} \cup {v \in Version : Whole(v)}
    /\ downloads' = {} /\ skipped' = stored /\ dest' = NoVersion
    /\ declined' = declined \ unsaved /\ unsaved' = {}
    /\ \/ state' = Plain("idle") /\ checks' = {} /\ UNCHANGED made
       \/ /\ made < MaxTasks /\ made' = made + 1
          /\ state' = Plain("checking") /\ checks' = {NewCheck(FALSE)}
    /\ UNCHANGED <<frontend, stored, file, latest>>

-----------------------------------------------------------------------------
(***************************************************************************)
(* The tasks.                                                              *)
(***************************************************************************)
\* check_update: a newer release, none, or an error.
Answer ==
    /\ \E c \in checks :
         /\ c.result = Pending
         /\ \/ /\ checks' = (checks \ {c}) \cup
                     {[c EXCEPT !.result = IF latest > current THEN Done(latest) ELSE Nothing]}
               /\ UNCHANGED faults
            \/ Fault /\ checks' = (checks \ {c}) \cup {[c EXCEPT !.result = Failure]}
    /\ UNCHANGED <<state, skipVars, dest, downloads, file, worldVars, made>>

\* File::create: an earlier file, or one being written, is cut to nothing.
CreateFile ==
    /\ \E d \in downloads :
         /\ d.at = "opening" /\ d.result = Pending
         /\ downloads' = (downloads \ {d}) \cup {[d EXCEPT !.at = "writing"]}
         /\ file' = [file EXCEPT ![d.version] = {}]
    /\ UNCHANGED <<state, skipVars, dest, checks, worldVars, made, faults>>

\* Mutation: the body is written past its end.
WriteChunk_PastEnd ==
    /\ \E d \in downloads :
         /\ d.at = "writing" /\ d.result = Pending
         /\ downloads' = (downloads \ {d}) \cup {[d EXCEPT !.chunks = @ + 1]}
         /\ file' = [file EXCEPT ![d.version] = @ \cup {d.chunks + 1}]
         /\ d.chunks <= Chunks
    /\ UNCHANGED <<state, skipVars, dest, checks, worldVars, made, faults>>

\* A write at this download's own position.
WriteChunk ==
    /\ \E d \in downloads :
         /\ d.at = "writing" /\ d.chunks < Chunks /\ d.result = Pending
         /\ downloads' = (downloads \ {d}) \cup {[d EXCEPT !.chunks = @ + 1]}
         /\ file' = [file EXCEPT ![d.version] = @ \cup {d.chunks + 1}]
    /\ UNCHANGED <<state, skipVars, dest, checks, worldVars, made, faults>>

\* Mutation: the size of what came is not compared with the asset's.
EndDownload_NoSizeCheck ==
    /\ \E d \in downloads :
         /\ d.at = "writing" /\ d.result = Pending
         /\ \/ d.chunks = Chunks /\ UNCHANGED faults
            \/ d.chunks < Chunks /\ Fault
         /\ downloads' = (downloads \ {d}) \cup {[d EXCEPT !.result = Done(d.version)]}
    /\ UNCHANGED <<state, skipVars, dest, checks, file, worldVars, made>>

\* The body ends, whole or cut short; the window compares what it has received
\* with the asset's size, the terminal the length of the file.
EndDownload ==
    /\ \E d \in downloads :
         /\ d.at = "writing" /\ d.result = Pending
         /\ \/ d.chunks = Chunks /\ UNCHANGED faults
            \/ d.chunks < Chunks /\ Fault
         /\ LET size == IF Terminal THEN Length(file[d.version]) ELSE d.chunks
            IN  downloads' = (downloads \ {d}) \cup
                  {[d EXCEPT !.result = IF size = Chunks THEN Done(d.version) ELSE Failure]}
    /\ UNCHANGED <<state, skipVars, dest, checks, file, worldVars, made>>

\* The request, creating the file or a write fails.
FailDownload ==
    /\ Fault
    /\ \E d \in downloads :
         /\ d.result = Pending
         /\ downloads' = (downloads \ {d}) \cup {[d EXCEPT !.result = Failure]}
    /\ UNCHANGED <<state, skipVars, dest, checks, file, worldVars, made>>

-----------------------------------------------------------------------------
(***************************************************************************)
(* Results.  A thread may send long after its last step, so results come   *)
(* in any order.                                                           *)
(***************************************************************************)
\* The state after a check: an automatic one is silent about versions the
\* user has skipped, and about errors.
StateAfter(c) ==
    CASE c.result.kind = "nothing" -> Plain("uptodate")
      [] c.result.kind = "failure" -> Plain(IF c.manual THEN "error" ELSE "idle")
      [] c.result.kind = "done" ->
           IF c.result.version = skipped THEN Plain(IF c.manual THEN "uptodate" ELSE "idle")
                                         ELSE State("available", c.result.version, NoVersion)

\* Mutation: the failure of an automatic check is ignored altogether.
HandleChecked_Silent ==
    /\ \E c \in checks :
         /\ c.result # Pending /\ checks' = checks \ {c}
         /\ state' = IF c.result.kind = "failure" /\ ~ c.manual THEN state ELSE StateAfter(c)
    /\ UNCHANGED <<skipVars, dest, downloads, file, worldVars, made, faults>>

HandleChecked ==
    /\ \E c \in checks :
         /\ c.result # Pending
         /\ checks' = checks \ {c} /\ state' = StateAfter(c)
    /\ UNCHANGED <<skipVars, dest, downloads, file, worldVars, made, faults>>

\* A failed download is reported.  A finished one is named after update_dest
\* in the terminal, left to the user in a portable window, and given to the
\* installer otherwise, after which the program quits.
HandleDownloaded ==
    /\ \E d \in downloads :
         /\ d.result # Pending /\ downloads' = downloads \ {d}
         /\ state' = IF d.result = Failure THEN Plain("error")
                     ELSE IF Terminal THEN State("downloaded", d.version, dest)
                     ELSE IF Portable THEN State("downloaded", d.version, d.version)
                     ELSE State("installing", d.version, d.version)
    /\ UNCHANGED <<skipVars, dest, checks, file, worldVars, made, faults>>

-----------------------------------------------------------------------------
Task == Answer \/ CreateFile \/ WriteChunk \/ EndDownload \/ FailDownload
Apply == HandleChecked \/ HandleDownloaded

Next == Publish \/ CheckForUpdates \/ DownloadUpdate \/ SkipUpdate \/ Restart \/ Task \/ Apply

Spec == Init /\ [][Next]_vars

TerminalTask == Terminal /\ Task

\* The terminal's requests end, by their timeout if need be (tui/update.rs:29);
\* the window's client has none.  The UI thread goes on.
FairSpec == Spec /\ WF_vars(TerminalTask) /\ WF_vars(Apply)

-----------------------------------------------------------------------------
\* is_busy is "true while a check or download is in flight" (core/update.rs:61),
\* which is what keeps a second one from being started.
BusyWhileInFlight == checks # {} \/ downloads # {} => IsBusy

\* In the window that is so, whatever fails and however results are delayed.
WindowIsBusy == ~ Terminal => BusyWhileInFlight

\* When the window says that a file was saved (core/update.rs:45), or starts the
\* installer on it, that file is the whole asset of that version.
WindowFileIsWhole ==
    ~ Terminal /\ state.kind \in {"downloaded", "installing"} =>
        state.file = state.version /\ Whole(state.file)

\* The window never offers a version again that the user has skipped, this one
\* or an earlier one, whatever check, release or restart its offer comes from;
\* but a skip that could not be saved, which passes unseen (app/update_check.rs
\* :265), is forgotten by a restart.  In the terminal two checks may be under
\* way, and the answer of the older offer a version skipped before the newer.
SkippedIsNotOffered ==
    ~ Terminal /\ state.kind = "available" => state.version \notin declined

\* A request of the window that GitHub does not answer, or stops answering.
Stalled == ~ Terminal /\ \E t \in checks \cup downloads : t.result = Pending

\* A check or a download does not stay under way for ever once its request has
\* ended, well or badly: the panel comes to a rest, or the installer is started
\* and the program quits.  A window whose request stalls stays busy with it.
BusyEnds == IsBusy ~> ~ IsBusy \/ state.kind = "installing" \/ Stalled

(***************************************************************************)
(* Why these hold: the window has one task at most, which is the one its   *)
(* state names, so the file of a download has one writer.                  *)
(***************************************************************************)
OneTask ==
    /\ \A c, d \in checks \cup downloads : c = d
    /\ state.kind = "checking" <=> checks # {}
    /\ state.kind = "downloading" <=> downloads # {}

OneWriter ==
    \A d \in downloads :
        /\ d.at = "opening" => d.chunks = 0
        /\ d.at = "writing" => file[d.version] = 1 .. d.chunks
        /\ d.result \in {Pending, Failure, Done(d.version)}
        /\ d.result = Done(d.version) => Whole(d.version)

\* What is offered, or an answer on its way, is newer than every version skipped
\* but the last, which is the one the check compares with.
DeclinedInv ==
    /\ state.kind = "available" => state.version <= latest
    /\ \A c \in checks : c.result.kind = "done" => c.result.version <= latest
    /\ \A v \in declined :
         /\ v <= latest /\ (v # skipped => v < latest)
         /\ v = skipped => v = stored \/ v \in unsaved
         /\ state.kind = "available" => v < state.version
         /\ \A c \in checks : c.result.kind = "done" =>
              v <= c.result.version /\ (v # skipped => v < c.result.version)

WindowInv == ~ Terminal => OneTask /\ OneWriter /\ WindowFileIsWhole /\ DeclinedInv

=============================================================================
