-------------------------------- MODULE Baseline -------------------------------
(***************************************************************************)
(* The snapshots dsd health keeps in ~/.dsd/baselines: SaveBaseline and    *)
(* LoadBaseline("") of internal/baseline as printHealthResults calls them.  *)
(*                                                                         *)
(* Every run writes HOST-YYYYMMDD-HHMMSS.json, renames HOST-latest.json to *)
(* HOST-prev.json and writes a new HOST-latest.json.  Nothing locks the    *)
(* directory, so runs interleave at every file operation; a run may fail   *)
(* or die between two of them.  With --diff a run reads HOST-latest.json   *)
(* before it saves its own.  The directory may be shared by hosts, and the *)
(* stamp in the file name is local time, which may be set back.            *)
(***************************************************************************)
EXTENDS Naturals

CONSTANTS
  Procs,     \* dsd health processes
  Hosts,     \* host names
  HostOf,    \* the host each process runs on
  MaxRuns,   \* bound on the number of runs
  MaxWall,   \* bound on the local time
  MaxBacks   \* bound on how often the local time is set back

ASSUME HostOfAssumption == HostOf \in [Procs -> Hosts]
ASSUME BoundsAssumption ==
  /\ MaxRuns \in Nat
  /\ MaxWall \in Nat
  /\ MaxBacks \in Nat

VARIABLES
  pc,           \* where each process is in printHealthResults
  run,          \* the number of each process's run, in the order they began
  stamp,        \* the local time at which its snapshot was taken
  files,        \* the timestamped files
  latest,       \* the run in HOST-latest.json, 0 when there is none
  prev,         \* the run in HOST-prev.json, 0 when there is none
  wall,         \* the local time
  backs,        \* how often it has been set back
  runs,         \* number of runs begun
  compared,     \* what --diff read from HOST-latest.json, 0 for nothing
  lastDone,     \* history: the run whose SaveBaseline returned nil last
  seen,         \* history: lastDone when --diff read
  done,         \* history: the runs whose SaveBaseline returned nil
  interrupted   \* history: a save died between its renames, none ended since

baselineVars == <<pc, run, stamp, files, latest, prev, wall, backs, runs, compared,
                  lastDone, seen, done, interrupted>>
snapVars == <<run, stamp, runs>>
clockVars == <<wall, backs>>
diffVars == <<compared, seen>>
dirVars == <<files, latest, prev>>
doneVars == <<lastDone, done, interrupted>>

Steps == {"idle", "taken", "compared", "stamped", "rotating", "rotated"}
File(h, s, r) == [host |-> h, stamp |-> s, run |-> r]

TypeOK ==
  /\ pc \in [Procs -> Steps]
  /\ run \in [Procs -> 0..MaxRuns]
  /\ stamp \in [Procs -> 0..MaxWall]
  /\ files \subseteq [host : Hosts, stamp : 0..MaxWall, run : 1..MaxRuns]
  /\ \A f, g \in files : f.host = g.host /\ f.stamp = g.stamp => f = g
  /\ latest \in [Hosts -> 0..MaxRuns]
  /\ prev \in [Hosts -> 0..MaxRuns]
  /\ wall \in 0..MaxWall
  /\ backs \in 0..MaxBacks
  /\ runs \in 0..MaxRuns
  /\ compared \in [Procs -> 0..MaxRuns]
  /\ lastDone \in [Hosts -> 0..MaxRuns]
  /\ seen \in [Procs -> 0..MaxRuns]
  /\ done \subseteq [host : Hosts, stamp : 0..MaxWall, run : 1..MaxRuns]
  /\ interrupted \in [Hosts -> BOOLEAN]

BaselineInit ==
  /\ pc = [p \in Procs |-> "idle"]
  /\ run = [p \in Procs |-> 0]
  /\ stamp = [p \in Procs |-> 0]
  /\ files = {}
  /\ latest = [h \in Hosts |-> 0]
  /\ prev = [h \in Hosts |-> 0]
  /\ wall = 0
  /\ backs = 0
  /\ runs = 0
  /\ compared = [p \in Procs |-> 0]
  /\ lastDone = [h \in Hosts |-> 0]
  /\ seen = [p \in Procs |-> 0]
  /\ done = {}
  /\ interrupted = [h \in Hosts |-> FALSE]

Goto(p, step) == pc' = [pc EXCEPT ![p] = step]

-------------------------------------------------------------------------------
(* A run: printHealthResults and SaveBaseline. *)

\* BuildSnapshot takes the time.
Begin(p) ==
  /\ pc[p] = "idle"
  /\ runs < MaxRuns
  /\ runs' = runs + 1
  /\ run' = [run EXCEPT ![p] = runs + 1]
  /\ stamp' = [stamp EXCEPT ![p] = wall]
  /\ compared' = [compared EXCEPT ![p] = 0]
  /\ seen' = [seen EXCEPT ![p] = 0]
  /\ Goto(p, "taken")
  /\ UNCHANGED <<dirVars, clockVars, doneVars>>

\* Faulty: --diff reads HOST-prev.json, two runs back.
DiffWithPrev(p) ==
  /\ pc[p] = "taken"
  /\ compared' = [compared EXCEPT ![p] = prev[HostOf[p]]]
  /\ seen' = [seen EXCEPT ![p] = lastDone[HostOf[p]]]
  /\ Goto(p, "compared")
  /\ UNCHANGED <<dirVars, clockVars, doneVars, snapVars>>

\* --diff: LoadBaseline("") reads HOST-latest.json.
Diff(p) ==
  /\ pc[p] = "taken"
  /\ compared' = [compared EXCEPT ![p] = latest[HostOf[p]]]
  /\ seen' = [seen EXCEPT ![p] = lastDone[HostOf[p]]]
  /\ Goto(p, "compared")
  /\ UNCHANGED <<dirVars, clockVars, doneVars, snapVars>>

\* Faulty: the file name leaves the host out.
OverwrittenByAnyHost(h, s) == {f \in files : f.stamp = s}

\* The file of the same host and second is replaced.
Overwritten(h, s) == {f \in files : f.host = h /\ f.stamp = s}

\* The timestamped file, written aside and renamed into place.
WriteStamped(p) ==
  /\ pc[p] \in {"taken", "compared"}
  /\ files' = (files \ Overwritten(HostOf[p], stamp[p]))
                \cup {File(HostOf[p], stamp[p], run[p])}
  /\ Goto(p, "stamped")
  /\ UNCHANGED <<latest, prev, clockVars, doneVars, snapVars, diffVars>>

\* os.Stat(latest)
StatLatest(p) ==
  /\ pc[p] = "stamped"
  /\ Goto(p, IF latest[HostOf[p]] # 0 THEN "rotating" ELSE "rotated")
  /\ UNCHANGED <<dirVars, clockVars, doneVars, snapVars, diffVars>>

\* os.Rename(latest, prev); another process may have renamed it already.
Rotate(p) ==
  /\ pc[p] = "rotating"
  /\ LET h == HostOf[p] IN
       IF latest[h] # 0
       THEN /\ prev' = [prev EXCEPT ![h] = latest[h]]
            /\ latest' = [latest EXCEPT ![h] = 0]
       ELSE UNCHANGED <<latest, prev>>
  /\ Goto(p, "rotated")
  /\ UNCHANGED <<files, clockVars, doneVars, snapVars, diffVars>>

\* The error of that rename is ignored.
RotateFails(p) ==
  /\ pc[p] = "rotating"
  /\ Goto(p, "rotated")
  /\ UNCHANGED <<dirVars, clockVars, doneVars, snapVars, diffVars>>

\* The new latest file is renamed into place and SaveBaseline returns nil.
WriteLatest(p) ==
  /\ pc[p] = "rotated"
  /\ latest' = [latest EXCEPT ![HostOf[p]] = run[p]]
  /\ lastDone' = [lastDone EXCEPT ![HostOf[p]] = run[p]]
  /\ done' = done \cup {File(HostOf[p], stamp[p], run[p])}
  /\ interrupted' = [interrupted EXCEPT ![HostOf[p]] = FALSE]
  /\ Goto(p, "idle")
  /\ UNCHANGED <<files, prev, clockVars, snapVars, diffVars>>

\* Faulty: the deferred clean-up removes the latest file, not the temporary one.
StopRemovesLatest(p) ==
  /\ pc[p] # "idle"
  /\ latest' = [latest EXCEPT ![HostOf[p]] = 0]
  /\ interrupted' = [interrupted EXCEPT ![HostOf[p]] = @ \/ pc[p] = "rotated"]
  /\ Goto(p, "idle")
  /\ UNCHANGED <<files, prev, clockVars, snapVars, diffVars, lastDone, done>>

\* The run ends without its latest file: a temporary file cannot be written or
\* renamed (saveBaselineOrWarn prints a warning), or the process dies.
StopEarly(p) ==
  /\ pc[p] # "idle"
  /\ interrupted' = [interrupted EXCEPT ![HostOf[p]] = @ \/ pc[p] = "rotated"]
  /\ Goto(p, "idle")
  /\ UNCHANGED <<dirVars, clockVars, snapVars, diffVars, lastDone, done>>

-------------------------------------------------------------------------------
(* The local time. *)

Tick ==
  /\ wall < MaxWall
  /\ wall' = wall + 1
  /\ UNCHANGED <<pc, dirVars, backs, doneVars, snapVars, diffVars>>

\* The end of daylight saving time.
SetBack ==
  /\ backs < MaxBacks
  /\ wall > 0
  /\ wall' = wall - 1
  /\ backs' = backs + 1
  /\ UNCHANGED <<pc, dirVars, doneVars, snapVars, diffVars>>

\* Every run has ended; nothing more happens within the bounds.
Done == /\ runs = MaxRuns
        /\ \A p \in Procs : pc[p] = "idle"
        /\ UNCHANGED baselineVars

BaselineNext ==
  \/ \E p \in Procs :
       \/ Begin(p) \/ Diff(p) \/ WriteStamped(p) \/ StatLatest(p) \/ Rotate(p)
       \/ RotateFails(p) \/ WriteLatest(p) \/ StopEarly(p)
  \/ Tick
  \/ SetBack
  \/ Done

BaselineSpec == BaselineInit /\ [][BaselineNext]_baselineVars

-------------------------------------------------------------------------------
(* Properties. *)

\* baseline.go:195: --diff never compares with anything but the last completed
\* run, as the off-by-one the comment records did.
DiffNeverOlder == \A p \in Procs : compared[p] \in {0, seen[p]}

\* baseline.go:195 "The empty path means the last completed run": the latest
\* file is the run that completed last, except while a save is between its two
\* renames or after one stopped there.
LatestOnlyLostMidSave ==
  \A h \in Hosts :
    latest[h] # lastDone[h] =>
      /\ latest[h] = 0
      /\ interrupted[h] \/ \E p \in Procs : HostOf[p] = h /\ pc[p] = "rotated"

\* Whenever saves fail, die or interleave, a completed run is still in one of
\* the two files.
SomeRunKept == \A h \in Hosts : lastDone[h] # 0 => latest[h] # 0 \/ prev[h] # 0

\* A completed run is on file under its second, where history and timeline look
\* for it, unless one of its host and second took its name.
EveryCompletedRunOnFile ==
  \A d \in done : \E f \in files : f.host = d.host /\ f.stamp = d.stamp
===============================================================================
