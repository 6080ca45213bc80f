-------------------------------- MODULE Store ---------------------------------
(***************************************************************************)
(* The run history behind dsd health --persist: internal/store (withLock,  *)
(* PersistAndPrune, Prune, ReadAll) as cmd/health.go's persistHealthRun    *)
(* uses it.  What persistHealthRun reads before the lock is only printed.  *)
(*                                                                         *)
(* Processes of several hosts share one JSONL file (a home directory on    *)
(* NFS).  A process, holding a lock on a separate file, appends its line   *)
(* and rewrites the file without its host's oldest lines.  A process may   *)
(* die at any point and a write may stop half way, which leaves a last     *)
(* line without its newline.                                               *)
(*                                                                         *)
(* Prune copies the lines it keeps in order, so a line is known by the     *)
(* place at which it was first written and the file is a set of lines.     *)
(***************************************************************************)
EXTENDS Naturals, FiniteSets

CONSTANTS
  Procs,        \* dsd health --persist processes
  Hosts,        \* host names
  HostOf,       \* the host each process runs on
  NoProc,       \* nobody holds the lock
  Unreadable,   \* in place of the host of a line that does not parse
  MaxEntries,   \* defaultMaxHistory
  MaxRuns       \* bound on the number of runs

ASSUME HostOfAssumption == HostOf \in [Procs -> Hosts]
ASSUME NoProcAssumption == NoProc \notin Procs
ASSUME UnreadableAssumption == Unreadable \notin Hosts
ASSUME MaxEntriesAssumption == MaxEntries \in Nat \ {0}
ASSUME MaxRunsAssumption == MaxRuns \in Nat

VARIABLES
  pc,       \* where each process is in persistHealthRun
  holder,   \* who holds the flock on path+".lock"
  gen,      \* how often path has been replaced by Prune's rename
  fd,       \* the generation of the file each process has open
  file,     \* the lines of the file at path
  torn,     \* the place of the last line when it lacks its newline, or 0
  next,     \* the place the next write gets
  mine,     \* the place of the line each process wrote
  snap,     \* the lines Prune read
  runs,     \* number of runs begun
  acked,    \* history: entries whose PersistAndPrune returned nil
  merged    \* history: places of lines that were glued to a torn line

vars == <<pc, holder, gen, fd, file, torn, next, mine, snap, runs,
          acked, merged>>
fileVars == <<gen, file, torn, next, merged>>
procVars == <<fd, mine, snap>>

\* A line that does not parse (torn, oversized, of a newer dsd) has no host.
Line(n, h) == [place |-> n, host |-> h]

EntriesOf(S, h) == {l \in S : l.host = h}
Newer(S, l) == {m \in S : m.host = l.host /\ m.place > l.place}

Steps == {"idle", "started", "locked", "opened", "appended", "pruning", "pruned"}
Critical == {"locked", "opened", "appended", "pruning", "pruned"}

TypeOK ==
  /\ pc \in [Procs -> Steps]
  /\ holder \in Procs \cup {NoProc}
  /\ gen \in Nat
  /\ fd \in [Procs -> Nat]
  /\ file \subseteq [place : Nat \ {0}, host : Hosts \cup {Unreadable}]
  /\ torn \in Nat
  /\ next \in Nat \ {0}
  /\ mine \in [Procs -> Nat]
  /\ snap \in [Procs -> SUBSET [place : Nat \ {0}, host : Hosts \cup {Unreadable}]]
  /\ runs \in Nat
  /\ acked \subseteq [place : Nat \ {0}, host : Hosts]
  /\ merged \subseteq Nat
  /\ torn < next
  /\ \A l \in file : l.place < next
  /\ \A l, m \in file : l.place = m.place => l = m

\* The file may already hold a line this version cannot parse.
Init ==
  /\ pc = [p \in Procs |-> "idle"]
  /\ holder = NoProc
  /\ gen = 0
  /\ fd = [p \in Procs |-> 0]
  /\ file \in {{}, {Line(1, Unreadable)}}
  /\ torn = 0
  /\ next = 2
  /\ mine = [p \in Procs |-> 0]
  /\ snap = [p \in Procs |-> {}]
  /\ runs = 0
  /\ acked = {}
  /\ merged = {}

Goto(p, step) == pc' = [pc EXCEPT ![p] = step]
Release(p) == holder' = IF holder = p THEN NoProc ELSE holder

-------------------------------------------------------------------------------
(* persistHealthRun before the lock. *)

\* The process resolves the path and builds its entry.
Begin(p) ==
  /\ pc[p] = "idle"
  /\ runs < MaxRuns
  /\ runs' = runs + 1
  /\ Goto(p, "started")
  /\ UNCHANGED <<holder, fileVars, procVars, acked>>

\* Faulty: no lock at all.
LockNothing(p) ==
  /\ pc[p] = "started"
  /\ Goto(p, "locked")
  /\ UNCHANGED <<holder, fileVars, procVars, runs, acked>>

\* withLock: flock on the sidecar file.
Lock(p) ==
  /\ pc[p] = "started"
  /\ holder = NoProc
  /\ holder' = p
  /\ Goto(p, "locked")
  /\ UNCHANGED <<fileVars, procVars, runs, acked>>

-------------------------------------------------------------------------------
(* PersistAndPrune under the lock. *)

OpenStore(p) ==
  /\ pc[p] = "locked"
  /\ fd' = [fd EXCEPT ![p] = gen]
  /\ Goto(p, "opened")
  /\ UNCHANGED <<holder, fileVars, mine, snap, runs, acked>>

Unparsable(S) == {Line(l.place, Unreadable) : l \in {m \in S : m.place = torn}}

\* What a write does to the lines of S: after a torn last line it continues
\* that line, which then does not parse.
AfterWrite(S, line) ==
  IF torn = 0 THEN S \cup {line}
  ELSE {l \in S : l.place # torn} \cup Unparsable(S)

\* Append: one write of a whole line.  A file replaced since the Open is not
\* the one at path any more.
AppendLine(p) ==
  /\ pc[p] = "opened"
  /\ IF fd[p] = gen
     THEN /\ file' = AfterWrite(file, Line(next, HostOf[p]))
          /\ torn' = 0
          /\ merged' = IF torn = 0 THEN merged ELSE merged \cup {torn, next}
     ELSE UNCHANGED <<file, torn, merged>>
  /\ mine' = [mine EXCEPT ![p] = next]
  /\ next' = next + 1
  /\ Goto(p, "appended")
  /\ UNCHANGED <<holder, gen, fd, snap, runs, acked>>

\* The write stops before the newline: the disk is full, or the process dies.
\* What was written may even be the whole entry.
TornWrite(p) ==
  /\ fd[p] = gen
  /\ \E h \in {HostOf[p], Unreadable} :
       file' = AfterWrite(file, Line(next, h))
  /\ torn' = IF torn = 0 THEN next ELSE torn
  /\ merged' = IF torn = 0 THEN merged ELSE merged \cup {torn, next}
  /\ next' = next + 1

\* Append returns an error after a short write, or without having written.
AppendFails(p) ==
  /\ pc[p] = "opened"
  /\ TornWrite(p) \/ UNCHANGED <<file, torn, merged, next>>
  /\ Goto(p, "idle")
  /\ Release(p)
  /\ UNCHANGED <<gen, procVars, runs, acked>>

\* Entries of h that Prune drops: those with MaxEntries newer ones.
Excess(S, h) ==
  {l \in EntriesOf(S, h) : Cardinality(Newer(S, l)) >= MaxEntries}

\* Close succeeded; Prune reads every line of path and finds its excess.
PruneReads(p) ==
  /\ pc[p] = "appended"
  /\ snap' = [snap EXCEPT ![p] = file]
  /\ Goto(p, IF Excess(file, HostOf[p]) = {} THEN "pruned" ELSE "pruning")
  /\ UNCHANGED <<holder, fileVars, fd, mine, runs, acked>>

\* Faulty: the entries with the largest places go, not the smallest.
PruneDropsNewest(p) ==
  /\ pc[p] = "pruning"
  /\ file' = snap[p] \ {l \in EntriesOf(snap[p], HostOf[p]) :
                          Cardinality({m \in EntriesOf(snap[p], HostOf[p]) :
                                         m.place < l.place}) >= MaxEntries}
  /\ torn' = 0
  /\ gen' = gen + 1
  /\ Goto(p, "pruned")
  /\ UNCHANGED <<holder, next, merged, procVars, runs, acked>>

\* Faulty: Prune writes only the lines it could parse (as a rewrite from
\* ReadAll's output would).
PruneDropsUnparsed(p) ==
  /\ pc[p] = "pruning"
  /\ file' = {l \in snap[p] \ Excess(snap[p], HostOf[p]) : l.host # Unreadable}
  /\ torn' = 0
  /\ gen' = gen + 1
  /\ Goto(p, "pruned")
  /\ UNCHANGED <<holder, next, merged, procVars, runs, acked>>

\* Faulty: one entry too many is kept.
PruneKeepsOneMore(p) ==
  /\ pc[p] = "pruning"
  /\ file' = snap[p] \ {l \in EntriesOf(snap[p], HostOf[p]) :
                          Cardinality(Newer(snap[p], l)) > MaxEntries}
  /\ torn' = 0
  /\ gen' = gen + 1
  /\ Goto(p, "pruned")
  /\ UNCHANGED <<holder, next, merged, procVars, runs, acked>>

\* The temporary file, every line newline-terminated, is renamed over path.
PruneRenames(p) ==
  /\ pc[p] = "pruning"
  /\ file' = snap[p] \ Excess(snap[p], HostOf[p])
  /\ torn' = 0
  /\ gen' = gen + 1
  /\ Goto(p, "pruned")
  /\ UNCHANGED <<holder, next, merged, procVars, runs, acked>>

\* PersistAndPrune returns nil, the lock is released, the drift line printed.
Return(p) ==
  /\ pc[p] = "pruned"
  /\ acked' = acked \cup {Line(mine[p], HostOf[p])}
  /\ Goto(p, "idle")
  /\ Release(p)
  /\ UNCHANGED <<fileVars, procVars, runs>>

\* The lock, Open, Close or a step of Prune returns an error.  Prune's deferred
\* cleanup removes its temporary file; path is untouched.
StepFails(p) ==
  /\ pc[p] \in {"started", "locked", "appended", "pruning"}
  /\ Goto(p, "idle")
  /\ Release(p)
  /\ UNCHANGED <<fileVars, procVars, runs, acked>>

\* The process dies; the kernel closes its descriptors and drops its lock.
Crash(p) ==
  /\ pc[p] # "idle"
  /\ \/ pc[p] = "opened" /\ TornWrite(p)
     \/ UNCHANGED <<file, torn, merged, next>>
  /\ Goto(p, "idle")
  /\ Release(p)
  /\ UNCHANGED <<gen, procVars, runs, acked>>

\* Every run has ended; nothing more happens within the bound.
Done == /\ runs = MaxRuns
        /\ \A p \in Procs : pc[p] = "idle"
        /\ UNCHANGED vars

Next ==
  \/ \E p \in Procs :
       \/ Begin(p) \/ Lock(p) \/ OpenStore(p) \/ AppendLine(p)
       \/ AppendFails(p) \/ PruneReads(p) \/ PruneRenames(p) \/ Return(p)
       \/ StepFails(p) \/ Crash(p)
  \/ Done

Spec == Init /\ [][Next]_vars

-------------------------------------------------------------------------------
(* Properties. *)

Whole == {l \in file : l.place # torn}

\* An entry that may be missing from the file because MaxEntries newer ones of
\* its host are in it, each on a line of its own.
OutOfWindow(l) == Cardinality(Newer(Whole, l)) >= MaxEntries

\* An entry dsd reported as persisted stays in the file until MaxEntries newer
\* ones of its host push it out, unless its line was glued to a torn one.
AckedEntryKept ==
  \A l \in acked : l \in file \/ OutOfWindow(l) \/ l.place \in merged

\* When PersistAndPrune is about to return nil its host is within the limit,
\* whatever earlier runs that failed or died left behind.
WithinLimit ==
  \A p \in Procs :
    pc[p] = "pruned" => Cardinality(EntriesOf(file, HostOf[p])) <= MaxEntries

\* prune.go:22 "Prune only ever removes the OLDEST PARSEABLE entries of
\* hostname": no step of a process makes a line of another host or one that
\* does not parse disappear, except for a torn last line being continued.
OnlyOwnOldestRemoved ==
  [][\A l \in file \ file' :
       \/ l.place = torn
       \/ /\ l.host # Unreadable
          /\ Cardinality(Newer(file', l)) >= MaxEntries
          /\ \E p \in Procs : pc[p] = "pruning" /\ HostOf[p] = l.host]_vars

\* A reader of the last MaxEntries whole lines of a host sees runs recorded one
\* by one; a prune changes nothing for it.
Window(h) == {l.place : l \in {m \in EntriesOf(Whole, h) : ~OutOfWindow(m)}}

History == INSTANCE HistoryLog WITH
  recorded <- next - 1, window <- [h \in Hosts |-> Window(h)]

ImplementsHistory == History!Spec

===============================================================================
