------------------------------- MODULE LocalFiles -------------------------------
(***************************************************************************)
(* What the dsd processes of one user do to the files they share without a *)
(* lock: ~/.dsd/state.json (internal/tips), ~/.dsd/update-check.json and   *)
(* the executable itself (internal/selfupdate, cmd/update.go).             *)
(*                                                                         *)
(* A dsd health run loads the state, may refresh the update cache at its   *)
(* end and saves the state; dsd update asks for the latest release and     *)
(* either refreshes the cache or replaces the executable.  Both JSON files *)
(* are written through one fixed name, FILE.tmp, and renamed.  A process   *)
(* may die between any two system calls.                                   *)
(***************************************************************************)
EXTENDS Integers, FiniteSets

CONSTANTS
  Procs,       \* processes, each of which runs once
  MaxRelease,  \* releases are numbered 1..MaxRelease; 0 is a build that is none
  Lens         \* possible lengths of a marshalled file

ASSUME MaxReleaseAssumption == MaxRelease \in Nat \ {0}
ASSUME LensAssumption == Lens \subseteq Nat \ {0}

VARIABLES
  latest,  \* the newest published release
  exe,     \* the release whose bytes are the executable
  temps,   \* processes whose .dsd-update-* file is on disk
  disk,    \* what FILE and FILE.tmp name
  proc,    \* the processes
  raced,   \* files two saves of which overlapped; "runs" if two health runs did
  counted  \* state saves that were renamed into place

vars == <<latest, exe, temps, disk, proc, raced, counted>>

Files == {"state", "cache"}
Builds == 0..MaxRelease
Releases == 1..MaxRelease

\* A file: "part" is anything json.Unmarshal refuses, the empty file included.
\* The value is TotalRuns or LatestVersion.
Content == [text : {"none", "part", "whole"}, len : Nat, val : Nat]
None == [text |-> "none", len |-> 0, val |-> 0]
Empty == [text |-> "part", len |-> 0, val |-> 0]

\* LoadState's nil.
Unreadable == -1

NotStarted == [pc |-> "off", ver |-> 0, mem |-> 0, file |-> "none", doc |-> 0,
               fd |-> "none", next |-> "done", rel |-> 0, sum |-> 0, bytes |-> 0]

Saving == {"save", "opened", "written"}
Ended == {"done", "dead"}

\* pc: where it is; ver: the build it runs; mem: TotalRuns as loaded; file, doc,
\* fd, next: the save under way and where it returns to; rel, sum, bytes: the
\* release announced, the one the checksums are of, the one downloaded.
Fields ==
  [pc : {"off", "ran", "nudged", "asked", "summed", "staging", "staged"} \cup Saving \cup Ended,
   ver : Builds, mem : Nat \cup {Unreadable}, file : Files \cup {"none"}, doc : Nat,
   fd : {"none", "tmp", "path", "gone"}, next : {"nudged", "done"},
   rel : Builds, sum : Builds, bytes : Builds]

Process ==
  {r \in Fields :
     /\ r.pc \in Saving => r.file \in Files
     /\ r.fd # "none" => r.pc = "opened"}

TypeOK ==
  /\ latest \in Releases
  /\ exe \in Builds
  /\ temps \subseteq Procs
  /\ disk \in [Files -> [path : Content, tmp : Content]]
  /\ proc \in [Procs -> Process]
  /\ raced \subseteq Files \cup {"runs"}
  /\ counted \in Nat

\* Each JSON file is missing, whole, or already unreadable.
Init ==
  /\ latest = 1
  /\ exe \in {0, 1}
  /\ temps = {}
  /\ \E start \in [Files -> {None, Empty, [text |-> "whole", len |-> 1, val |-> 1]}] :
       /\ disk = [f \in Files |-> [path |-> start[f], tmp |-> None]]
       /\ raced = {f \in Files : start[f] = Empty}
       /\ counted = start["state"].val
  /\ proc = [p \in Procs |-> NotStarted]

\* The project publishes its next release.
Publish ==
  /\ latest < MaxRelease
  /\ latest' = latest + 1
  /\ UNCHANGED <<exe, temps, disk, proc, raced, counted>>

Becomes(p, r) == proc' = [proc EXCEPT ![p] = r]

-------------------------------------------------------------------------------
(* State.Save and saveCache. *)

\* A process that is over: nothing else of it matters any more.
Gone(how) == [NotStarted EXCEPT !.pc = how]

\* The call returns, with an error or without: no caller looks at it.
Returned(r) ==
  IF r.next = "done" THEN Gone("done")
  ELSE [r EXCEPT !.pc = "nudged", !.file = "none", !.fd = "none", !.doc = 0]

InSave(f) == {p \in Procs : proc[p].file = f /\ proc[p].pc \in {"opened", "written"}}

\* MkdirAll or OpenFile fails.
OpenFails(p) ==
  /\ proc[p].pc = "save"
  /\ Becomes(p, Returned(proc[p]))
  /\ UNCHANGED <<latest, exe, temps, disk, raced, counted>>

\* Faulty: what an earlier save left in FILE.tmp stays.
OpenWithoutTruncating(p) ==
  LET f == proc[p].file IN
  /\ proc[p].pc = "save"
  /\ Becomes(p, [proc[p] EXCEPT !.pc = "opened", !.fd = "tmp"])
  /\ disk' = [disk EXCEPT ![f].tmp = IF @ = None THEN Empty ELSE @]
  /\ raced' = IF InSave(f) = {} THEN raced ELSE raced \cup {f}
  /\ UNCHANGED <<latest, exe, temps, counted>>

\* O_CREATE|O_TRUNC: a file that is there is emptied, whoever has it open.
OpenTmp(p) ==
  LET f == proc[p].file IN
  /\ proc[p].pc = "save"
  /\ Becomes(p, [proc[p] EXCEPT !.pc = "opened", !.fd = "tmp"])
  /\ disk' = [disk EXCEPT ![f].tmp = Empty]
  /\ raced' = IF InSave(f) = {} THEN raced ELSE raced \cup {f}
  /\ UNCHANGED <<latest, exe, temps, counted>>

\* A write of n bytes at the start of a file: a longer file keeps its tail.
Over(c, n, v) ==
  IF n >= c.len THEN [text |-> "whole", len |-> n, val |-> v]
  ELSE [text |-> "part", len |-> c.len, val |-> 0]

\* A write that was cut short.
Cut(c, n) == [text |-> "part", len |-> IF n >= c.len THEN n ELSE c.len, val |-> 0]

\* The file that p has open holds c from now on.  Since a rename by another
\* process it may be the one at FILE, or have no name any more.
OnDisk(p, c) ==
  IF proc[p].fd = "tmp" THEN [disk EXCEPT ![proc[p].file].tmp = c]
  ELSE IF proc[p].fd = "path" THEN [disk EXCEPT ![proc[p].file].path = c]
  ELSE disk

Opened(p) ==
  IF proc[p].fd = "tmp" THEN disk[proc[p].file].tmp
  ELSE IF proc[p].fd = "path" THEN disk[proc[p].file].path
  ELSE Empty

\* Write and Close.
Write(p) ==
  /\ proc[p].pc = "opened"
  /\ \E n \in Lens : disk' = OnDisk(p, Over(Opened(p), n, proc[p].doc))
  /\ Becomes(p, [proc[p] EXCEPT !.pc = "written", !.fd = "none"])
  /\ UNCHANGED <<latest, exe, temps, raced, counted>>

\* The write is cut short: the temporary file stays.
WriteFails(p) ==
  /\ proc[p].pc = "opened"
  /\ \E n \in {m - 1 : m \in Lens} : disk' = OnDisk(p, Cut(Opened(p), n))
  /\ Becomes(p, Returned(proc[p]))
  /\ UNCHANGED <<latest, exe, temps, raced, counted>>

\* Rename moves whatever has the name FILE.tmp by now; descriptors follow it.
Moved(q, f) ==
  IF proc[q].file # f THEN proc[q].fd
  ELSE IF proc[q].fd = "tmp" THEN "path"
  ELSE IF proc[q].fd = "path" THEN "gone" ELSE proc[q].fd

Rename(p) ==
  LET f == proc[p].file IN
  /\ proc[p].pc = "written"
  /\ disk[f].tmp # None
  /\ disk' = [disk EXCEPT ![f] = [path |-> disk[f].tmp, tmp |-> None]]
  /\ proc' = [q \in Procs |-> IF q = p THEN Returned(proc[p])
                              ELSE [proc[q] EXCEPT !.fd = Moved(q, f)]]
  /\ counted' = IF f = "state" THEN counted + 1 ELSE counted
  /\ UNCHANGED <<latest, exe, temps, raced>>

\* Another process has renamed FILE.tmp away.
RenameFails(p) ==
  /\ proc[p].pc = "written"
  /\ disk[proc[p].file].tmp = None
  /\ Becomes(p, Returned(proc[p]))
  /\ UNCHANGED <<latest, exe, temps, disk, raced, counted>>

-------------------------------------------------------------------------------
(* dsd health. *)

\* LoadState: a missing file is a fresh state, an unreadable one is none.
Loaded == IF disk["state"].path.text = "part" THEN Unreadable ELSE disk["state"].path.val

\* Health runs that will still save what they loaded.
Holding == {p \in Procs : /\ proc[p].pc \in {"ran", "nudged"} \cup Saving
                          /\ proc[p].next = "nudged" \/ proc[p].file = "state"
                          /\ proc[p].mem # Unreadable}

StartHealth(p) ==
  /\ proc[p].pc = "off"
  /\ Becomes(p, [proc[p] EXCEPT !.pc = "ran", !.ver = exe, !.mem = Loaded,
                             !.next = "nudged"])
  /\ raced' = IF Holding = {} THEN raced ELSE raced \cup {"runs"}
  /\ UNCHANGED <<latest, exe, temps, disk, counted>>

\* MaybeNudge does without a refresh: no release build, a fresh cache, no network
\* or no answer.
NoRefresh(p) ==
  /\ proc[p].pc = "ran"
  /\ Becomes(p, [proc[p] EXCEPT !.pc = "nudged"])
  /\ UNCHANGED <<latest, exe, temps, disk, raced, counted>>

\* RefreshCache: the cache is missing, unreadable or older than its TTL.
Refresh(p) ==
  /\ proc[p].pc = "ran" /\ proc[p].ver # 0
  /\ Becomes(p, [proc[p] EXCEPT !.pc = "save", !.file = "cache", !.doc = latest])
  /\ UNCHANGED <<latest, exe, temps, disk, raced, counted>>

\* printHealthFooter: without a state nothing is counted or saved.
SkipCount(p) ==
  /\ proc[p].pc = "nudged" /\ proc[p].mem = Unreadable
  /\ Becomes(p, Gone("done"))
  /\ UNCHANGED <<latest, exe, temps, disk, raced, counted>>

\* Faulty: the state is saved before the run is counted.
CountRunTooLate(p) ==
  /\ proc[p].pc = "nudged" /\ proc[p].mem # Unreadable
  /\ Becomes(p, [proc[p] EXCEPT !.pc = "save", !.file = "state",
                             !.doc = proc[p].mem, !.next = "done"])
  /\ UNCHANGED <<latest, exe, temps, disk, raced, counted>>

\* Faulty: a run that could not load the state saves one nevertheless.
CountRunWithoutState(p) ==
  /\ proc[p].pc = "nudged"
  /\ Becomes(p, [proc[p] EXCEPT !.pc = "save", !.file = "state",
                             !.doc = proc[p].mem + 1, !.next = "done"])
  /\ UNCHANGED <<latest, exe, temps, disk, raced, counted>>

CountRun(p) ==
  /\ proc[p].pc = "nudged" /\ proc[p].mem # Unreadable
  /\ Becomes(p, [proc[p] EXCEPT !.pc = "save", !.file = "state",
                             !.doc = proc[p].mem + 1, !.next = "done"])
  /\ UNCHANGED <<latest, exe, temps, disk, raced, counted>>

-------------------------------------------------------------------------------
(* dsd update. *)

\* LatestRelease.  A build that is no release may install any.
StartUpdate(p) ==
  /\ proc[p].pc = "off"
  /\ Becomes(p, [proc[p] EXCEPT !.pc = "asked", !.ver = exe, !.rel = latest])
  /\ UNCHANGED <<latest, exe, temps, disk, raced, counted>>

\* Already the latest release, or --check: only the cache is refreshed.
UpdateCache(p) ==
  /\ proc[p].pc = "asked"
  /\ Becomes(p, [proc[p] EXCEPT !.pc = "save", !.file = "cache", !.doc = latest])
  /\ UNCHANGED <<latest, exe, temps, disk, raced, counted>>

\* No answer, not confirmed, an asset that is missing or cannot be fetched.
GiveUp(p) ==
  /\ proc[p].pc \in {"asked", "summed"}
  /\ Becomes(p, Gone("done"))
  /\ UNCHANGED <<latest, exe, temps, disk, raced, counted>>

\* Faulty: a signature is accepted whatever release it was made for.
FetchSumsOfAnyRelease(p) ==
  /\ proc[p].pc = "asked" /\ proc[p].ver < proc[p].rel
  /\ \E of \in 1..latest : Becomes(p, [proc[p] EXCEPT !.pc = "summed", !.sum = of])
  /\ UNCHANGED <<latest, exe, temps, disk, raced, counted>>

\* fetchBytes and verifyChecksumsSignature.  A file of checksums that is signed
\* is that of some published release; it is refused unless it names this one.
FetchSums(p) ==
  /\ proc[p].pc = "asked" /\ proc[p].ver < proc[p].rel
  /\ \E of \in 1..latest :
       /\ of = proc[p].rel
       /\ Becomes(p, [proc[p] EXCEPT !.pc = "summed", !.sum = of])
  /\ UNCHANGED <<latest, exe, temps, disk, raced, counted>>

\* downloadToTemp: a file of its own next to the executable.
Stage(p) ==
  /\ proc[p].pc = "summed"
  /\ Becomes(p, [proc[p] EXCEPT !.pc = "staging"])
  /\ temps' = temps \cup {p}
  /\ UNCHANGED <<latest, exe, disk, raced, counted>>

\* The bytes served need not be those of the release.
Download(p) ==
  /\ proc[p].pc = "staging"
  /\ \E b \in Builds : Becomes(p, [proc[p] EXCEPT !.pc = "staged", !.bytes = b])
  /\ UNCHANGED <<latest, exe, temps, disk, raced, counted>>

\* Broken off, too large, or not closed: the file is removed.
DownloadFails(p) ==
  /\ proc[p].pc = "staging"
  /\ Becomes(p, Gone("done"))
  /\ temps' = temps \ {p}
  /\ UNCHANGED <<latest, exe, disk, raced, counted>>

\* The hash differs, or chmod or rename fails: the deferred Remove.
Reject(p) ==
  /\ proc[p].pc = "staged"
  /\ Becomes(p, Gone("done"))
  /\ temps' = temps \ {p}
  /\ UNCHANGED <<latest, exe, disk, raced, counted>>

Install(p) ==
  /\ proc[p].pc = "staged" /\ proc[p].bytes = proc[p].sum
  /\ exe' = proc[p].bytes
  /\ Becomes(p, Gone("done"))
  /\ temps' = temps \ {p}
  /\ UNCHANGED <<latest, disk, raced, counted>>

-------------------------------------------------------------------------------
Kill(p) ==
  /\ proc[p].pc \notin Ended \cup {"off"}
  /\ Becomes(p, Gone("dead"))
  /\ UNCHANGED <<latest, exe, temps, disk, raced, counted>>

\* Every process has run.
Idle ==
  /\ \A p \in Procs : proc[p].pc \in Ended
  /\ UNCHANGED vars

Save(p) ==
  \/ OpenFails(p) \/ OpenTmp(p) \/ Write(p) \/ WriteFails(p) \/ Rename(p) \/ RenameFails(p)
Health(p) ==
  \/ StartHealth(p) \/ NoRefresh(p) \/ Refresh(p) \/ SkipCount(p) \/ CountRun(p)
Update(p) ==
  \/ StartUpdate(p) \/ UpdateCache(p) \/ GiveUp(p) \/ FetchSums(p)
  \/ Stage(p) \/ Download(p) \/ DownloadFails(p) \/ Reject(p) \/ Install(p)

Next ==
  \/ Publish
  \/ \E p \in Procs : Save(p) \/ Health(p) \/ Update(p) \/ Kill(p)
  \/ Idle

Spec == Init /\ [][Next]_vars

-------------------------------------------------------------------------------
(* Properties. *)

\* DEFECT-CLASSES.md:36: a save replaces the file as a whole or not at all, also
\* when its process dies on the way or an earlier one left FILE.tmp behind -
\* as long as no two saves of the file overlap.
SavesAreAtomic == \A f \in Files : disk[f].path.text = "part" => f \in raced

\* health.go:358: unless two health runs overlapped, TotalRuns is the number of
\* saves that succeeded.
RunsAreCounted ==
  "runs" \notin raced /\ disk["state"].path.text # "part"
    => disk["state"].path.val = counted

\* health.go:130: once state.json is unreadable and no run that had loaded it
\* before is left, no run ever rewrites it.
UnreadableStateStays ==
  [][disk["state"].path.text = "part" /\ Holding = {}
       => disk'["state"].path = disk["state"].path]_vars

\* selfupdate.go:265: whatever replaces the executable is the release dsd update
\* announced, newer than the one it was started from, so that the executable gets
\* older only when another process has replaced it in the meantime.
InstalledAsAnnounced ==
  [][exe' # exe => \E p \in Procs : /\ proc[p].pc = "staged"
                                    /\ exe' = proc[p].rel
                                    /\ exe' > exe \/ proc[p].ver # exe]_vars

\* selfupdate.go:258: a staged download outlives its process only if that was killed.
NoTempLeft == \A p \in temps : proc[p].pc \in {"staging", "staged", "dead"}

===============================================================================
