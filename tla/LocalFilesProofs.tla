--------------------------- MODULE LocalFilesProofs ---------------------------
(***************************************************************************)
(* Theorems about LocalFiles, for any number of processes, any number of   *)
(* releases and any lengths of the files.                                  *)
(***************************************************************************)
EXTENDS LocalFiles, TLAPS

\* One process moves and the others stay.
LEMMA OneMoves ==
  ASSUME proc \in [Procs -> Process], NEW p \in Procs, NEW r, Becomes(p, r)
  PROVE  /\ r \in Process => proc' \in [Procs -> Process]
         /\ proc'[p] = r
         /\ \A q \in Procs \ {p} : proc'[q] = proc[q]
BY DEF Becomes

\* What a process looks like when it is over.
LEMMA GoneIs ==
  ASSUME NEW how \in Ended
  PROVE  /\ Gone(how) \in Process
         /\ Gone(how).pc = how /\ Gone(how).file = "none" /\ Gone(how).fd = "none"
BY MaxReleaseAssumption
   DEF Gone, NotStarted, Process, Fields, Ended, Saving, Builds, Files

\* What it looks like when a save returns.
LEMMA ReturnedIs ==
  ASSUME NEW r \in Process
  PROVE  /\ Returned(r) \in Process
         /\ Returned(r).pc = r.next
         /\ Returned(r).file = "none" /\ Returned(r).fd = "none"
         /\ r.next = "nudged" => Returned(r).mem = r.mem /\ Returned(r).next = "nudged"
<1>1. CASE r.next = "done"
  BY <1>1, GoneIs DEF Returned, Ended
<1>2. CASE r.next # "done"
  <2>1. r.next = "nudged"
    BY <1>2 DEF Process, Fields
  <2>2. Returned(r) = [r EXCEPT !.pc = "nudged", !.file = "none", !.fd = "none", !.doc = 0]
    BY <1>2 DEF Returned
  <2>3. Returned(r) \in Fields
    <3>1. r \in Fields
      BY DEF Process
    <3>2. [r EXCEPT !.pc = "nudged", !.file = "none", !.fd = "none", !.doc = 0] \in Fields
      BY <3>1 DEF Fields
    <3> QED
      BY <2>2, <3>2
  <2>4. /\ Returned(r).pc = "nudged" /\ Returned(r).file = "none" /\ Returned(r).fd = "none"
        /\ Returned(r).mem = r.mem /\ Returned(r).next = r.next
    BY <2>2 DEF Process, Fields
  <2> QED
    BY <2>1, <2>3, <2>4 DEF Process, Saving
<1> QED
  BY <1>1, <1>2

\* What a write leaves behind is a file.
LEMMA WrittenTyped ==
  ASSUME NEW c \in Content, NEW n \in Nat, NEW v \in Nat
  PROVE  Over(c, n, v) \in Content /\ Cut(c, n) \in Content
BY DEF Over, Cut, Content

LEMMA OpenedTyped ==
  ASSUME TypeOK, NEW p \in Procs, proc[p].pc = "opened"
  PROVE  /\ proc[p].file \in Files
         /\ Opened(p) \in Content
         /\ \A c \in Content : OnDisk(p, c) \in [Files -> [path : Content, tmp : Content]]
<1>1. proc[p].file \in Files
  BY DEF TypeOK, Saving, Process
<1>2. Empty \in Content
  BY DEF Empty, Content
<1> QED
  BY <1>1, <1>2 DEF TypeOK, Opened, OnDisk

LEMMA LoadedTyped ==
  ASSUME TypeOK
  PROVE  Loaded \in Nat \cup {Unreadable}
BY DEF TypeOK, Loaded, Files, Content

LEMMA SaveTyped ==
  ASSUME TypeOK, NEW p \in Procs, Save(p)
  PROVE  TypeOK'
<1>0. proc \in [Procs -> Process] /\ proc[p] \in Process
  BY DEF TypeOK
<1>1. CASE OpenFails(p)
  BY <1>0, <1>1, OneMoves, ReturnedIs DEF OpenFails, TypeOK
<1>2. CASE OpenTmp(p)
  <2>1. proc[p].file \in Files /\ Empty \in Content
    BY <1>0, <1>2 DEF OpenTmp, Saving, Empty, Content, Process
  <2>2. /\ disk' \in [Files -> [path : Content, tmp : Content]]
        /\ raced' \subseteq Files \cup {"runs"}
    BY <1>2, <2>1 DEF OpenTmp, TypeOK
  <2>3. [proc[p] EXCEPT !.pc = "opened", !.fd = "tmp"] \in Process
    BY <1>0, <1>2, <2>1 DEF OpenTmp, Process, Fields, Saving
  <2> QED
    BY <1>0, <1>2, <2>2, <2>3, OneMoves DEF OpenTmp, TypeOK
<1>3. CASE Write(p)
  <2>1. PICK n \in Lens : disk' = OnDisk(p, Over(Opened(p), n, proc[p].doc))
    BY <1>3 DEF Write
  <2>2. n \in Nat /\ proc[p].doc \in Nat /\ Opened(p) \in Content
    BY <1>0, <1>3, LensAssumption, OpenedTyped DEF Write, Process, Fields
  <2>3. disk' \in [Files -> [path : Content, tmp : Content]]
    BY <1>3, <2>1, <2>2, WrittenTyped, OpenedTyped DEF Write
  <2>4. [proc[p] EXCEPT !.pc = "written", !.fd = "none"] \in Process
    BY <1>0, <1>3 DEF Write, Process, Fields, Saving
  <2> QED
    BY <1>0, <1>3, <2>3, <2>4, OneMoves DEF Write, TypeOK
<1>4. CASE WriteFails(p)
  <2>1. PICK n \in {m - 1 : m \in Lens} : disk' = OnDisk(p, Cut(Opened(p), n))
    BY <1>4 DEF WriteFails
  <2>2. n \in Nat /\ Opened(p) \in Content
    BY <1>4, LensAssumption, OpenedTyped DEF WriteFails
  <2>3. disk' \in [Files -> [path : Content, tmp : Content]]
    BY <1>4, <2>1, <2>2, WrittenTyped, OpenedTyped DEF WriteFails
  <2> QED
    BY <1>0, <1>4, <2>3, OneMoves, ReturnedIs DEF WriteFails, TypeOK
<1>5. CASE Rename(p)
  <2>1. proc[p].file \in Files /\ None \in Content
    BY <1>0, <1>5 DEF Rename, Saving, None, Content, Process
  <2>2. disk' \in [Files -> [path : Content, tmp : Content]] /\ counted' \in Nat
    BY <1>5, <2>1 DEF Rename, TypeOK
  <2>3. ASSUME NEW q \in Procs PROVE proc'[q] \in Process
    <3>1. CASE q = p
      BY <1>0, <1>5, <3>1, ReturnedIs DEF Rename
    <3>2. CASE q # p
      <4>1. proc'[q] = [proc[q] EXCEPT !.fd = Moved(q, proc[p].file)]
        BY <1>5, <3>2 DEF Rename
      <4>2. /\ Moved(q, proc[p].file) \in {"none", "tmp", "path", "gone"}
            /\ proc[q].fd = "none" => Moved(q, proc[p].file) = "none"
        BY <1>0 DEF Moved, Process, Fields
      <4> QED
        BY <1>0, <4>1, <4>2 DEF Process, Fields
    <3> QED
      BY <3>1, <3>2
  <2>4. proc' \in [Procs -> Process]
    BY <1>5, <2>3 DEF Rename
  <2> QED
    BY <1>5, <2>2, <2>4 DEF Rename, TypeOK
<1>6. CASE RenameFails(p)
  BY <1>0, <1>6, OneMoves, ReturnedIs DEF RenameFails, TypeOK
<1> QED
  BY <1>1, <1>2, <1>3, <1>4, <1>5, <1>6 DEF Save

LEMMA HealthTyped ==
  ASSUME TypeOK, NEW p \in Procs, Health(p)
  PROVE  TypeOK'
<1>0. /\ proc \in [Procs -> Process] /\ proc[p] \in Process
      /\ latest \in Nat /\ exe \in Builds
  BY MaxReleaseAssumption DEF TypeOK, Releases
<1>1. CASE StartHealth(p)
  <2>1. [proc[p] EXCEPT !.pc = "ran", !.ver = exe, !.mem = Loaded, !.next = "nudged"] \in Process
    BY <1>0, <1>1, LoadedTyped DEF StartHealth, Process, Fields, Saving
  <2> QED
    BY <1>0, <1>1, <2>1, OneMoves DEF StartHealth, TypeOK
<1>2. CASE NoRefresh(p)
  <2>1. [proc[p] EXCEPT !.pc = "nudged"] \in Process
    BY <1>0, <1>2 DEF NoRefresh, Process, Fields, Saving
  <2> QED
    BY <1>0, <1>2, <2>1, OneMoves DEF NoRefresh, TypeOK
<1>3. CASE Refresh(p)
  <2>1. [proc[p] EXCEPT !.pc = "save", !.file = "cache", !.doc = latest] \in Process
    BY <1>0, <1>3 DEF Refresh, Process, Fields, Saving, Files
  <2> QED
    BY <1>0, <1>3, <2>1, OneMoves DEF Refresh, TypeOK
<1>4. CASE SkipCount(p)
  BY <1>0, <1>4, OneMoves, GoneIs DEF SkipCount, TypeOK, Ended
<1>5. CASE CountRun(p)
  <2>1. proc[p].mem + 1 \in Nat
    BY <1>0, <1>5 DEF CountRun, Process, Fields, Unreadable
  <2>2. [proc[p] EXCEPT !.pc = "save", !.file = "state",
                        !.doc = proc[p].mem + 1, !.next = "done"] \in Process
    BY <1>0, <1>5, <2>1 DEF CountRun, Process, Fields, Saving, Files
  <2> QED
    BY <1>0, <1>5, <2>2, OneMoves DEF CountRun, TypeOK
<1> QED
  BY <1>1, <1>2, <1>3, <1>4, <1>5 DEF Health

LEMMA UpdateTyped ==
  ASSUME TypeOK, NEW p \in Procs, Update(p)
  PROVE  TypeOK'
<1>0. /\ proc \in [Procs -> Process] /\ proc[p] \in Process
      /\ latest \in Nat /\ latest \in Builds /\ exe \in Builds /\ 1..latest \subseteq Builds
  BY MaxReleaseAssumption DEF TypeOK, Releases, Builds
<1>1. CASE StartUpdate(p)
  <2>1. [proc[p] EXCEPT !.pc = "asked", !.ver = exe, !.rel = latest] \in Process
    BY <1>0, <1>1 DEF StartUpdate, Process, Fields, Saving
  <2> QED
    BY <1>0, <1>1, <2>1, OneMoves DEF StartUpdate, TypeOK
<1>2. CASE UpdateCache(p)
  <2>1. [proc[p] EXCEPT !.pc = "save", !.file = "cache", !.doc = latest] \in Process
    BY <1>0, <1>2 DEF UpdateCache, Process, Fields, Saving, Files
  <2> QED
    BY <1>0, <1>2, <2>1, OneMoves DEF UpdateCache, TypeOK
<1>3. CASE GiveUp(p)
  BY <1>0, <1>3, OneMoves, GoneIs DEF GiveUp, TypeOK, Ended
<1>4. CASE FetchSums(p)
  <2>1. PICK of \in 1..latest : Becomes(p, [proc[p] EXCEPT !.pc = "summed", !.sum = of])
    BY <1>4 DEF FetchSums
  <2>2. [proc[p] EXCEPT !.pc = "summed", !.sum = of] \in Process
    BY <1>0, <1>4 DEF FetchSums, Process, Fields, Saving
  <2> QED
    BY <1>0, <1>4, <2>1, <2>2, OneMoves DEF FetchSums, TypeOK
<1>5. CASE Stage(p)
  <2>1. [proc[p] EXCEPT !.pc = "staging"] \in Process
    BY <1>0, <1>5 DEF Stage, Process, Fields, Saving
  <2> QED
    BY <1>0, <1>5, <2>1, OneMoves DEF Stage, TypeOK
<1>6. CASE Download(p)
  <2>1. PICK b \in Builds : Becomes(p, [proc[p] EXCEPT !.pc = "staged", !.bytes = b])
    BY <1>6 DEF Download
  <2>2. [proc[p] EXCEPT !.pc = "staged", !.bytes = b] \in Process
    BY <1>0, <1>6 DEF Download, Process, Fields, Saving
  <2> QED
    BY <1>0, <1>6, <2>1, <2>2, OneMoves DEF Download, TypeOK
<1>7. CASE DownloadFails(p)
  BY <1>0, <1>7, OneMoves, GoneIs DEF DownloadFails, TypeOK, Ended
<1>8. CASE Reject(p)
  BY <1>0, <1>8, OneMoves, GoneIs DEF Reject, TypeOK, Ended
<1>9. CASE Install(p)
  <2>1. exe' \in Builds
    BY <1>0, <1>9 DEF Install, Process, Fields
  <2> QED
    BY <1>0, <1>9, <2>1, OneMoves, GoneIs DEF Install, TypeOK, Ended
<1> QED
  BY <1>1, <1>2, <1>3, <1>4, <1>5, <1>6, <1>7, <1>8, <1>9 DEF Update

\* The type invariant of the files and the processes: among others no save
\* returns with its descriptor open.
THEOREM TypeCorrect == Spec => []TypeOK
<1>1. Init => TypeOK
  <2> SUFFICES ASSUME Init PROVE TypeOK
    OBVIOUS
  <2>1. NotStarted \in Process
    BY MaxReleaseAssumption DEF NotStarted, Process, Fields, Builds, Files, Ended, Saving
  <2>2. None \in Content /\ Empty \in Content
        /\ [text |-> "whole", len |-> 1, val |-> 1] \in Content
    BY DEF None, Empty, Content
  <2>3. PICK start \in [Files -> {None, Empty, [text |-> "whole", len |-> 1, val |-> 1]}] :
          /\ disk = [f \in Files |-> [path |-> start[f], tmp |-> None]]
          /\ raced = {f \in Files : start[f] = Empty}
          /\ counted = start["state"].val
    BY DEF Init
  <2>4. /\ disk \in [Files -> [path : Content, tmp : Content]]
        /\ raced \subseteq Files \cup {"runs"}
    BY <2>2, <2>3
  <2>5. start["state"] \in Content
    BY <2>2, <2>3 DEF Files
  <2>6. counted \in Nat
    BY <2>3, <2>5 DEF Content
  <2> QED
    BY <2>1, <2>4, <2>6, MaxReleaseAssumption DEF Init, TypeOK, Builds, Releases
<1>2. TypeOK /\ [Next]_vars => TypeOK'
  <2> SUFFICES ASSUME TypeOK, [Next]_vars PROVE TypeOK'
    OBVIOUS
  <2>1. CASE Publish
    BY <2>1, MaxReleaseAssumption DEF Publish, TypeOK, Releases
  <2>2. ASSUME NEW p \in Procs, Kill(p) PROVE TypeOK'
    BY <2>2, OneMoves, GoneIs DEF Kill, TypeOK, Ended
  <2>3. CASE UNCHANGED vars
    BY <2>3 DEF vars, TypeOK
  <2> QED
    BY <2>1, <2>2, <2>3, SaveTyped, HealthTyped, UpdateTyped DEF Next, Idle
<1> QED
  BY <1>1, <1>2, PTL DEF Spec

-------------------------------------------------------------------------------
\* A step of one process touches nothing of another but its descriptor.
LEMMA OthersStay ==
  ASSUME TypeOK, NEW p \in Procs, Save(p) \/ Health(p) \/ Update(p) \/ Kill(p),
         NEW q \in Procs, q # p
  PROVE  \/ proc'[q] = proc[q]
         \/ \E d \in {"none", "tmp", "path", "gone"} : proc'[q] = [proc[q] EXCEPT !.fd = d]
<1>1. CASE Rename(p)
  <2>1. proc'[q] = [proc[q] EXCEPT !.fd = Moved(q, proc[p].file)]
    BY <1>1 DEF Rename
  <2>2. Moved(q, proc[p].file) \in {"none", "tmp", "path", "gone"}
    BY DEF Moved, TypeOK, Process, Fields
  <2> QED
    BY <2>1, <2>2
<1>2. ASSUME NEW r, Becomes(p, r) PROVE proc'[q] = proc[q]
  BY <1>2, OneMoves DEF TypeOK
<1>3. CASE Save(p) /\ ~Rename(p)
  BY <1>2, <1>3 DEF Save, OpenFails, OpenTmp, Write, WriteFails, RenameFails
<1>4. CASE Health(p)
  BY <1>2, <1>4 DEF Health, StartHealth, NoRefresh, Refresh, SkipCount, CountRun
<1>5. CASE Update(p)
  BY <1>2, <1>5 DEF Update, StartUpdate, UpdateCache, GiveUp, FetchSums, Stage, Download,
                    DownloadFails, Reject, Install
<1>6. CASE Kill(p)
  BY <1>2, <1>6 DEF Kill
<1> QED
  BY <1>1, <1>3, <1>4, <1>5, <1>6

\* What a process that installs has established by then.
Chosen(r) ==
  r.pc \in {"summed", "staging", "staged"} => r.sum = r.rel /\ r.ver < r.rel

ChosenInv == \A p \in Procs : Chosen(proc[p])

LEMMA ChosenKept ==
  ASSUME TypeOK, ChosenInv, NEW p \in Procs,
         Save(p) \/ Health(p) \/ Update(p) \/ Kill(p)
  PROVE  ChosenInv'
<1>1. ASSUME NEW q \in Procs, q # p PROVE Chosen(proc[q])'
  <2>0. proc[q] \in Fields
    BY DEF TypeOK, Process
  <2>1. /\ proc'[q].pc = proc[q].pc /\ proc'[q].sum = proc[q].sum
        /\ proc'[q].ver = proc[q].ver /\ proc'[q].rel = proc[q].rel
    BY <1>1, <2>0, OthersStay DEF Fields
  <2> QED
    BY <2>1 DEF ChosenInv, Chosen
<1>2. proc[p] \in Process /\ proc \in [Procs -> Process] /\ Chosen(proc[p])
  BY DEF TypeOK, ChosenInv
<1>3. ASSUME NEW r, Becomes(p, r), Chosen(r) PROVE Chosen(proc[p])'
  BY <1>2, <1>3, OneMoves DEF Chosen
<1>4. ASSUME NEW r, Becomes(p, r), r.pc \notin {"summed", "staging", "staged"}
      PROVE  Chosen(proc[p])'
  BY <1>3, <1>4 DEF Chosen
<1>5. /\ Returned(proc[p]).pc \notin {"summed", "staging", "staged"}
      /\ \A how \in Ended : Gone(how).pc \notin {"summed", "staging", "staged"}
  BY <1>2, ReturnedIs, GoneIs DEF Ended, Process, Fields
<1>6. ASSUME Save(p) PROVE Chosen(proc[p])'
  <2>1. CASE Rename(p)
    BY <1>5, <2>1 DEF Rename, Chosen
  <2>2. CASE OpenTmp(p)
    <3>1. [proc[p] EXCEPT !.pc = "opened", !.fd = "tmp"].pc = "opened"
      BY <1>2 DEF Process, Fields
    <3> QED
      BY <1>4, <2>2, <3>1 DEF OpenTmp
  <2>3. CASE Write(p)
    <3>1. [proc[p] EXCEPT !.pc = "written", !.fd = "none"].pc = "written"
      BY <1>2 DEF Process, Fields
    <3> QED
      BY <1>4, <2>3, <3>1 DEF Write
  <2> QED
    BY <1>4, <1>5, <1>6, <2>1, <2>2, <2>3 DEF Save, OpenFails, WriteFails, RenameFails
<1>7. ASSUME Health(p) PROVE Chosen(proc[p])'
  <2>1. /\ [proc[p] EXCEPT !.pc = "ran", !.ver = exe, !.mem = Loaded, !.next = "nudged"].pc = "ran"
        /\ [proc[p] EXCEPT !.pc = "nudged"].pc = "nudged"
        /\ [proc[p] EXCEPT !.pc = "save", !.file = "cache", !.doc = latest].pc = "save"
        /\ [proc[p] EXCEPT !.pc = "save", !.file = "state",
                           !.doc = proc[p].mem + 1, !.next = "done"].pc = "save"
    BY <1>2 DEF Process, Fields
  <2> QED
    BY <1>4, <1>5, <1>7, <2>1
    DEF Health, StartHealth, NoRefresh, Refresh, SkipCount, CountRun, Ended
<1>8. ASSUME Update(p) PROVE Chosen(proc[p])'
  <2>1. CASE FetchSums(p)
    <3>1. Chosen([proc[p] EXCEPT !.pc = "summed", !.sum = proc[p].rel])
      BY <1>2, <2>1 DEF FetchSums, Chosen, Process, Fields
    <3> QED
      BY <1>3, <2>1, <3>1 DEF FetchSums
  <2>2. CASE Stage(p)
    <3>1. Chosen([proc[p] EXCEPT !.pc = "staging"])
      BY <1>2, <2>2 DEF Stage, Chosen, Process, Fields
    <3> QED
      BY <1>3, <2>2, <3>1 DEF Stage
  <2>3. CASE Download(p)
    <3>1. PICK b \in Builds : Becomes(p, [proc[p] EXCEPT !.pc = "staged", !.bytes = b])
      BY <2>3 DEF Download
    <3>2. Chosen([proc[p] EXCEPT !.pc = "staged", !.bytes = b])
      BY <1>2, <2>3 DEF Download, Chosen, Process, Fields
    <3> QED
      BY <1>3, <3>1, <3>2
  <2>4. CASE StartUpdate(p) \/ UpdateCache(p)
    <3>1. /\ [proc[p] EXCEPT !.pc = "asked", !.ver = exe, !.rel = latest].pc = "asked"
          /\ [proc[p] EXCEPT !.pc = "save", !.file = "cache", !.doc = latest].pc = "save"
      BY <1>2 DEF Process, Fields
    <3> QED
      BY <1>4, <2>4, <3>1 DEF StartUpdate, UpdateCache
  <2> QED
    BY <1>4, <1>5, <1>8, <2>1, <2>2, <2>3, <2>4
    DEF Update, GiveUp, DownloadFails, Reject, Install, Ended
<1>9. ASSUME Kill(p) PROVE Chosen(proc[p])'
  BY <1>4, <1>5, <1>9 DEF Kill, Ended
<1> QED
  BY <1>1, <1>6, <1>7, <1>8, <1>9 DEF ChosenInv

LEMMA ChosenInvariant == Spec => []ChosenInv
<1>1. Init => ChosenInv
  BY DEF Init, ChosenInv, Chosen, NotStarted
<1>2. TypeOK /\ ChosenInv /\ [Next]_vars => ChosenInv'
  <2> SUFFICES ASSUME TypeOK, ChosenInv, [Next]_vars PROVE ChosenInv'
    OBVIOUS
  <2>1. CASE UNCHANGED proc
    BY <2>1 DEF ChosenInv
  <2> QED
    BY <2>1, ChosenKept DEF Next, Publish, Idle, vars
<1> QED
  BY <1>1, <1>2, TypeCorrect, PTL DEF Spec

\* What replaces the executable is the release that was announced, and is newer
\* than the executable the process was started from.
THEOREM OnlyTheAnnounced == Spec => InstalledAsAnnounced
<1>1. TypeOK /\ ChosenInv /\ [Next]_vars
        => [exe' # exe => \E p \in Procs : /\ proc[p].pc = "staged"
                                           /\ exe' = proc[p].rel
                                           /\ exe' > exe \/ proc[p].ver # exe]_vars
  <2> SUFFICES ASSUME TypeOK, ChosenInv, Next, exe' # exe
               PROVE  \E p \in Procs : /\ proc[p].pc = "staged"
                                       /\ exe' = proc[p].rel
                                       /\ exe' > exe \/ proc[p].ver # exe
    BY DEF vars
  <2>1. PICK p \in Procs : Install(p)
    BY DEF Next, Publish, Idle, vars, Kill, Save, OpenFails, OpenTmp, Write, WriteFails, Rename,
           RenameFails, Health, StartHealth, NoRefresh, Refresh, SkipCount, CountRun,
           Update, StartUpdate, UpdateCache, GiveUp, FetchSums, Stage, Download,
           DownloadFails, Reject
  <2>2. /\ proc[p].pc = "staged" /\ proc[p].sum = proc[p].rel /\ proc[p].ver < proc[p].rel
        /\ exe' = proc[p].rel
    BY <2>1 DEF Install, ChosenInv, Chosen
  <2>3. proc[p].ver # exe \/ exe' > exe
    BY <2>2 DEF TypeOK, Process, Fields, Builds
  <2> QED
    BY <2>2, <2>3
<1> QED
  BY <1>1, TypeCorrect, ChosenInvariant, PTL DEF Spec, InstalledAsAnnounced

-------------------------------------------------------------------------------
\* A staged download is removed by every end of its process but a kill.
THEOREM TempsRemoved == Spec => []NoTempLeft
<1>1. Init => NoTempLeft
  BY DEF Init, NoTempLeft
<1>2. TypeOK /\ NoTempLeft /\ [Next]_vars => NoTempLeft'
  <2> SUFFICES ASSUME TypeOK, NoTempLeft, [Next]_vars PROVE NoTempLeft'
    OBVIOUS
  <2>1. CASE UNCHANGED <<proc, temps>>
    BY <2>1 DEF NoTempLeft
  <2>2. ASSUME NEW p \in Procs, Save(p) \/ Health(p) \/ Update(p) \/ Kill(p)
        PROVE  NoTempLeft'
    <3>1. ASSUME NEW q \in Procs, q # p
          PROVE  proc'[q].pc = proc[q].pc /\ (q \in temps' => q \in temps)
      <4>0. proc[q] \in Fields
        BY DEF TypeOK, Process
      <4>1. proc'[q].pc = proc[q].pc
        BY <2>2, <3>1, <4>0, OthersStay DEF Fields
      <4>2. q \in temps' => q \in temps
        BY <2>2, <3>1
        DEF Kill, Save, OpenFails, OpenTmp, Write, WriteFails, Rename,
            RenameFails, Health, StartHealth, NoRefresh, Refresh, SkipCount, CountRun,
            Update, StartUpdate, UpdateCache, GiveUp, FetchSums, Stage, Download,
            DownloadFails, Reject, Install
      <4> QED
        BY <4>1, <4>2
    <3>2. p \in temps' => proc'[p].pc \in {"staging", "staged", "dead"}
      <4>0. proc \in [Procs -> Process] /\ proc[p] \in Process
        BY DEF TypeOK
      <4>1. CASE Save(p)
        BY <4>1 DEF NoTempLeft, Save, OpenFails, OpenTmp, Write, WriteFails, Rename, RenameFails
      <4>2. CASE Health(p)
        BY <4>2 DEF NoTempLeft, Health, StartHealth, NoRefresh, Refresh, SkipCount, CountRun
      <4>3. CASE Stage(p)
        BY <4>0, <4>3, OneMoves DEF Stage, Process, Fields
      <4>6. CASE Download(p)
        <5>1. PICK b \in Builds : Becomes(p, [proc[p] EXCEPT !.pc = "staged", !.bytes = b])
          BY <4>6 DEF Download
        <5>2. [proc[p] EXCEPT !.pc = "staged", !.bytes = b].pc = "staged"
          BY <4>0 DEF Process, Fields
        <5> QED
          BY <4>0, <5>1, <5>2, OneMoves
      <4>4. CASE Update(p) /\ ~(Stage(p) \/ Download(p))
        BY <4>4 DEF NoTempLeft, Update, StartUpdate, UpdateCache, GiveUp, FetchSums,
                    DownloadFails, Reject, Install
      <4>5. CASE Kill(p)
        BY <4>0, <4>5, OneMoves, GoneIs DEF Kill, Ended
      <4> QED
        BY <2>2, <4>1, <4>2, <4>3, <4>4, <4>5, <4>6
    <3>3. temps' \subseteq Procs
      BY <2>2, SaveTyped, HealthTyped, UpdateTyped DEF Kill, TypeOK
    <3> QED
      BY <3>1, <3>2, <3>3 DEF NoTempLeft
  <2> QED
    BY <2>1, <2>2 DEF Next, Publish, Idle, vars
<1> QED
  BY <1>1, <1>2, TypeCorrect, PTL DEF Spec

-------------------------------------------------------------------------------
\* Where a process returns to, and what a save of the state was made from.
Shaped(r) ==
  /\ r.pc \in {"off", "asked"} => r.next = "done"
  /\ r.pc \in {"ran", "nudged"} => r.next = "nudged"
  /\ r.pc \in Saving /\ r.file = "state" =>
       r.mem # Unreadable /\ r.doc = r.mem + 1 /\ r.next = "done"

ShapedInv == \A p \in Procs : Shaped(proc[p])

LEMMA ShapedKept ==
  ASSUME TypeOK, ShapedInv, NEW p \in Procs,
         Save(p) \/ Health(p) \/ Update(p) \/ Kill(p)
  PROVE  ShapedInv'
<1>1. ASSUME NEW q \in Procs, q # p PROVE Shaped(proc[q])'
  <2>0. proc[q] \in Fields
    BY DEF TypeOK, Process
  <2>1. /\ proc'[q].pc = proc[q].pc /\ proc'[q].next = proc[q].next
        /\ proc'[q].file = proc[q].file /\ proc'[q].mem = proc[q].mem
        /\ proc'[q].doc = proc[q].doc
    BY <1>1, <2>0, OthersStay DEF Fields
  <2> QED
    BY <2>1 DEF ShapedInv, Shaped
<1>2. proc[p] \in Process /\ proc \in [Procs -> Process] /\ Shaped(proc[p])
  BY DEF TypeOK, ShapedInv
<1>3. ASSUME NEW r, Becomes(p, r), Shaped(r) PROVE Shaped(proc[p])'
  BY <1>2, <1>3, OneMoves DEF Shaped
<1>4. \A how \in Ended : Shaped(Gone(how))
  BY GoneIs DEF Ended, Shaped, Saving
<1>5. Shaped(Returned(proc[p]))
  BY <1>2, ReturnedIs DEF Shaped, Saving, Process, Fields
<1>6. ASSUME Save(p) PROVE Shaped(proc[p])'
  <2>1. CASE Rename(p)
    BY <1>5, <2>1 DEF Rename, Shaped
  <2>2. CASE OpenTmp(p)
    <3>1. Shaped([proc[p] EXCEPT !.pc = "opened", !.fd = "tmp"])
      BY <1>2, <2>2 DEF OpenTmp, Shaped, Saving, Process, Fields
    <3> QED
      BY <1>3, <2>2, <3>1 DEF OpenTmp
  <2>3. CASE Write(p)
    <3>1. Shaped([proc[p] EXCEPT !.pc = "written", !.fd = "none"])
      BY <1>2, <2>3 DEF Write, Shaped, Saving, Process, Fields
    <3> QED
      BY <1>3, <2>3, <3>1 DEF Write
  <2> QED
    BY <1>3, <1>5, <1>6, <2>1, <2>2, <2>3 DEF Save, OpenFails, WriteFails, RenameFails
<1>7. ASSUME Health(p) PROVE Shaped(proc[p])'
  <2>1. CASE StartHealth(p)
    <3>1. Shaped([proc[p] EXCEPT !.pc = "ran", !.ver = exe, !.mem = Loaded, !.next = "nudged"])
      BY <1>2 DEF Shaped, Saving, Process, Fields
    <3> QED
      BY <1>3, <2>1, <3>1 DEF StartHealth
  <2>2. CASE NoRefresh(p)
    <3>1. Shaped([proc[p] EXCEPT !.pc = "nudged"])
      BY <1>2, <2>2 DEF NoRefresh, Shaped, Saving, Process, Fields
    <3> QED
      BY <1>3, <2>2, <3>1 DEF NoRefresh
  <2>3. CASE Refresh(p)
    <3>1. Shaped([proc[p] EXCEPT !.pc = "save", !.file = "cache", !.doc = latest])
      BY <1>2, <2>3 DEF Refresh, Shaped, Saving, Process, Fields
    <3> QED
      BY <1>3, <2>3, <3>1 DEF Refresh
  <2>4. CASE CountRun(p)
    <3>1. Shaped([proc[p] EXCEPT !.pc = "save", !.file = "state",
                                 !.doc = proc[p].mem + 1, !.next = "done"])
      BY <1>2, <2>4 DEF CountRun, Shaped, Saving, Process, Fields
    <3> QED
      BY <1>3, <2>4, <3>1 DEF CountRun
  <2> QED
    BY <1>3, <1>4, <1>7, <2>1, <2>2, <2>3, <2>4 DEF Health, SkipCount, Ended
<1>8. ASSUME Update(p) PROVE Shaped(proc[p])'
  <2>1. CASE StartUpdate(p)
    <3>1. Shaped([proc[p] EXCEPT !.pc = "asked", !.ver = exe, !.rel = latest])
      BY <1>2, <2>1 DEF StartUpdate, Shaped, Saving, Process, Fields
    <3> QED
      BY <1>3, <2>1, <3>1 DEF StartUpdate
  <2>2. CASE UpdateCache(p)
    <3>1. Shaped([proc[p] EXCEPT !.pc = "save", !.file = "cache", !.doc = latest])
      BY <1>2, <2>2 DEF UpdateCache, Shaped, Saving, Process, Fields
    <3> QED
      BY <1>3, <2>2, <3>1 DEF UpdateCache
  <2>3. CASE FetchSums(p)
    <3>1. Shaped([proc[p] EXCEPT !.pc = "summed", !.sum = proc[p].rel])
      BY <1>2, <2>3 DEF FetchSums, Shaped, Saving, Process, Fields
    <3> QED
      BY <1>3, <2>3, <3>1 DEF FetchSums
  <2>4. CASE Stage(p)
    <3>1. Shaped([proc[p] EXCEPT !.pc = "staging"])
      BY <1>2, <2>4 DEF Stage, Shaped, Saving, Process, Fields
    <3> QED
      BY <1>3, <2>4, <3>1 DEF Stage
  <2>5. CASE Download(p)
    <3>1. PICK b \in Builds : Becomes(p, [proc[p] EXCEPT !.pc = "staged", !.bytes = b])
      BY <2>5 DEF Download
    <3>2. Shaped([proc[p] EXCEPT !.pc = "staged", !.bytes = b])
      BY <1>2, <2>5 DEF Download, Shaped, Saving, Process, Fields
    <3> QED
      BY <1>3, <3>1, <3>2
  <2> QED
    BY <1>3, <1>4, <1>8, <2>1, <2>2, <2>3, <2>4, <2>5
    DEF Update, GiveUp, DownloadFails, Reject, Install, Ended
<1>9. ASSUME Kill(p) PROVE Shaped(proc[p])'
  BY <1>3, <1>4, <1>9 DEF Kill, Ended
<1> QED
  BY <1>1, <1>6, <1>7, <1>8, <1>9 DEF ShapedInv

LEMMA ShapedInvariant == Spec => []ShapedInv
<1>1. Init => ShapedInv
  BY DEF Init, ShapedInv, Shaped, NotStarted, Saving
<1>2. TypeOK /\ ShapedInv /\ [Next]_vars => ShapedInv'
  <2> SUFFICES ASSUME TypeOK, ShapedInv, [Next]_vars PROVE ShapedInv'
    OBVIOUS
  <2>1. CASE UNCHANGED proc
    BY <2>1 DEF ShapedInv
  <2> QED
    BY <2>1, ShapedKept DEF Next, Publish, Idle, vars
<1> QED
  BY <1>1, <1>2, TypeCorrect, PTL DEF Spec

\* A process in the middle of saving the state holds it.
LEMMA SaversHold ==
  ASSUME TypeOK, ShapedInv, NEW p \in Procs, proc[p].pc \in Saving, proc[p].file = "state"
  PROVE  p \in Holding /\ proc[p].next = "done" /\ proc[p].doc = proc[p].mem + 1
BY DEF ShapedInv, Shaped, Holding

\* Steps that do not write a file leave it alone.
LEMMA DiskStays ==
  ASSUME TypeOK, NEW p \in Procs, Save(p) \/ Health(p) \/ Update(p) \/ Kill(p), NEW f \in Files,
         ~(Save(p) /\ proc[p].file = f)
  PROVE  disk'[f] = disk[f] /\ raced \subseteq raced'
<1>1. CASE Save(p)
  <2>1. proc[p].file \in Files /\ proc[p].file # f
    BY <1>1 DEF Save, OpenFails, OpenTmp, Write, WriteFails, Rename, RenameFails,
                TypeOK, Process, Saving
  <2>2. \A c : OnDisk(p, c)[f] = disk[f]
    BY <2>1 DEF OnDisk, TypeOK
  <2> QED
    BY <1>1, <2>1, <2>2
    DEF Save, OpenFails, OpenTmp, Write, WriteFails, Rename, RenameFails, TypeOK
<1>2. CASE Health(p)
  BY <1>2 DEF Health, StartHealth, NoRefresh, Refresh, SkipCount, CountRun
<1>3. CASE Update(p)
  BY <1>3 DEF Update, StartUpdate, UpdateCache, GiveUp, FetchSums, Stage, Download,
              DownloadFails, Reject, Install
<1>4. CASE Kill(p)
  BY <1>4 DEF Kill
<1> QED
  BY <1>1, <1>2, <1>3, <1>4

\* Once state.json is unreadable and nobody holds an older state, it stays as it is.
THEOREM UnreadableForGood == Spec => UnreadableStateStays
<1>1. TypeOK /\ ShapedInv /\ [Next]_vars
        => [disk["state"].path.text = "part" /\ Holding = {}
              => disk'["state"].path = disk["state"].path]_vars
  <2> SUFFICES ASSUME TypeOK, ShapedInv, Next, Holding = {}
               PROVE  disk'["state"].path = disk["state"].path
    BY DEF vars
  <2>1. CASE UNCHANGED disk
    BY <2>1
  <2>2. ASSUME NEW p \in Procs, Save(p) \/ Health(p) \/ Update(p) \/ Kill(p)
        PROVE  disk'["state"].path = disk["state"].path
    <3>1. ~(Save(p) /\ proc[p].file = "state")
      BY SaversHold
      DEF Save, OpenFails, OpenTmp, Write, WriteFails, Rename, RenameFails, Saving
    <3> QED
      BY <2>2, <3>1, DiskStays DEF Files
  <2> QED
    BY <2>1, <2>2 DEF Next, Publish, Idle, vars
<1> QED
  BY <1>1, TypeCorrect, ShapedInvariant, PTL DEF Spec, UnreadableStateStays

-------------------------------------------------------------------------------
\* Who is in the middle of a save after a step of p.
LEMMA SaversMove ==
  ASSUME TypeOK, NEW p \in Procs, Save(p) \/ Health(p) \/ Update(p) \/ Kill(p), NEW f \in Files
  PROVE  /\ ~(Save(p) /\ proc[p].file = f) =>
              /\ InSave(f)' \subseteq InSave(f)
              /\ \A q \in InSave(f)' : /\ proc'[q].pc = proc[q].pc /\ proc'[q].fd = proc[q].fd
                                       /\ proc'[q].doc = proc[q].doc
         /\ OpenTmp(p) /\ proc[p].file = f =>
              /\ InSave(f)' = InSave(f) \cup {p}
              /\ proc'[p] = [proc[p] EXCEPT !.pc = "opened", !.fd = "tmp"]
         /\ Write(p) /\ proc[p].file = f =>
              /\ InSave(f)' = InSave(f) /\ p \in InSave(f)
              /\ proc'[p] = [proc[p] EXCEPT !.pc = "written", !.fd = "none"]
         /\ (OpenFails(p) \/ WriteFails(p) \/ Rename(p) \/ RenameFails(p)) /\ proc[p].file = f =>
              InSave(f)' = InSave(f) \ {p}
<1>1. ASSUME NEW q \in Procs, q # p
      PROVE  /\ q \in InSave(f)' <=> q \in InSave(f)
             /\ ~(Rename(p) /\ proc[q].file = proc[p].file) =>
                  /\ proc'[q].pc = proc[q].pc /\ proc'[q].fd = proc[q].fd
                  /\ proc'[q].doc = proc[q].doc
  <2>0. proc[q] \in Fields
    BY DEF TypeOK, Process
  <2>1. /\ proc'[q].pc = proc[q].pc /\ proc'[q].file = proc[q].file
        /\ proc'[q].doc = proc[q].doc
    BY <1>1, <2>0, OthersStay DEF Fields
  <2>2. ASSUME NEW r, Becomes(p, r) PROVE proc'[q].fd = proc[q].fd
    BY <1>1, <2>2, OneMoves DEF TypeOK
  <2>3. CASE Rename(p) /\ proc[q].file # proc[p].file
    <3>1. proc'[q] = [proc[q] EXCEPT !.fd = proc[q].fd]
      BY <1>1, <2>3 DEF Rename, Moved
    <3>2. proc'[q].fd = proc[q].fd
      BY <2>0, <3>1 DEF Fields
    <3> QED
      BY <2>1, <3>2 DEF InSave
  <2>4. CASE ~Rename(p)
    <3>1. Save(p) => proc'[q].fd = proc[q].fd
      BY <2>2, <2>4 DEF Save, OpenFails, OpenTmp, Write, WriteFails, RenameFails
    <3>2. Health(p) => proc'[q].fd = proc[q].fd
      BY <2>2 DEF Health, StartHealth, NoRefresh, Refresh, SkipCount, CountRun
    <3>3. Update(p) => proc'[q].fd = proc[q].fd
      BY <2>2 DEF Update, StartUpdate, UpdateCache, GiveUp, FetchSums, Stage, Download,
                  DownloadFails, Reject, Install
    <3>4. Kill(p) => proc'[q].fd = proc[q].fd
      BY <2>2 DEF Kill
    <3> QED
      BY <2>1, <3>1, <3>2, <3>3, <3>4 DEF InSave
  <2> QED
    BY <2>1, <2>3, <2>4 DEF InSave
<1>2. proc[p] \in Fields /\ proc[p] \in Process /\ proc \in [Procs -> Process]
  BY DEF TypeOK, Process
<1>3. /\ Returned(proc[p]).file = "none"
      /\ \A how \in Ended : Gone(how).file = "none"
  BY <1>2, ReturnedIs, GoneIs
<1>4. OpenTmp(p) => /\ proc'[p] = [proc[p] EXCEPT !.pc = "opened", !.fd = "tmp"]
                    /\ proc'[p].pc = "opened" /\ proc'[p].file = proc[p].file
  <2> SUFFICES ASSUME OpenTmp(p) PROVE proc'[p] = [proc[p] EXCEPT !.pc = "opened", !.fd = "tmp"]
    BY <1>2 DEF Fields
  <2> QED
    BY <1>2, OneMoves DEF OpenTmp
<1>5. Write(p) => /\ proc'[p] = [proc[p] EXCEPT !.pc = "written", !.fd = "none"]
                  /\ proc'[p].pc = "written" /\ proc'[p].file = proc[p].file
  <2> SUFFICES ASSUME Write(p) PROVE proc'[p] = [proc[p] EXCEPT !.pc = "written", !.fd = "none"]
    BY <1>2 DEF Fields
  <2> QED
    BY <1>2, OneMoves DEF Write
<1> DEFINE Ends == OpenFails(p) \/ WriteFails(p) \/ Rename(p) \/ RenameFails(p)
<1>6. Ends => proc'[p].file = "none" /\ proc[p].file # "none"
  <2>1. ASSUME Ends PROVE proc'[p] = Returned(proc[p])
    BY <1>2, <2>1, OneMoves DEF OpenFails, WriteFails, Rename, RenameFails
  <2>2. ASSUME Ends PROVE proc[p].pc \in Saving
    BY <2>2 DEF OpenFails, WriteFails, Rename, RenameFails, Saving
  <2> QED
    BY <1>2, <1>3, <2>1, <2>2 DEF Process, Files
<1>7. ~(Ends /\ (OpenTmp(p) \/ Write(p))) /\ ~(OpenTmp(p) /\ Write(p))
  BY <1>4, <1>5, <1>6
<1>8. CASE OpenTmp(p)
  BY <1>1, <1>4, <1>7, <1>8 DEF InSave, Save
<1>9. CASE Write(p)
  <2>1. proc[p].pc = "opened" /\ ~Rename(p)
    BY <1>9 DEF Write, Rename
  <2> QED
    BY <1>1, <1>5, <1>7, <1>9, <2>1 DEF InSave, Save
<1>10. CASE Ends
  <2>1. p \notin InSave(f)'
    BY <1>6, <1>10 DEF InSave, Files
  <2> QED
    BY <1>1, <1>7, <1>10, <2>1 DEF InSave, Save
<1>11. CASE ~Save(p)
  <2>1. p \notin InSave(f)'
    <3>0. ASSUME NEW r, Becomes(p, r), r.pc \notin {"opened", "written"} \/ r.file = "none"
          PROVE  p \notin InSave(f)'
      BY <1>2, <3>0, OneMoves DEF InSave, Files
    <3>1. CASE Health(p)
      <4>1. /\ [proc[p] EXCEPT !.pc = "ran", !.ver = exe, !.mem = Loaded, !.next = "nudged"].pc = "ran"
            /\ [proc[p] EXCEPT !.pc = "nudged"].pc = "nudged"
            /\ [proc[p] EXCEPT !.pc = "save", !.file = "cache", !.doc = latest].pc = "save"
            /\ [proc[p] EXCEPT !.pc = "save", !.file = "state",
                               !.doc = proc[p].mem + 1, !.next = "done"].pc = "save"
        BY <1>2 DEF Fields
      <4> QED
        BY <1>3, <3>0, <3>1, <4>1
        DEF Health, StartHealth, NoRefresh, Refresh, SkipCount, CountRun, Ended
    <3>2. CASE Update(p)
      <4>1. /\ [proc[p] EXCEPT !.pc = "asked", !.ver = exe, !.rel = latest].pc = "asked"
            /\ [proc[p] EXCEPT !.pc = "save", !.file = "cache", !.doc = latest].pc = "save"
            /\ [proc[p] EXCEPT !.pc = "staging"].pc = "staging"
            /\ \A x : [proc[p] EXCEPT !.pc = "summed", !.sum = x].pc = "summed"
            /\ \A x : [proc[p] EXCEPT !.pc = "staged", !.bytes = x].pc = "staged"
        BY <1>2 DEF Fields
      <4>2. CASE FetchSums(p) \/ Download(p)
        <5>1. PICK x : \/ Becomes(p, [proc[p] EXCEPT !.pc = "summed", !.sum = x])
                       \/ Becomes(p, [proc[p] EXCEPT !.pc = "staged", !.bytes = x])
          BY <4>2 DEF FetchSums, Download
        <5> QED
          BY <3>0, <4>1, <5>1
      <4> QED
        BY <1>3, <3>0, <3>2, <4>1, <4>2
        DEF Update, StartUpdate, UpdateCache, GiveUp, Stage, DownloadFails, Reject, Install, Ended
    <3>3. CASE Kill(p)
      BY <1>3, <3>0, <3>3 DEF Kill, Ended
    <3> QED
      BY <1>11, <3>1, <3>2, <3>3
  <2>2. ~OpenTmp(p) /\ ~Write(p) /\ ~Ends
    BY <1>11 DEF Save
  <2> QED
    BY <1>1, <2>1, <2>2 DEF InSave
<1> QED
  BY <1>8, <1>9, <1>10, <1>11 DEF Save

\* Two saves that never overlapped: at most one is under way, through a file of its
\* own that is empty until it is written whole.
Lone(f) ==
  f \notin raced =>
    /\ disk[f].path.text # "part"
    /\ \A p, q \in InSave(f) : p = q
    /\ \A p \in InSave(f) :
         /\ proc[p].pc = "opened" => proc[p].fd = "tmp" /\ disk[f].tmp = Empty
         /\ proc[p].pc = "written" => disk[f].tmp.text = "whole"

LoneInv == \A f \in Files : Lone(f)

LEMMA LoneKept ==
  ASSUME TypeOK, NEW f \in Files, Lone(f), NEW p \in Procs,
         Save(p) \/ Health(p) \/ Update(p) \/ Kill(p)
  PROVE  Lone(f)'
<1>1. CASE ~(Save(p) /\ proc[p].file = f)
  <2>1. /\ InSave(f)' \subseteq InSave(f)
        /\ \A q \in InSave(f)' : proc'[q].pc = proc[q].pc /\ proc'[q].fd = proc[q].fd
        /\ disk'[f] = disk[f] /\ raced \subseteq raced'
    BY <1>1, SaversMove, DiskStays
  <2> QED
    BY <2>1 DEF Lone
<1>2. CASE Save(p) /\ proc[p].file = f
  <2> SUFFICES ASSUME f \notin raced' PROVE Lone(f)'
    BY DEF Lone
  <2>0. /\ proc[p] \in Fields /\ f \notin raced
        /\ disk \in [Files -> [path : Content, tmp : Content]]
    BY <1>2 DEF TypeOK, Process, Save, OpenFails, OpenTmp, Write, WriteFails, Rename, RenameFails
  <2>1. CASE OpenFails(p) \/ RenameFails(p)
    <3>1. InSave(f)' = InSave(f) \ {p} /\ disk' = disk
      BY <1>2, <2>1, SaversMove DEF OpenFails, RenameFails
    <3>2. InSave(f)' = {} \/ OpenFails(p)
      BY <1>2, <2>0, <2>1, <3>1 DEF Lone, RenameFails, InSave
    <3>3. OpenFails(p) => \A q \in InSave(f)' : proc'[q] = proc[q]
      BY <2>0, <3>1, OneMoves DEF OpenFails, TypeOK, InSave
    <3> QED
      BY <2>0, <3>1, <3>2, <3>3 DEF Lone
  <2>2. CASE OpenTmp(p)
    <3>1. InSave(f) = {}
      BY <1>2, <2>0, <2>2 DEF OpenTmp
    <3>2. InSave(f)' = {p} /\ proc'[p] = [proc[p] EXCEPT !.pc = "opened", !.fd = "tmp"]
      BY <1>2, <2>2, <3>1, SaversMove
    <3>3. proc'[p].pc = "opened" /\ proc'[p].fd = "tmp"
      BY <2>0, <3>2 DEF Fields
    <3>4. disk'[f].path = disk[f].path /\ disk'[f].tmp = Empty
      BY <1>2, <2>0, <2>2 DEF OpenTmp
    <3> QED
      BY <2>0, <3>2, <3>3, <3>4 DEF Lone
  <2>3. CASE Write(p)
    <3>1. InSave(f)' = InSave(f) /\ p \in InSave(f)
      BY <1>2, <2>3, SaversMove
    <3>2. proc[p].fd = "tmp" /\ disk[f].tmp = Empty
      BY <2>0, <2>3, <3>1 DEF Lone, Write
    <3>3. PICK n \in Lens : disk' = OnDisk(p, Over(Opened(p), n, proc[p].doc))
      BY <2>3 DEF Write
    <3>4. Over(Opened(p), n, proc[p].doc).text = "whole"
      BY <1>2, <3>2, LensAssumption DEF Opened, Over, Empty
    <3>5. disk'[f].path = disk[f].path /\ disk'[f].tmp.text = "whole"
      BY <1>2, <2>0, <3>2, <3>3, <3>4 DEF OnDisk
    <3>6. proc'[p].pc = "written"
      <4>1. proc'[p] = [proc[p] EXCEPT !.pc = "written", !.fd = "none"]
        BY <1>2, <2>3, SaversMove
      <4> QED
        BY <2>0, <4>1 DEF Fields
    <3> QED
      BY <2>0, <3>1, <3>5, <3>6 DEF Lone
  <2>4. CASE WriteFails(p)
    <3>1. p \in InSave(f)
      BY <1>2, <2>4 DEF WriteFails, InSave
    <3>2. InSave(f)' = {}
      BY <1>2, <2>0, <2>4, <3>1, SaversMove DEF Lone
    <3>3. proc[p].fd = "tmp"
      BY <2>0, <2>4, <3>1 DEF Lone, WriteFails
    <3>4. disk'[f].path = disk[f].path
      BY <1>2, <2>0, <2>4, <3>3 DEF WriteFails, OnDisk
    <3> QED
      BY <2>0, <3>2, <3>4 DEF Lone
  <2>5. CASE Rename(p)
    <3>1. p \in InSave(f)
      BY <1>2, <2>5 DEF Rename, InSave
    <3>2. InSave(f)' = {}
      BY <1>2, <2>0, <2>5, <3>1, SaversMove DEF Lone
    <3>3. disk[f].tmp.text = "whole"
      BY <2>0, <2>5, <3>1 DEF Lone, Rename
    <3>4. disk'[f].path = disk[f].tmp
      BY <1>2, <2>0, <2>5 DEF Rename
    <3> QED
      BY <3>2, <3>3, <3>4 DEF Lone
  <2> QED
    BY <1>2, <2>1, <2>2, <2>3, <2>4, <2>5 DEF Save
<1> QED
  BY <1>1, <1>2

\* Without an overlap no crash, short write or leftover makes a file unreadable.
THEOREM AtomicWithoutOverlap == Spec => []SavesAreAtomic
<1>1. Init => LoneInv
  <2> SUFFICES ASSUME Init, NEW f \in Files PROVE Lone(f)
    BY DEF LoneInv
  <2>1. PICK start \in [Files -> {None, Empty, [text |-> "whole", len |-> 1, val |-> 1]}] :
          /\ disk = [g \in Files |-> [path |-> start[g], tmp |-> None]]
          /\ raced = {g \in Files : start[g] = Empty}
    BY DEF Init
  <2>2. f \notin raced => disk[f].path.text # "part"
    BY <2>1 DEF None
  <2>3. InSave(f) = {}
    BY DEF Init, InSave, NotStarted
  <2> QED
    BY <2>2, <2>3 DEF Lone
<1>2. TypeOK /\ LoneInv /\ [Next]_vars => LoneInv'
  <2> SUFFICES ASSUME TypeOK, LoneInv, [Next]_vars, NEW f \in Files PROVE Lone(f)'
    BY DEF LoneInv
  <2>1. CASE UNCHANGED <<proc, disk, raced>>
    BY <2>1 DEF LoneInv, Lone, InSave
  <2> QED
    BY <2>1, LoneKept DEF Next, Publish, Idle, vars, LoneInv
<1>3. LoneInv => SavesAreAtomic
  BY DEF LoneInv, Lone, SavesAreAtomic
<1> QED
  BY <1>1, <1>2, <1>3, TypeCorrect, PTL DEF Spec

-------------------------------------------------------------------------------
\* Whether a process holds a state depends on this of its record.
Holds(r) ==
  /\ r.pc \in {"ran", "nudged"} \cup Saving
  /\ r.next = "nudged" \/ r.file = "state"
  /\ r.mem # Unreadable

\* Only the start of a run makes a process hold a state; the end of the save of
\* the state makes it let go.
LEMMA HoldersMove ==
  ASSUME TypeOK, ShapedInv, NEW p \in Procs, Save(p) \/ Health(p) \/ Update(p) \/ Kill(p)
  PROVE  /\ \A q \in Holding' : q # p => q \in Holding /\ proc'[q].mem = proc[q].mem
         /\ p \in Holding' =>
              \/ p \in Holding /\ proc'[p].mem = proc[p].mem
              \/ StartHealth(p) /\ proc'[p].mem = Loaded /\ Loaded # Unreadable
         /\ Save(p) /\ proc[p].file = "state" =>
              OpenTmp(p) \/ Write(p) \/ p \notin Holding'
<1>1. ASSUME NEW q \in Holding', q # p
      PROVE  q \in Holding /\ proc'[q].mem = proc[q].mem
  <2> q \in Procs
    BY DEF Holding
  <2>0. proc[q] \in Fields
    BY DEF TypeOK, Process
  <2>1. /\ proc'[q].pc = proc[q].pc /\ proc'[q].file = proc[q].file
        /\ proc'[q].mem = proc[q].mem /\ proc'[q].next = proc[q].next
    BY <1>1, <2>0, OthersStay DEF Fields
  <2> QED
    BY <1>1, <2>1 DEF Holding
<1>2. /\ proc[p] \in Fields /\ proc[p] \in Process /\ proc \in [Procs -> Process]
      /\ Shaped(proc[p])
  BY DEF TypeOK, Process, ShapedInv
<1>3. (p \in Holding <=> Holds(proc[p])) /\ (p \in Holding' <=> Holds(proc'[p]))
  BY DEF Holding, Holds
<1>4. ASSUME NEW r, Becomes(p, r)
      PROVE  proc'[p] = r
  BY <1>2, <1>4, OneMoves
<1>5. /\ Holds(Returned(proc[p])) => proc[p].next = "nudged" /\ Returned(proc[p]).mem = proc[p].mem
      /\ \A how \in Ended : ~Holds(Gone(how))
  BY <1>2, ReturnedIs, GoneIs DEF Holds, Ended, Saving, Process, Fields
<1>6. CASE Save(p)
  <2>1. proc[p].pc \in Saving
    BY <1>6 DEF Save, OpenFails, OpenTmp, Write, WriteFails, Rename, RenameFails, Saving
  <2>2. ASSUME OpenFails(p) \/ WriteFails(p) \/ Rename(p) \/ RenameFails(p)
        PROVE  proc'[p] = Returned(proc[p])
    BY <1>2, <1>4, <2>2 DEF OpenFails, WriteFails, Rename, RenameFails
  <2>3. OpenTmp(p) => /\ proc'[p].pc \in Saving /\ proc'[p].next = proc[p].next
                      /\ proc'[p].file = proc[p].file /\ proc'[p].mem = proc[p].mem
    <3> SUFFICES ASSUME OpenTmp(p) PROVE proc'[p] = [proc[p] EXCEPT !.pc = "opened", !.fd = "tmp"]
      BY <1>2 DEF Fields, Saving
    <3> QED
      BY <1>4 DEF OpenTmp
  <2>4. Write(p) => /\ proc'[p].pc \in Saving /\ proc'[p].next = proc[p].next
                    /\ proc'[p].file = proc[p].file /\ proc'[p].mem = proc[p].mem
    <3> SUFFICES ASSUME Write(p) PROVE proc'[p] = [proc[p] EXCEPT !.pc = "written", !.fd = "none"]
      BY <1>2 DEF Fields, Saving
    <3> QED
      BY <1>4 DEF Write
  <2>5. p \in Holding' => p \in Holding /\ proc'[p].mem = proc[p].mem
    <3>1. Holds(Returned(proc[p])) => Holds(proc[p])
      BY <1>2, <1>5, <2>1, ReturnedIs DEF Holds
    <3>2. OpenTmp(p) \/ Write(p) => (Holds(proc'[p]) => Holds(proc[p]))
      BY <2>1, <2>3, <2>4 DEF Holds
    <3> QED
      BY <1>3, <1>5, <1>6, <2>2, <2>3, <2>4, <3>1, <3>2 DEF Save
  <2>6. proc[p].file = "state" => OpenTmp(p) \/ Write(p) \/ p \notin Holding'
    BY <1>2, <1>3, <1>5, <1>6, <2>1, <2>2 DEF Save, Shaped
  <2> QED
    BY <1>1, <2>5, <2>6
<1>7. CASE Health(p) /\ ~Save(p)
  <2>1. CASE StartHealth(p)
    <3>1. proc'[p] = [proc[p] EXCEPT !.pc = "ran", !.ver = exe, !.mem = Loaded, !.next = "nudged"]
      BY <1>4, <2>1 DEF StartHealth
    <3>2. proc'[p].mem = Loaded
      BY <1>2, <3>1 DEF Fields
    <3> QED
      BY <1>1, <1>3, <1>7, <2>1, <3>2 DEF Holds
  <2>2. CASE NoRefresh(p)
    <3>1. proc'[p] = [proc[p] EXCEPT !.pc = "nudged"]
      BY <1>4, <2>2 DEF NoRefresh
    <3>2. proc'[p].mem = proc[p].mem /\ proc[p].pc = "ran" /\ proc[p].next = "nudged"
      BY <1>2, <2>2, <3>1 DEF Fields, NoRefresh, Shaped
    <3> QED
      BY <1>1, <1>3, <1>7, <3>2 DEF Holds
  <2>3. CASE Refresh(p)
    <3>1. proc'[p] = [proc[p] EXCEPT !.pc = "save", !.file = "cache", !.doc = latest]
      BY <1>4, <2>3 DEF Refresh
    <3>2. proc'[p].mem = proc[p].mem /\ proc[p].pc = "ran" /\ proc[p].next = "nudged"
      BY <1>2, <2>3, <3>1 DEF Fields, Refresh, Shaped
    <3> QED
      BY <1>1, <1>3, <1>7, <3>2 DEF Holds
  <2>4. CASE SkipCount(p)
    <3>1. proc'[p] = Gone("done")
      BY <1>4, <2>4 DEF SkipCount
    <3> QED
      BY <1>1, <1>3, <1>5, <1>7, <3>1 DEF Ended
  <2>5. CASE CountRun(p)
    <3>1. proc'[p] = [proc[p] EXCEPT !.pc = "save", !.file = "state",
                                     !.doc = proc[p].mem + 1, !.next = "done"]
      BY <1>4, <2>5 DEF CountRun
    <3>2. proc'[p].mem = proc[p].mem /\ proc[p].pc = "nudged" /\ proc[p].next = "nudged"
      BY <1>2, <2>5, <3>1 DEF Fields, CountRun, Shaped
    <3> QED
      BY <1>1, <1>3, <1>7, <3>2 DEF Holds
  <2> QED
    BY <1>7, <2>1, <2>2, <2>3, <2>4, <2>5 DEF Health
<1>8. CASE (Update(p) \/ Kill(p)) /\ ~Save(p)
  <2>1. ~Holds(proc'[p])
    <3>0. ASSUME NEW r, Becomes(p, r), ~Holds(r) PROVE ~Holds(proc'[p])
      BY <1>4, <3>0
    <3>1. CASE Kill(p)
      BY <1>5, <3>0, <3>1 DEF Kill, Ended
    <3>2. CASE Update(p)
      <4>1. /\ ~Holds([proc[p] EXCEPT !.pc = "asked", !.ver = exe, !.rel = latest])
            /\ ~Holds([proc[p] EXCEPT !.pc = "staging"])
            /\ \A x : ~Holds([proc[p] EXCEPT !.pc = "summed", !.sum = x])
            /\ \A x : ~Holds([proc[p] EXCEPT !.pc = "staged", !.bytes = x])
        BY <1>2 DEF Fields, Holds, Saving
      <4>2. CASE UpdateCache(p)
        <5>1. [proc[p] EXCEPT !.pc = "save", !.file = "cache", !.doc = latest].next = "done"
          BY <1>2, <4>2 DEF UpdateCache, Shaped, Fields
        <5>2. [proc[p] EXCEPT !.pc = "save", !.file = "cache", !.doc = latest].file = "cache"
          BY <1>2 DEF Fields
        <5> QED
          BY <3>0, <4>2, <5>1, <5>2 DEF UpdateCache, Holds
      <4>3. CASE FetchSums(p) \/ Download(p)
        <5>1. PICK x : \/ Becomes(p, [proc[p] EXCEPT !.pc = "summed", !.sum = x])
                       \/ Becomes(p, [proc[p] EXCEPT !.pc = "staged", !.bytes = x])
          BY <4>3 DEF FetchSums, Download
        <5> QED
          BY <3>0, <4>1, <5>1
      <4> QED
        BY <1>5, <3>0, <3>2, <4>1, <4>2, <4>3
        DEF Update, StartUpdate, GiveUp, Stage, DownloadFails, Reject, Install, Ended
    <3> QED
      BY <1>8, <3>1, <3>2
  <2> QED
    BY <1>1, <1>3, <1>8, <2>1
<1> QED
  BY <1>6, <1>7, <1>8

\* While health runs do not overlap, the one that is under way holds the count that
\* is on file, and saves the next.
Counting ==
  "runs" \notin raced =>
    /\ \A p, q \in Holding : p = q
    /\ disk["state"].path.text = "part" => Holding = {}
    /\ disk["state"].path.text # "part" => disk["state"].path.val = counted
    /\ \A p \in Holding : proc[p].mem = counted
    /\ \A p \in InSave("state") :
         /\ proc[p].pc = "opened" => proc[p].fd = "tmp" /\ disk["state"].tmp = Empty
         /\ proc[p].pc = "written" => /\ disk["state"].tmp.text = "whole"
                                      /\ disk["state"].tmp.val = proc[p].doc

LEMMA CountingKept ==
  ASSUME TypeOK, ShapedInv, Counting, NEW p \in Procs,
         Save(p) \/ Health(p) \/ Update(p) \/ Kill(p)
  PROVE  Counting'
<1> SUFFICES ASSUME "runs" \notin raced' PROVE Counting'
  BY DEF Counting
<1> DEFINE st == disk["state"]
<1>0. /\ "state" \in Files /\ proc[p] \in Fields /\ proc \in [Procs -> Process]
      /\ disk \in [Files -> [path : Content, tmp : Content]] /\ counted \in Nat
  BY DEF Files, TypeOK, Process
<1>1. "runs" \notin raced
  <2>1. raced \subseteq raced'
    BY DEF Save, OpenFails, OpenTmp, Write, WriteFails, Rename, RenameFails, Kill,
           Health, StartHealth, NoRefresh, Refresh, SkipCount, CountRun,
           Update, StartUpdate, UpdateCache, GiveUp, FetchSums, Stage, Download,
           DownloadFails, Reject, Install
  <2> QED
    BY <2>1
<1>2. CASE ~(Save(p) /\ proc[p].file = "state")
  <2>1. /\ disk'["state"] = disk["state"]
        /\ InSave("state")' \subseteq InSave("state")
        /\ \A q \in InSave("state")' : /\ proc'[q].pc = proc[q].pc /\ proc'[q].fd = proc[q].fd
                                       /\ proc'[q].doc = proc[q].doc
    <3>1. disk'["state"] = disk["state"]
      BY <1>0, <1>2, DiskStays
    <3>2. /\ InSave("state")' \subseteq InSave("state")
          /\ \A q \in InSave("state")' : /\ proc'[q].pc = proc[q].pc /\ proc'[q].fd = proc[q].fd
                                         /\ proc'[q].doc = proc[q].doc
      BY <1>0, <1>2, SaversMove
    <3> QED
      BY <3>1, <3>2
  <2>2. counted' = counted
    BY <1>2 DEF Save, OpenFails, OpenTmp, Write, WriteFails, Rename, RenameFails, Kill,
           Health, StartHealth, NoRefresh, Refresh, SkipCount, CountRun,
           Update, StartUpdate, UpdateCache, GiveUp, FetchSums, Stage, Download,
           DownloadFails, Reject, Install
  <2>3. /\ \A q \in InSave("state")' :
             /\ proc'[q].pc = "opened" => proc'[q].fd = "tmp" /\ disk'["state"].tmp = Empty
             /\ proc'[q].pc = "written" => /\ disk'["state"].tmp.text = "whole"
                                           /\ disk'["state"].tmp.val = proc'[q].doc
        /\ disk'["state"].path.text # "part" => disk'["state"].path.val = counted'
    BY <1>1, <2>1, <2>2 DEF Counting
  <2>4. CASE StartHealth(p)
    <3>1. Holding = {}
      BY <1>1, <2>4 DEF StartHealth
    <3>2. \A q \in Holding' : q = p /\ proc'[p].mem = Loaded /\ Loaded # Unreadable
      BY <3>1, HoldersMove
    <3>3. Loaded # Unreadable => disk["state"].path.text # "part" /\ Loaded = counted
      BY <1>1 DEF Loaded, Counting
    <3> QED
      BY <2>1, <2>2, <2>3, <3>2, <3>3 DEF Counting
  <2>5. CASE ~StartHealth(p)
    <3>1. \A q \in Holding' : q \in Holding /\ proc'[q].mem = proc[q].mem
      BY <2>5, HoldersMove
    <3> QED
      BY <1>1, <2>1, <2>2, <2>3, <3>1 DEF Counting
  <2> QED
    BY <2>4, <2>5
<1>3. CASE Save(p) /\ proc[p].file = "state"
  <2>0. proc[p].pc \in Saving
    BY <1>3 DEF Save, OpenFails, OpenTmp, Write, WriteFails, Rename, RenameFails, Saving
  <2>1. p \in Holding /\ proc[p].doc = proc[p].mem + 1
    BY <1>3, <2>0, SaversHold
  <2>2. /\ Holding = {p} /\ disk["state"].path.text # "part"
        /\ disk["state"].path.val = counted /\ proc[p].mem = counted
    BY <1>1, <2>1 DEF Counting
  <2>3. \A q \in InSave("state") : q = p
    BY <2>2, SaversHold DEF InSave, Saving
  <2>4. \A q \in Holding' : q = p /\ proc'[q].mem = counted
    <3>1. ~StartHealth(p)
      BY <2>0 DEF StartHealth, Saving
    <3> QED
      BY <2>2, <3>1, HoldersMove
  <2>5. CASE OpenTmp(p)
    <3>1. /\ InSave("state")' = InSave("state") \cup {p}
          /\ proc'[p] = [proc[p] EXCEPT !.pc = "opened", !.fd = "tmp"]
      BY <1>0, <1>3, <2>5, SaversMove
    <3>2. proc'[p].pc = "opened" /\ proc'[p].fd = "tmp"
      BY <1>0, <3>1 DEF Fields
    <3>3. /\ disk'["state"].path = disk["state"].path /\ disk'["state"].tmp = Empty
          /\ counted' = counted
      BY <1>0, <1>3, <2>5 DEF OpenTmp
    <3> QED
      BY <2>2, <2>3, <2>4, <3>1, <3>2, <3>3 DEF Counting
  <2>6. CASE Write(p)
    <3>1. /\ InSave("state")' = InSave("state") /\ p \in InSave("state")
          /\ proc'[p] = [proc[p] EXCEPT !.pc = "written", !.fd = "none"]
      BY <1>0, <1>3, <2>6, SaversMove
    <3>2. proc'[p].pc = "written" /\ proc'[p].doc = proc[p].doc
      BY <1>0, <3>1 DEF Fields
    <3>3. proc[p].fd = "tmp" /\ disk["state"].tmp = Empty
      BY <1>1, <2>6, <3>1 DEF Counting, Write
    <3>4. PICK n \in Lens : disk' = OnDisk(p, Over(Opened(p), n, proc[p].doc))
      BY <2>6 DEF Write
    <3>5. Over(Opened(p), n, proc[p].doc) = [text |-> "whole", len |-> n, val |-> proc[p].doc]
      BY <1>3, <3>3, LensAssumption DEF Opened, Over, Empty
    <3>6. /\ disk'["state"].path = disk["state"].path
          /\ disk'["state"].tmp = [text |-> "whole", len |-> n, val |-> proc[p].doc]
          /\ counted' = counted
      BY <1>0, <1>3, <2>6, <3>3, <3>4, <3>5 DEF OnDisk, Write
    <3>7. /\ disk'["state"].tmp.text = "whole"
          /\ disk'["state"].tmp.val = proc'[p].doc
      BY <3>2, <3>6
    <3>8. /\ \A q, r \in Holding' : q = r
          /\ \A q \in Holding' : proc'[q].mem = counted'
      BY <2>4, <3>6
    <3>9. \A q \in InSave("state")' : q = p
      BY <2>3, <3>1
    <3> QED
      BY <2>2, <3>2, <3>6, <3>7, <3>8, <3>9 DEF Counting
  <2>7. CASE ~OpenTmp(p) /\ ~Write(p)
    <3>1. Holding' = {}
      <4>1. p \notin Holding'
        BY <1>3, <2>7, HoldersMove
      <4> QED
        BY <2>4, <4>1
    <3>2. InSave("state")' = {}
      BY <1>0, <1>3, <2>3, <2>7, SaversMove DEF Save
    <3>3. /\ disk'["state"].path.text # "part"
          /\ disk'["state"].path.val = counted'
      <4>1. CASE OpenFails(p) \/ RenameFails(p)
        BY <2>2, <4>1 DEF OpenFails, RenameFails
      <4>2. CASE WriteFails(p)
        <5>1. proc[p].fd = "tmp"
          BY <1>1, <1>3, <4>2 DEF Counting, WriteFails, InSave
        <5>2. disk'["state"].path = disk["state"].path /\ counted' = counted
          BY <1>0, <1>3, <4>2, <5>1 DEF WriteFails, OnDisk
        <5> QED
          BY <2>2, <5>2
      <4>3. CASE Rename(p)
        <5>1. /\ disk["state"].tmp.text = "whole"
              /\ disk["state"].tmp.val = proc[p].doc
          BY <1>1, <1>3, <4>3 DEF Counting, Rename, InSave
        <5>2. disk'["state"].path = disk["state"].tmp /\ counted' = counted + 1
          BY <1>0, <1>3, <4>3 DEF Rename
        <5> QED
          BY <2>1, <2>2, <5>1, <5>2
      <4> QED
        BY <1>3, <2>7, <4>1, <4>2, <4>3 DEF Save
    <3> QED
      BY <3>1, <3>2, <3>3 DEF Counting
  <2> QED
    BY <2>5, <2>6, <2>7
<1> QED
  BY <1>2, <1>3

\* Without an overlap of health runs no run is lost or counted twice, whatever the
\* other processes do and wherever a run is killed.
THEOREM EveryRunCounted == Spec => []RunsAreCounted
<1>1. Init => Counting
  <2> SUFFICES ASSUME Init PROVE Counting
    OBVIOUS
  <2>1. PICK start \in [Files -> {None, Empty, [text |-> "whole", len |-> 1, val |-> 1]}] :
          /\ disk = [f \in Files |-> [path |-> start[f], tmp |-> None]]
          /\ counted = start["state"].val
    BY DEF Init
  <2>2. InSave("state") = {} /\ Holding = {}
    BY DEF Init, InSave, Holding, NotStarted, Saving
  <2> QED
    BY <2>1, <2>2 DEF Counting, Files
<1>2. TypeOK /\ ShapedInv /\ Counting /\ [Next]_vars => Counting'
  <2> SUFFICES ASSUME TypeOK, ShapedInv, Counting, [Next]_vars PROVE Counting'
    OBVIOUS
  <2>1. CASE UNCHANGED <<proc, disk, raced, counted>>
    BY <2>1 DEF Counting, InSave, Holding
  <2> QED
    BY <2>1, CountingKept DEF Next, Publish, Idle, vars
<1>3. Counting => RunsAreCounted
  BY DEF Counting, RunsAreCounted
<1> QED
  BY <1>1, <1>2, <1>3, TypeCorrect, ShapedInvariant, PTL DEF Spec

===============================================================================
