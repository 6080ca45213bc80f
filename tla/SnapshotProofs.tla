----------------------------- MODULE SnapshotProofs ----------------------------
(***************************************************************************)
(* Theorems about the snapshots of runs: about Baseline, for any number of *)
(* processes, hosts and runs and any local time, and about RunReport, for  *)
(* any set of checks and any number of findings, whose outputs derive      *)
(* their answers by code of their own and agree.                           *)
(***************************************************************************)
EXTENDS Baseline, RunReport, WellFoundedInduction, TLAPS

-------------------------------------------------------------------------------
(* The files of a run: Baseline. *)

SnapFiles == [host : Hosts, stamp : 0..MaxWall, run : 1..MaxRuns]

\* A process that has begun has a number; once it has written its timestamped
\* file, a file of its host and second is there.
InFlight ==
  \A p \in Procs :
    /\ pc[p] # "idle" => run[p] \in 1..MaxRuns
    /\ pc[p] \in {"stamped", "rotating", "rotated"} =>
         \E f \in files : f.host = HostOf[p] /\ f.stamp = stamp[p]

IInv ==
  /\ TypeOK
  /\ InFlight
  /\ LatestOnlyLostMidSave
  /\ DiffNeverOlder
  /\ SomeRunKept
  /\ EveryCompletedRunOnFile

-------------------------------------------------------------------------------
LEMMA InvariantInitially == BaselineInit => IInv
<1> SUFFICES ASSUME BaselineInit PROVE IInv
  OBVIOUS
<1>1. /\ 0 \in 0..MaxRuns /\ 0 \in 0..MaxWall /\ 0 \in 0..MaxBacks
  BY BoundsAssumption
<1>2. TypeOK
  BY <1>1 DEF BaselineInit, TypeOK, Steps
<1> QED
  BY <1>2 DEF BaselineInit, IInv, InFlight, LatestOnlyLostMidSave, DiffNeverOlder,
              SomeRunKept, EveryCompletedRunOnFile

\* A step of one process keeps the types.
LEMMA TypeStep ==
  ASSUME TypeOK, InFlight, [BaselineNext]_baselineVars
  PROVE  TypeOK'
<1> USE BoundsAssumption, HostOfAssumption
        DEF TypeOK, Goto, Steps, snapVars, clockVars, diffVars, dirVars, doneVars
<1>1. ASSUME NEW p \in Procs, Begin(p) PROVE TypeOK'
  BY <1>1 DEF Begin
<1>2. ASSUME NEW p \in Procs, Diff(p) PROVE TypeOK'
  BY <1>2 DEF Diff
<1>3. ASSUME NEW p \in Procs, WriteStamped(p) PROVE TypeOK'
  <2>1. File(HostOf[p], stamp[p], run[p]) \in SnapFiles
    BY <1>3 DEF WriteStamped, InFlight, File, SnapFiles
  <2>2. /\ files' \subseteq SnapFiles
        /\ \A f, g \in files' : f.host = g.host /\ f.stamp = g.stamp => f = g
    BY <1>3, <2>1 DEF WriteStamped, Overwritten, File, SnapFiles
  <2> QED
    BY <1>3, <2>2 DEF WriteStamped, SnapFiles
<1>4. ASSUME NEW p \in Procs, StatLatest(p) \/ RotateFails(p) PROVE TypeOK'
  BY <1>4 DEF StatLatest, RotateFails
<1>5. ASSUME NEW p \in Procs, Rotate(p) PROVE TypeOK'
  BY <1>5 DEF Rotate
<1>6. ASSUME NEW p \in Procs, WriteLatest(p) PROVE TypeOK'
  <2>1. File(HostOf[p], stamp[p], run[p]) \in SnapFiles
    BY <1>6 DEF WriteLatest, InFlight, File, SnapFiles
  <2>2. done' \subseteq SnapFiles
    BY <1>6, <2>1 DEF WriteLatest, SnapFiles
  <2> QED
    BY <1>6, <2>2 DEF WriteLatest, SnapFiles
<1>7. ASSUME NEW p \in Procs, StopEarly(p) PROVE TypeOK'
  <2>1. interrupted' \in [Hosts -> BOOLEAN]
    BY <1>7 DEF StopEarly
  <2> QED
    BY <1>7, <2>1 DEF StopEarly
<1>8. CASE Tick \/ SetBack
  BY <1>8 DEF Tick, SetBack
<1>9. CASE UNCHANGED baselineVars
  BY <1>9 DEF baselineVars
<1> QED
  BY <1>1, <1>2, <1>3, <1>4, <1>5, <1>6, <1>7, <1>8, <1>9 DEF BaselineNext, Done

\* Writing a timestamped file leaves a file of every host and second that had
\* one, and of its own.
LEMMA StampedFile ==
  ASSUME NEW p \in Procs, WriteStamped(p)
  PROVE  /\ \A f \in files : \E g \in files' : g.host = f.host /\ g.stamp = f.stamp
         /\ \E g \in files' : g.host = HostOf[p] /\ g.stamp = stamp[p]
<1> DEFINE new == File(HostOf[p], stamp[p], run[p])
<1>1. new \in files' /\ new.host = HostOf[p] /\ new.stamp = stamp[p]
  BY DEF WriteStamped, File
<1>2. \A f \in files : f \in files' \/ (f.host = HostOf[p] /\ f.stamp = stamp[p])
  BY DEF WriteStamped, Overwritten
<1> HIDE DEF new
<1> QED
  BY <1>1, <1>2

\* The steps of SaveBaseline keep each process's file in place.
LEMMA InFlightStep ==
  ASSUME TypeOK, InFlight, [BaselineNext]_baselineVars
  PROVE  InFlight'
<1> USE HostOfAssumption, BoundsAssumption
        DEF InFlight, Goto, snapVars, clockVars, diffVars, dirVars, doneVars
<1>1. /\ pc \in [Procs -> Steps] /\ run \in [Procs -> 0..MaxRuns]
      /\ stamp \in [Procs -> 0..MaxWall] /\ runs \in 0..MaxRuns
  BY DEF TypeOK
<1>2. ASSUME NEW p \in Procs, Begin(p) PROVE InFlight'
  BY <1>1, <1>2 DEF Begin
<1>3. ASSUME NEW p \in Procs, Diff(p) \/ StatLatest(p) \/ Rotate(p) \/ RotateFails(p)
      PROVE  InFlight'
  BY <1>1, <1>3 DEF Diff, StatLatest, Rotate, RotateFails
<1>4. ASSUME NEW p \in Procs, WriteStamped(p) PROVE InFlight'
  <2>1. /\ \A f \in files : \E g \in files' : g.host = f.host /\ g.stamp = f.stamp
        /\ \E g \in files' : g.host = HostOf[p] /\ g.stamp = stamp[p]
    BY <1>4, StampedFile
  <2> QED
    BY <1>1, <1>4, <2>1 DEF WriteStamped
<1>5. ASSUME NEW p \in Procs, WriteLatest(p) \/ StopEarly(p) PROVE InFlight'
  BY <1>1, <1>5 DEF WriteLatest, StopEarly
<1>6. CASE Tick \/ SetBack \/ UNCHANGED baselineVars
  BY <1>6 DEF Tick, SetBack, baselineVars
<1> QED
  BY <1>2, <1>3, <1>4, <1>5, <1>6 DEF BaselineNext, Done

\* The latest file and its predecessor through a save.
LEMMA FilesStep ==
  ASSUME IInv, [BaselineNext]_baselineVars
  PROVE  LatestOnlyLostMidSave' /\ SomeRunKept' /\ DiffNeverOlder'
                                /\ EveryCompletedRunOnFile'
<1> DEFINE Goal == /\ LatestOnlyLostMidSave /\ SomeRunKept
                   /\ DiffNeverOlder /\ EveryCompletedRunOnFile
<1> USE HostOfAssumption
        DEF Goto, snapVars, clockVars, diffVars, dirVars, doneVars,
            LatestOnlyLostMidSave, SomeRunKept, DiffNeverOlder,
            EveryCompletedRunOnFile
<1>1. /\ pc \in [Procs -> Steps]
      /\ latest \in [Hosts -> 0..MaxRuns] /\ prev \in [Hosts -> 0..MaxRuns]
      /\ lastDone \in [Hosts -> 0..MaxRuns]
      /\ interrupted \in [Hosts -> BOOLEAN]
      /\ compared \in [Procs -> 0..MaxRuns] /\ seen \in [Procs -> 0..MaxRuns]
  BY DEF IInv, TypeOK
<1>2. Goal /\ InFlight
  BY DEF IInv
<1>3. ASSUME NEW p \in Procs, Begin(p) \/ Diff(p) PROVE Goal'
  BY <1>1, <1>2, <1>3 DEF Begin, Diff
<1>4. ASSUME NEW p \in Procs, StatLatest(p) \/ RotateFails(p) PROVE Goal'
  BY <1>1, <1>2, <1>4 DEF StatLatest, RotateFails
<1>5. ASSUME NEW p \in Procs, WriteStamped(p) PROVE Goal'
  <2>1. \A f \in files : \E g \in files' : g.host = f.host /\ g.stamp = f.stamp
    BY <1>5, StampedFile
  <2> QED
    BY <1>1, <1>2, <1>5, <2>1 DEF WriteStamped
<1>6. ASSUME NEW p \in Procs, Rotate(p) PROVE Goal'
  BY <1>1, <1>2, <1>6 DEF Rotate
<1>7. ASSUME NEW p \in Procs, WriteLatest(p) PROVE Goal'
  <2>1. run[p] # 0
    BY <1>2, <1>7 DEF WriteLatest, InFlight
  <2>2. EveryCompletedRunOnFile'
    BY <1>2, <1>7 DEF WriteLatest, InFlight, File
  <2> QED
    BY <1>1, <1>2, <1>7, <2>1, <2>2 DEF WriteLatest
<1>8. ASSUME NEW p \in Procs, StopEarly(p) PROVE Goal'
  <2>1. UNCHANGED <<files, done, latest, prev, lastDone, compared, seen>>
    BY <1>8 DEF StopEarly
  <2>2. \A q \in Procs : pc[q] = "rotated" => q = p \/ pc'[q] = "rotated"
    BY <1>1, <1>8 DEF StopEarly
  <2>3. \A h \in Hosts : interrupted[h] => interrupted'[h]
    BY <1>1, <1>8, Zenon DEF StopEarly
  <2>4. pc[p] = "rotated" => interrupted'[HostOf[p]]
    BY <1>1, <1>8, Zenon DEF StopEarly
  <2>5. ASSUME NEW h \in Hosts, latest'[h] # lastDone'[h]
        PROVE  /\ latest'[h] = 0
               /\ interrupted'[h] \/ \E q \in Procs : HostOf[q] = h /\ pc'[q] = "rotated"
    <3>1. /\ latest[h] = 0
          /\ interrupted[h] \/ \E q \in Procs : HostOf[q] = h /\ pc[q] = "rotated"
      BY <1>2, <2>1, <2>5
    <3>2. CASE interrupted[h]
      BY <2>1, <2>3, <3>1, <3>2
    <3>3. CASE \E q \in Procs : HostOf[q] = h /\ pc[q] = "rotated"
      <4>1. PICK q \in Procs : HostOf[q] = h /\ pc[q] = "rotated"
        BY <3>3
      <4>2. interrupted'[h] \/ pc'[q] = "rotated"
        BY <2>2, <2>4, <4>1
      <4> QED
        BY <2>1, <3>1, <4>1, <4>2
    <3> QED
      BY <3>1, <3>2, <3>3
  <2> QED
    BY <1>2, <2>1, <2>5
<1>9. ASSUME Tick \/ SetBack \/ UNCHANGED baselineVars PROVE Goal'
  BY <1>2, <1>9 DEF Tick, SetBack, baselineVars
<1> QED
  BY <1>3, <1>4, <1>5, <1>6, <1>7, <1>8, <1>9 DEF BaselineNext, Done

LEMMA Invariance == BaselineSpec => []IInv
<1>1. IInv /\ [BaselineNext]_baselineVars => IInv'
  BY TypeStep, InFlightStep, FilesStep DEF IInv
<1> QED
  BY <1>1, InvariantInitially, PTL DEF BaselineSpec

-------------------------------------------------------------------------------
\* The directory of snapshots keeps its type; in particular a name is that of
\* one file.
THEOREM TypeCorrect == BaselineSpec => []TypeOK
<1>1. IInv => TypeOK
  BY DEF IInv
<1> QED
  BY <1>1, Invariance, PTL

\* Whatever saves interleave, fail or die, HOST-latest.json is the run that
\* completed last or is missing because a save has stopped, or is, between its
\* two renames.
THEOREM LatestIsLastCompleted == BaselineSpec => []LatestOnlyLostMidSave
<1>1. IInv => LatestOnlyLostMidSave
  BY DEF IInv
<1> QED
  BY <1>1, Invariance, PTL

\* --diff reads the last completed run or nothing, never an older one.
THEOREM DiffReadsNothingOlder == BaselineSpec => []DiffNeverOlder
<1>1. IInv => DiffNeverOlder
  BY DEF IInv
<1> QED
  BY <1>1, Invariance, PTL

\* Once a run has completed, one of the two files holds a run.
THEOREM ARunIsKept == BaselineSpec => []SomeRunKept
<1>1. IInv => SomeRunKept
  BY DEF IInv
<1> QED
  BY <1>1, Invariance, PTL

\* Every completed run has a file of its host and second.
THEOREM CompletedRunsOnFile == BaselineSpec => []EveryCompletedRunOnFile
<1>1. IInv => EveryCompletedRunOnFile
  BY DEF IInv
<1> QED
  BY <1>1, Invariance, PTL

-------------------------------------------------------------------------------
(* What a run reports: RunReport. *)


\* What a run observed stays one of the possible results.
LEMMA RunsTyped == Spec => [](first \in Runs /\ second \in Runs)
<1>1. Init => first \in Runs /\ second \in Runs
  BY DEF Init
<1>2. first \in Runs /\ second \in Runs /\ [Next]_vars
        => (first \in Runs /\ second \in Runs)'
  BY DEF Next, Compare, Store, vars
<1> QED
  BY <1>1, <1>2, PTL DEF Spec

\* The parts of a result the outputs look at.
LEMMA ResultParts ==
  ASSUME NEW r \in Results
  PROVE  /\ r.kind \in Kinds
         /\ r.findings \in FindingLists
         /\ r.kind \notin {"unavailable", "present"} => r.findings = <<>>
         /\ UnverifiedIn(r) # {} => r.findings # <<>>
<1>1. /\ r.kind \in Kinds /\ r.findings \in FindingLists
      /\ r.kind \notin {"unavailable", "present"} => r.findings = <<>>
  BY DEF Results
<1>2. r.findings = <<>> => UnverifiedIn(r) = {}
  BY DEF UnverifiedIn, Indices
<1> QED
  BY <1>1, <1>2

\* A failed collector and nothing else makes an insight of its own.
LEMMA FailedInsight ==
  ASSUME NEW r
  PROVE  /\ r.kind = "failed" =>
              /\ Insights(r) # <<>> /\ 1 \in Indices(Insights(r))
              /\ Insights(r)[1] = CouldNotRun
              /\ Indices(Insights(r)) = {1}
         /\ r.kind # "failed" => Insights(r) = r.findings
BY DEF Insights, Indices

\* Something could not be read: as the verdict of a run sees it.
UnreadInsight(ran) == \E f \in AllInsights(ran) : f.sight = "unread"
UnreadCheck(ran) ==
  \E c \in DOMAIN ran :
    \/ ran[c].kind = "failed"
    \/ \E i \in Indices(ran[c].findings) : ran[c].findings[i].sight = "unread"

LEMMA UnreadInsights ==
  ASSUME NEW ran \in Runs
  PROVE  UnreadInsight(ran) <=> UnreadCheck(ran)
<1>1. ASSUME NEW c \in DOMAIN ran, ran[c].kind = "failed" PROVE UnreadInsight(ran)
  <2>1. /\ 1 \in Indices(Insights(ran[c]))
        /\ Insights(ran[c])[1].sight = "unread"
    BY <1>1, FailedInsight DEF CouldNotRun
  <2> QED
    BY <2>1 DEF UnreadInsight, AllInsights
<1>2. ASSUME NEW c \in DOMAIN ran, ran[c].kind # "failed",
             NEW i \in Indices(ran[c].findings),
             ran[c].findings[i].sight = "unread"
      PROVE  UnreadInsight(ran)
  <2>1. Insights(ran[c]) = ran[c].findings
    BY <1>2, FailedInsight
  <2> QED
    BY <1>2, <2>1 DEF UnreadInsight, AllInsights
<1>3. ASSUME UnreadInsight(ran) PROVE UnreadCheck(ran)
  <2>1. PICK c \in DOMAIN ran :
          \E i \in Indices(Insights(ran[c])) : Insights(ran[c])[i].sight = "unread"
    BY <1>3 DEF UnreadInsight, AllInsights
  <2> QED
    BY <2>1, FailedInsight DEF UnreadCheck
<1> QED
  BY <1>1, <1>2, <1>3 DEF UnreadCheck

\* An insight of a run is that of one check, and has a name.
LEMMA InsightOf ==
  ASSUME NEW ran \in Runs, NEW f \in AllInsights(ran)
  PROVE  \E c \in DOMAIN ran : \E i \in Indices(Insights(ran[c])) :
           f = Insights(ran[c])[i] /\ f.sub \in Subs
<1>1. PICK c \in DOMAIN ran : \E i \in Indices(Insights(ran[c])) : f = Insights(ran[c])[i]
  BY DEF AllInsights
<1>2. PICK i \in Indices(Insights(ran[c])) : f = Insights(ran[c])[i]
  BY <1>1
<1>3. CASE ran[c].kind = "failed"
  <2>1. f = CouldNotRun
    BY <1>2, <1>3, FailedInsight
  <2>2. f.sub \in Subs
    BY <2>1, WholeAssumption DEF CouldNotRun
  <2> QED
    BY <1>2, <2>2
<1>4. CASE ran[c].kind # "failed"
  <2>1. i \in DOMAIN ran[c].findings /\ f = ran[c].findings[i]
    BY <1>2, <1>4, FailedInsight DEF Indices
  <2>2. ran[c].findings \in FindingLists
    BY <1>1, ResultParts DEF Runs
  <2>3. PICK n \in 0..MaxFindings : ran[c].findings \in [1..n -> Findings]
    BY <2>2 DEF FindingLists
  <2>4. f \in Findings
    BY <2>1, <2>3
  <2> QED
    BY <1>2, <2>4 DEF Findings
<1> QED
  BY <1>3, <1>4

\* What the names of a set of insights are made of.
LEMMA Names ==
  ASSUME NEW ran \in Runs
  PROVE  /\ \A X, Y : NamesOf(ran, X \cup Y) = NamesOf(ran, X) \cup NamesOf(ran, Y)
         /\ NamesOf(ran, {}) = {}
         /\ \A X : X \cap AllInsights(ran) # {} => NamesOf(ran, X) # {}
<1>1. \A X, Y : NamesOf(ran, X \cup Y) = NamesOf(ran, X) \cup NamesOf(ran, Y)
  BY DEF NamesOf
<1>2. NamesOf(ran, {}) = {}
  BY DEF NamesOf
<1>3. ASSUME NEW X, NEW f \in X \cap AllInsights(ran) PROVE NamesOf(ran, X) # {}
  <2>1. PICK c \in DOMAIN ran : \E i \in Indices(Insights(ran[c])) :
          f = Insights(ran[c])[i] /\ f.sub \in Subs
    BY <1>3, InsightOf
  <2>2. <<c, f.sub>> \in (DOMAIN ran) \X Subs
    BY <2>1
  <2>3. <<c, f.sub>> \in NamesOf(ran, X)
    BY <1>3, <2>1, <2>2 DEF NamesOf
  <2> QED
    BY <2>3
<1> QED
  BY <1>1, <1>2, <1>3

\* The names of the checks that failed, and of what was not determined, are those
\* of the unread insights, and with the findings they are all of these.
LEMMA NotRunNames ==
  ASSUME NEW ran \in Runs
  PROVE  CritNames(ran) \cup WarnNames(ran) \cup FailedNames(ran) \cup UnverifiedNames(ran)
           = NamesOf(ran, AtLevel(ran, "CRIT") \cup AtLevel(ran, "WARN") \cup Unread(ran))
<1> DEFINE C == AtLevel(ran, "CRIT")
           W == AtLevel(ran, "WARN")
           U == {f \in Unread(ran) : f.level \notin {"CRIT", "WARN"}}
<1>1. FailedNames(ran) \subseteq NamesOf(ran, C \cup W \cup U)
  <2> SUFFICES ASSUME NEW c \in DOMAIN ran, ran[c].kind = "failed"
               PROVE  <<c, Whole>> \in NamesOf(ran, C \cup W \cup U)
    BY DEF FailedNames
  <2>1. 1 \in Indices(Insights(ran[c])) /\ Insights(ran[c])[1] = CouldNotRun
    BY FailedInsight
  <2>2. CouldNotRun \in AllInsights(ran)
    BY <2>1 DEF AllInsights
  <2>3. CouldNotRun.sub = Whole /\ CouldNotRun.level = "INFO" /\ CouldNotRun.sight = "unread"
    BY DEF CouldNotRun
  <2>4. CouldNotRun \in U
    BY <2>2, <2>3 DEF Unread
  <2>5. <<c, Whole>> \in (DOMAIN ran) \X Subs
    BY WholeAssumption
  <2> QED
    BY <2>1, <2>3, <2>4, <2>5 DEF NamesOf
<1>2. C \cup W \cup U = C \cup W \cup Unread(ran)
  BY DEF AtLevel, Unread
<1>3. NamesOf(ran, C \cup W \cup U) = NamesOf(ran, C) \cup NamesOf(ran, W) \cup NamesOf(ran, U)
  <2> HIDE DEF C, W, U
  <2>1. NamesOf(ran, (C \cup W) \cup U) = NamesOf(ran, C \cup W) \cup NamesOf(ran, U)
    BY Names
  <2>2. NamesOf(ran, C \cup W) = NamesOf(ran, C) \cup NamesOf(ran, W)
    BY Names
  <2> QED
    BY <2>1, <2>2
<1>4. /\ CritNames(ran) = NamesOf(ran, C)
      /\ WarnNames(ran) = NamesOf(ran, W) \ NamesOf(ran, C)
      /\ UnverifiedNames(ran) = NamesOf(ran, U)
  BY DEF CritNames, WarnNames, UnverifiedNames
<1> QED
  <2> HIDE DEF C, W, U
  <2>1. CritNames(ran) \cup WarnNames(ran) \cup FailedNames(ran) \cup UnverifiedNames(ran)
          = NamesOf(ran, C \cup W \cup Unread(ran))
    BY <1>1, <1>2, <1>3, <1>4
  <2> QED
    BY <2>1 DEF C, W

\* The exit code is that of the verdict, of the monitoring line and of every
\* policy: an error always comes with an insight that floors the verdict, and a
\* level a policy can deny is never hidden behind exit code 0.
THEOREM ExitCodeAgrees == Spec => []ExitCodesAgree
<1> DEFINE C == AtLevel(second, "CRIT")
           W == AtLevel(second, "WARN")
           U == Unread(second)
           code == ExitCode(VerdictOfInsights(second))
           line == NagiosStatus(second)
<1>1. second \in Runs => ExitCodesAgree
  <2> SUFFICES ASSUME second \in Runs PROVE ExitCodesAgree
    OBVIOUS
  <2>1. (\E c \in DOMAIN second : second[c].kind = "failed") => UnreadInsight(second)
    BY UnreadInsights DEF UnreadCheck
  <2>2. VerdictOfInsights(second) = Verdict(second)
    BY <2>1 DEF VerdictOfInsights, Verdict, UnreadInsight, LevelFromCounts
  <2>3. /\ C # {} => Verdict(second) = "CRIT"
        /\ C = {} /\ (W # {} \/ U # {}) => Verdict(second) = "WARN"
        /\ C = {} /\ W = {} /\ U = {} => Verdict(second) = "OK"
    BY <2>1 DEF Verdict, LevelFromCounts, AtLevel, Unread, UnreadInsight
  <2>4. /\ ExitCode("CRIT") = 2 /\ ExitCode("WARN") = 1 /\ ExitCode("OK") = 0
    BY DEF ExitCode
  <2>5. /\ C # {} => line.code = 2
        /\ C = {} /\ (W # {} \/ U # {}) => line.code = 1
        /\ C = {} /\ W = {} /\ U = {} => line.code = 0
    BY <2>3, <2>4 DEF NagiosStatus
  <2>6. line.names = NamesOf(second, C \cup W \cup U)
    <3>1. CritNames(second) \cup WarnNames(second) \cup FailedNames(second)
            \cup UnverifiedNames(second) = NamesOf(second, C \cup W \cup U)
      BY NotRunNames
    <3>2. /\ C = {} => CritNames(second) = {}
          /\ W = {} => WarnNames(second) = {}
      BY Names DEF CritNames, WarnNames
    <3>3. CASE C # {}
      BY <2>3, <3>1, <3>3 DEF NagiosStatus
    <3>4. CASE C = {} /\ W # {}
      BY <2>3, <3>1, <3>2, <3>4 DEF NagiosStatus
    <3>5. CASE C = {} /\ W = {} /\ U # {}
      BY <2>3, <3>1, <3>2, <3>5 DEF NagiosStatus
    <3>6. CASE C = {} /\ W = {} /\ U = {}
      <4>1. line.names = {}
        BY <2>3, <3>6 DEF NagiosStatus
      <4>2. C \cup W \cup U = {}
        BY <3>6
      <4> QED
        BY <4>1, <4>2, Names
    <3> QED
      BY <3>3, <3>4, <3>5, <3>6
  <2>7. code # 0 => line.names # {}
    <3>1. code # 0 => C # {} \/ W # {} \/ U # {}
      BY <2>2, <2>3, <2>4
    <3>2. C \cup W \cup U \subseteq AllInsights(second)
      BY DEF AtLevel, Unread
    <3>3. C \cup W \cup U # {} => NamesOf(second, C \cup W \cup U) # {}
      <4> HIDE DEF C, W, U
      <4> QED
        BY <3>2, Names
    <3> QED
      BY <2>6, <3>1, <3>3
  <2>8. ASSUME NEW deny \in SUBSET {"WARN", "CRIT"}
        PROVE  PolicyGate(deny, second, code) = code
    <3>1. code = 0 => \A f \in AllInsights(second) : f.level \notin {"CRIT", "WARN"}
      BY <2>2, <2>3, <2>4 DEF AtLevel
    <3>2. \A level : Denies(deny, level) => level \in {"CRIT", "WARN"}
      BY <2>8 DEF Denies
    <3> HIDE DEF code
    <3> QED
      BY <3>1, <3>2 DEF PolicyGate
  <2>9. code = ExitCode(Verdict(second)) /\ line.code = code
    BY <2>2, <2>3, <2>4, <2>5
  <2> QED
    BY <2>6, <2>7, <2>8, <2>9 DEF ExitCodesAgree
<1> QED
  BY <1>1, RunsTyped, PTL

\* The snapshot holds exactly the checks that Coverage does not call not
\* applicable.
THEOREM SnapshotAgrees == Spec => []SnapshotMirrorsCoverage
<1>1. ASSUME NEW r \in Results
      PROVE  Recorded(r) <=> CoverageOf(r) # "not_applicable"
  <2>1. CASE r.kind = "absent"
    BY <2>1 DEF Recorded, CoverageOf
  <2>2. CASE r.kind = "failed"
    BY <2>2, FailedInsight DEF Recorded, CoverageOf
  <2>3. CASE r.kind = "present"
    BY <2>3 DEF Recorded, CoverageOf
  <2>4. CASE r.kind = "gated"
    BY <2>4, ResultParts DEF Recorded, CoverageOf
  <2>5. CASE r.kind = "unavailable"
    BY <2>5, ResultParts, FailedInsight DEF Recorded, CoverageOf
  <2> QED
    BY <2>1, <2>2, <2>3, <2>4, <2>5, ResultParts DEF Kinds
<1>2. second \in Runs => SnapshotMirrorsCoverage
  <2> SUFFICES ASSUME second \in Runs PROVE SnapshotMirrorsCoverage
    OBVIOUS
  <2>1. DOMAIN second = Checks /\ \A c \in Checks : second[c] \in Results
    BY DEF Runs
  <2>2. DOMAIN BuildSnapshot(second) = {c \in Checks : Recorded(second[c])}
    BY <2>1 DEF BuildSnapshot
  <2> QED
    BY <1>1, <2>1, <2>2 DEF SnapshotMirrorsCoverage
<1> QED
  BY <1>2, RunsTyped, PTL

\* What Coverage counts, by the check it is about.
LEMMA ReasonsByCheck ==
  ASSUME NEW ran, NEW r
  PROVE  r \in Reasons(ran) <=>
           \E c \in DOMAIN ran :
             \/ \E i \in UnverifiedIn(ran[c]) : r = PartReason(ran, c, i)
             \/ CoverageOf(ran[c]) = "not_checked" /\ r = WholeReason(ran, c)
<1>1. r \in Reasons(ran) <=>
        \/ \E c \in DOMAIN ran : r \in PartReasons(ran, c)
        \/ \E c \in NotChecked(ran) : r = WholeReason(ran, c)
  BY DEF Reasons
<1>2. \A c : r \in PartReasons(ran, c) <=>
               \E i \in UnverifiedIn(ran[c]) : r = PartReason(ran, c, i)
  BY DEF PartReasons
<1>3. \A c : c \in NotChecked(ran) <=>
               c \in DOMAIN ran /\ CoverageOf(ran[c]) = "not_checked"
  BY DEF NotChecked
<1> QED
  BY <1>1, <1>2, <1>3, Zenon

\* An item of Coverage that floors the verdict stands for a check that failed or
\* has an unread finding, and each such check has one.
LEMMA FlooringItems ==
  ASSUME NEW ran \in Runs
  PROVE  (\E i \in Items(ran) : i.sight = "unread") <=> UnreadCheck(ran)
<1>1. \A r \in Reasons(ran) : r.sight = "unread" => r \in Items(ran)
  BY DEF Items
<1>2. Items(ran) \in SUBSET Reasons(ran)
  BY DEF Items
<1>3. ASSUME NEW c \in DOMAIN ran, ran[c].kind = "failed"
      PROVE  \E i \in Reasons(ran) : i.sight = "unread"
  <2>1. CoverageOf(ran[c]) = "not_checked"
    BY <1>3 DEF CoverageOf
  <2>2. WholeReason(ran, c) \in Reasons(ran)
    BY <2>1, ReasonsByCheck
  <2>3. WholeReason(ran, c).sight = "unread"
    BY <1>3 DEF WholeReason
  <2> QED
    BY <2>2, <2>3
<1>4. ASSUME NEW c \in DOMAIN ran, NEW i \in Indices(ran[c].findings),
             ran[c].findings[i].sight = "unread"
      PROVE  \E r \in Reasons(ran) : r.sight = "unread"
  <2>1. i \in UnverifiedIn(ran[c])
    BY <1>4 DEF UnverifiedIn
  <2>2. PartReason(ran, c, i) \in Reasons(ran)
    BY <2>1, ReasonsByCheck
  <2>3. PartReason(ran, c, i).sight = "unread"
    BY <1>4 DEF PartReason
  <2> QED
    BY <2>2, <2>3
<1>5. ASSUME NEW r \in Reasons(ran), r.sight = "unread" PROVE UnreadCheck(ran)
  <2>1. PICK c \in DOMAIN ran :
          \/ \E i \in UnverifiedIn(ran[c]) : r = PartReason(ran, c, i)
          \/ r = WholeReason(ran, c)
    BY <1>5, ReasonsByCheck
  <2>2. CASE \E i \in UnverifiedIn(ran[c]) : r = PartReason(ran, c, i)
    BY <1>5, <2>2 DEF UnreadCheck, UnverifiedIn, PartReason
  <2>3. CASE r = WholeReason(ran, c)
    BY <1>5, <2>3 DEF UnreadCheck, UnverifiedIn, WholeReason
  <2> QED
    BY <2>1, <2>2, <2>3
<1> QED
  BY <1>1, <1>2, <1>3, <1>4, <1>5 DEF UnreadCheck

\* The verdict and the coverage line agree on whether something was not looked
\* at.
THEOREM CoverageAgrees == Spec => []CoverageMatchesVerdict
<1>1. second \in Runs => CoverageMatchesVerdict
  <2> SUFFICES ASSUME second \in Runs PROVE CoverageMatchesVerdict
    OBVIOUS
  <2>1. /\ (\E i \in Items(second) : i.sight = "unread") <=> UnreadCheck(second)
        /\ UnreadInsight(second) <=> UnreadCheck(second)
    BY FlooringItems, UnreadInsights
  <2>2. (\E c \in DOMAIN second : second[c].kind = "failed") => UnreadCheck(second)
    BY DEF UnreadCheck
  <2> QED
    BY <2>1, <2>2
       DEF CoverageMatchesVerdict, Verdict, UnreadInsight, LevelFromCounts
<1> QED
  BY <1>1, RunsTyped, PTL

-------------------------------------------------------------------------------
(* Snapshots and diffs. *)

\* The ranks of the insights of a result.
RanksOf(r) == {Rank(Insights(r)[i].level) : i \in Indices(Insights(r))}

LEMMA Smallest ==
  ASSUME NEW T \in SUBSET Nat, T # {}
  PROVE  \E x \in T : \A y \in T : x <= y
<1> DEFINE Less == {p \in Nat \X Nat : p[1] < p[2]}
<1>1. Less = OpToRel(<, Nat)
  BY DEF OpToRel
<1>2. IsWellFoundedOn(Less, Nat)
  BY <1>1, NatLessThanWellFounded, Zenon
<1>3. PICK x \in T : \A y \in T : <<y, x>> \notin Less
  <2> HIDE DEF Less
  <2> QED
    BY <1>2, WFMin
<1>4. ASSUME NEW y \in T PROVE x <= y
  <2>1. ~(y < x)
    BY <1>3, <1>4
  <2> QED
    BY <2>1
<1> QED
  BY <1>4

LEMMA InsightsList ==
  ASSUME NEW r \in Results
  PROVE  \E n \in Nat : Insights(r) \in [1..n -> Findings]
<1>1. CASE r.kind = "failed"
  <2>1. CouldNotRun \in Findings
    BY WholeAssumption DEF CouldNotRun, Findings
  <2>2. Insights(r) \in [1..1 -> Findings]
    BY <1>1, <2>1 DEF Insights
  <2> QED
    BY <2>2
<1>2. CASE r.kind # "failed"
  <2>1. PICK n \in 0..MaxFindings : r.findings \in [1..n -> Findings]
    BY ResultParts DEF FindingLists
  <2> QED
    BY <1>2, <2>1, MaxFindingsAssumption DEF Insights
<1> QED
  BY <1>1, <1>2

LEMMA Ranks ==
  /\ Rank("CRIT") = 3 /\ Rank("WARN") = 2 /\ Rank("INFO") = 1 /\ Rank("OK") = 0
  /\ Rank("none") = 0 /\ Rank("absent") = 0
  /\ \A f \in Findings : f.level \in {"OK", "INFO", "WARN", "CRIT"} /\ Rank(f.level) \in 0..3
BY DEF Rank, Findings

\* The worst insight is one of them, and none is worse.
LEMMA Worst ==
  ASSUME NEW n \in Nat, NEW s \in [1..n -> Findings], n # 0
  PROVE  \E i \in 1..n : /\ WorstInsight(s) = s[i]
                         /\ \A j \in 1..n : Rank(s[j].level) <= Rank(s[i].level)
<1> DEFINE At(k) == {i \in 1..n : Rank(s[i].level) = k}
           Top(i) == /\ \A j \in Indices(s) : Rank(s[j].level) <= Rank(s[i].level)
                     /\ \A j \in Indices(s) : j < i => Rank(s[j].level) < Rank(s[i].level)
<1>1. /\ Indices(s) = 1..n /\ 1 \in 1..n
      /\ \A i \in 1..n : Rank(s[i].level) \in 0..3
  BY Ranks DEF Indices
<1>2. PICK k \in 0..3 : /\ At(k) # {}
                        /\ \A i \in 1..n : Rank(s[i].level) <= k
  <2>1. CASE At(3) # {}
    BY <1>1, <2>1
  <2>2. CASE At(3) = {} /\ At(2) # {}
    <3>1. \A i \in 1..n : Rank(s[i].level) <= 2
      BY <1>1, <2>2
    <3> QED
      BY <2>2, <3>1
  <2>3. CASE At(3) = {} /\ At(2) = {} /\ At(1) # {}
    <3>1. \A i \in 1..n : Rank(s[i].level) <= 1
      BY <1>1, <2>3
    <3> QED
      BY <2>3, <3>1
  <2>4. CASE At(3) = {} /\ At(2) = {} /\ At(1) = {}
    <3>1. \A i \in 1..n : Rank(s[i].level) = 0
      BY <1>1, <2>4
    <3>2. 1 \in At(0)
      BY <1>1, <3>1
    <3> QED
      BY <3>1, <3>2
  <2> QED
    BY <2>1, <2>2, <2>3, <2>4
<1>3. PICK i \in At(k) : \A j \in At(k) : i <= j
  <2>1. At(k) \in SUBSET Nat /\ At(k) # {}
    BY <1>2
  <2> HIDE DEF At
  <2> QED
    BY <2>1, Smallest
<1>4. Top(i)
  BY <1>1, <1>2, <1>3
<1>5. WorstInsight(s) = s[CHOOSE m \in Indices(s) : Top(m)]
  BY DEF WorstInsight
<1>6. i \in Indices(s)
  BY <1>1, <1>3
<1> HIDE DEF Top
<1>7. PICK m \in Indices(s) : m = (CHOOSE l \in Indices(s) : Top(l)) /\ Top(m)
  BY <1>4, <1>6
<1> QED
  BY <1>1, <1>5, <1>7 DEF Top

\* The status a snapshot stores is the worst of the insights, and its sight is
\* that of one of them; a check the snapshot leaves out has none.
LEMMA Stored ==
  ASSUME NEW r \in Results
  PROVE  LET entry == CheckResult(r) IN
         /\ entry.status \in {"OK", "INFO", "WARN", "CRIT"}
         /\ Rank(entry.status) \in 0..3
         /\ \A k \in RanksOf(r) : k \in 0..3 /\ k <= Rank(entry.status)
         /\ Insights(r) # <<>> =>
              /\ Rank(entry.status) \in RanksOf(r)
              /\ \E i \in Indices(Insights(r)) : entry.sight = Insights(r)[i].sight
         /\ Insights(r) = <<>> => RanksOf(r) = {} /\ Rank(entry.status) = 0
         /\ ~Recorded(r) => RanksOf(r) = {}
<1>1. PICK n \in Nat : Insights(r) \in [1..n -> Findings]
  BY InsightsList
<1>2. ~Recorded(r) => Insights(r) = <<>>
  BY ResultParts, FailedInsight DEF Recorded, Kinds
<1>3. CASE n = 0
  <2>1. Insights(r) = <<>>
    BY <1>1, <1>3
  <2>2. RanksOf(r) = {}
    BY <2>1 DEF RanksOf, Indices
  <2> QED
    BY <2>1, <2>2, Ranks DEF CheckResult
<1>4. CASE n # 0
  <2>1. Insights(r) # <<>> /\ Indices(Insights(r)) = 1..n
    BY <1>1, <1>4 DEF Indices
  <2>2. PICK i \in 1..n :
          /\ WorstInsight(Insights(r)) = Insights(r)[i]
          /\ \A j \in 1..n : Rank(Insights(r)[j].level) <= Rank(Insights(r)[i].level)
    BY <1>1, <1>4, Worst
  <2>3. CheckResult(r) = [status |-> Insights(r)[i].level, sight |-> Insights(r)[i].sight]
    BY <2>1, <2>2 DEF CheckResult
  <2>4. \A j \in 1..n : Insights(r)[j] \in Findings
    BY <1>1
  <2>5. /\ Insights(r)[i].level \in {"OK", "INFO", "WARN", "CRIT"}
        /\ \A j \in 1..n : Rank(Insights(r)[j].level) \in 0..3
    BY <2>4, Ranks
  <2>6. \A k \in RanksOf(r) : \E j \in 1..n : k = Rank(Insights(r)[j].level)
    BY <2>1 DEF RanksOf
  <2>7. Rank(Insights(r)[i].level) \in RanksOf(r)
    BY <2>1 DEF RanksOf
  <2> QED
    BY <1>2, <2>1, <2>2, <2>3, <2>5, <2>6, <2>7
<1> QED
  BY <1>3, <1>4

\* What a snapshot holds of a check.
LEMMA Snapshot ==
  ASSUME NEW ran \in Runs
  PROVE  /\ DOMAIN BuildSnapshot(ran) = {c \in Checks : Recorded(ran[c])}
         /\ \A c \in DOMAIN BuildSnapshot(ran) : BuildSnapshot(ran)[c] = CheckResult(ran[c])
         /\ \A c \in Checks : ran[c] \in Results
BY DEF BuildSnapshot, Runs

\* What a diff says of one check, and when it says something.
EntryFor(c, before, after) ==
  IF c \in DOMAIN after
  THEN IF c \in DOMAIN before THEN CommonEntry(c, before[c], after[c]) ELSE NewEntry(c, after[c])
  ELSE Entry(c, before[c].status, "absent", before[c].sight # "seen", TRUE, FALSE)
Spoken(c, before, after) ==
  c \in DOMAIN after \/ (c \in DOMAIN before /\ Rank(before[c].status) > 0)

LEMMA EntryParts ==
  ASSUME NEW c, NEW before, NEW after
  PROVE  LET e == EntryFor(c, before, after) IN
         /\ e.check = c
         /\ c \in DOMAIN after => e.to = after[c].status
         /\ c \notin DOMAIN after => e.to = "absent" /\ e.changed /\ ~e.improved
         /\ c \in DOMAIN before => e.from = before[c].status
         /\ c \in DOMAIN after /\ c \notin DOMAIN before =>
              e.from = "none" /\ (e.changed <=> Rank(e.to) > 0)
         /\ c \in DOMAIN after /\ c \in DOMAIN before =>
              /\ e.changed <=> e.from # e.to
              /\ after[c].sight # "seen" => ~e.improved
<1>1. CASE c \in DOMAIN after /\ c \in DOMAIN before
  BY <1>1 DEF EntryFor, CommonEntry, Entry
<1>2. CASE c \in DOMAIN after /\ c \notin DOMAIN before
  BY <1>2 DEF EntryFor, NewEntry, Entry
<1>3. CASE c \notin DOMAIN after
  BY <1>3 DEF EntryFor, Entry
<1> QED
  BY <1>1, <1>2, <1>3

LEMMA DiffOfACheck ==
  ASSUME NEW c, NEW before, NEW after
  PROVE  /\ Spoken(c, before, after) => EntryFor(c, before, after) \in ComputeDiff(before, after)
         /\ \A e \in ComputeDiff(before, after) :
              e.check = c => e = EntryFor(c, before, after) /\ Spoken(c, before, after)
<1>1. ASSUME NEW e
      PROVE  e \in ComputeDiff(before, after) <=>
               \E d : Spoken(d, before, after) /\ e = EntryFor(d, before, after)
  BY DEF ComputeDiff, Vanished, Spoken, EntryFor
<1>2. \A d : EntryFor(d, before, after).check = d
  BY EntryParts
<1> QED
  BY <1>1, <1>2, Zenon

\* The diff of a run that has been compared is that of the two snapshots.
LEMMA DiffComputed ==
  Spec => [](stage = "compared" => diff = ComputeDiff(BuildSnapshot(first), BuildSnapshot(second)))
<1> DEFINE Computed ==
      stage = "compared" => diff = ComputeDiff(BuildSnapshot(first), BuildSnapshot(second))
<1>1. Init => Computed
  BY DEF Init
<1>2. Computed /\ [Next]_vars => Computed'
  <2> SUFFICES ASSUME Computed, [Next]_vars PROVE Computed'
    OBVIOUS
  <2>1. CASE Compare
    BY <2>1 DEF Compare
  <2>2. CASE Store
    BY <2>2 DEF Store
  <2>3. CASE UNCHANGED vars
    BY <2>3 DEF vars
  <2> QED
    BY <2>1, <2>2, <2>3 DEF Next
<1> QED
  BY <1>1, <1>2, PTL DEF Spec

\* A check with a WARN or CRIT finding that the later run did not read, or did not
\* report, is in the diff and never counted as an improvement (ComputeDiff).
THEOREM UnknownIsNoImprovement == Spec => []UnknownNeverImproves
<1>1. ASSUME NEW one \in Runs, NEW other \in Runs, NEW c \in Checks,
             \E i \in Indices(one[c].findings) : Rank(one[c].findings[i].level) >= 2,
             \A i \in Indices(Insights(other[c])) : Insights(other[c])[i].sight # "seen",
             Insights(other[c]) # <<>> \/ other[c].kind # "present"
      PROVE  \E e \in ComputeDiff(BuildSnapshot(one), BuildSnapshot(other)) :
               e.check = c /\ ~e.improved
  <2> DEFINE before == BuildSnapshot(one)
             after == BuildSnapshot(other)
  <2>1. one[c] \in Results /\ other[c] \in Results
    BY Snapshot
  <2>2. PICK k \in RanksOf(one[c]) : k >= 2
    <3>1. one[c].findings # <<>>
      BY <1>1 DEF Indices
    <3>2. Insights(one[c]) = one[c].findings
      BY <2>1, <3>1, ResultParts, FailedInsight
    <3> QED
      BY <1>1, <3>2 DEF RanksOf
  <2>3. Recorded(one[c]) /\ Rank(CheckResult(one[c]).status) > 0
    BY <2>1, <2>2, Stored
  <2>4. c \in DOMAIN before /\ Rank(before[c].status) > 0
    BY <2>3, Snapshot
  <2>5. c \in DOMAIN after => after[c].sight # "seen"
    <3> SUFFICES ASSUME c \in DOMAIN after PROVE after[c].sight # "seen"
      OBVIOUS
    <3>1. Insights(other[c]) # <<>> /\ after[c] = CheckResult(other[c])
      BY <1>1, Snapshot DEF Recorded
    <3> QED
      BY <1>1, <2>1, <3>1, Stored
  <2> HIDE DEF before, after
  <2>6. ~EntryFor(c, before, after).improved /\ EntryFor(c, before, after).check = c
    BY <2>4, <2>5, EntryParts
  <2>7. EntryFor(c, before, after) \in ComputeDiff(before, after)
    BY <2>4, DiffOfACheck DEF Spoken
  <2> QED
    BY <2>6, <2>7 DEF before, after
<1>2. /\ first \in Runs /\ second \in Runs
      /\ stage = "compared" => diff = ComputeDiff(BuildSnapshot(first), BuildSnapshot(second))
      => UnknownNeverImproves
  BY <1>1 DEF UnknownNeverImproves
<1> QED
  BY <1>2, RunsTyped, DiffComputed, PTL

\* The ranks of a check before and after, and its entry in the diff: there is one
\* when the later run recorded the check or the earlier run had a problem.
LEMMA ChangeOfACheck ==
  ASSUME NEW c \in Checks, NEW one \in Runs, NEW other \in Runs
  PROVE  LET before == BuildSnapshot(one)
             after == BuildSnapshot(other)
             e == EntryFor(c, before, after)
             was == IF c \in DOMAIN before THEN Rank(before[c].status) ELSE 0
             is == IF c \in DOMAIN after THEN Rank(after[c].status) ELSE 0
         IN /\ was \in 0..3 /\ is \in 0..3
            /\ \A k \in 1..3 : k \in RanksOf(one[c]) => k <= was
            /\ \A k \in 1..3 : k \in RanksOf(other[c]) => k <= is
            /\ was > 0 => was \in RanksOf(one[c])
            /\ is > 0 => is \in RanksOf(other[c])
            /\ was > 0 \/ is > 0 =>
                 /\ e \in ComputeDiff(before, after)
                 /\ \A o \in ComputeDiff(before, after) : o.check = c => o = e
                 /\ e.check = c
                 /\ Rank(e.from) = was
                 /\ Rank(e.to) = is
                 /\ e.changed \/ was = is
                 /\ is > 0 => e.to # "absent"
<1> DEFINE before == BuildSnapshot(one)
           after == BuildSnapshot(other)
           e == EntryFor(c, before, after)
           was == IF c \in DOMAIN before THEN Rank(before[c].status) ELSE 0
           is == IF c \in DOMAIN after THEN Rank(after[c].status) ELSE 0
<1>1. /\ one[c] \in Results /\ other[c] \in Results
      /\ c \in DOMAIN before <=> Recorded(one[c])
      /\ c \in DOMAIN after <=> Recorded(other[c])
      /\ c \in DOMAIN before => before[c] = CheckResult(one[c])
      /\ c \in DOMAIN after => after[c] = CheckResult(other[c])
  BY Snapshot
<1> HIDE DEF before, after
<1>2. /\ was \in 0..3
      /\ \A k \in 1..3 : k \in RanksOf(one[c]) => k <= was
      /\ was > 0 => was \in RanksOf(one[c])
  <2>1. CASE c \in DOMAIN before
    BY <1>1, <2>1, Stored
  <2>2. CASE c \notin DOMAIN before
    BY <1>1, <2>2, Stored
  <2> QED
    BY <2>1, <2>2
<1>3. /\ is \in 0..3
      /\ \A k \in 1..3 : k \in RanksOf(other[c]) => k <= is
      /\ is > 0 => is \in RanksOf(other[c])
  <2>1. CASE c \in DOMAIN after
    BY <1>1, <2>1, Stored
  <2>2. CASE c \notin DOMAIN after
    BY <1>1, <2>2, Stored
  <2> QED
    BY <2>1, <2>2
<1>4. ASSUME was > 0 \/ is > 0
      PROVE  /\ e \in ComputeDiff(before, after)
             /\ \A o \in ComputeDiff(before, after) : o.check = c => o = e
             /\ e.check = c
             /\ Rank(e.from) = was
             /\ Rank(e.to) = is
             /\ e.changed \/ was = is
             /\ is > 0 => e.to # "absent"
  <2>1. Spoken(c, before, after)
    BY <1>2, <1>4 DEF Spoken
  <2>2. /\ e \in ComputeDiff(before, after)
        /\ \A o \in ComputeDiff(before, after) : o.check = c => o = e
    BY <2>1, DiffOfACheck
  <2>3. e.check = c
    BY EntryParts
  <2>4. Rank(e.from) = was
    BY <2>1, EntryParts, Ranks DEF Spoken
  <2>5. Rank(e.to) = is
    BY EntryParts, Ranks
  <2>6. e.changed \/ was = is
    <3>1. CASE c \notin DOMAIN after
      BY <3>1, EntryParts
    <3>2. CASE c \in DOMAIN after /\ c \notin DOMAIN before
      BY <1>3, <2>5, <3>2, EntryParts
    <3>3. CASE c \in DOMAIN after /\ c \in DOMAIN before
      BY <2>4, <2>5, <3>3, EntryParts
    <3> QED
      BY <3>1, <3>2, <3>3
  <2>7. is > 0 => e.to # "absent"
    BY <2>5, Ranks
  <2> QED
    BY <2>2, <2>3, <2>4, <2>5, <2>6, <2>7
<1> QED
  BY <1>2, <1>3, <1>4 DEF before, after

\* A problem of either run is in the diff once, and as a change unless the check
\* is as bad as it was (ComputeDiff).
THEOREM EveryProblemIsReported == Spec => []EveryProblemInTheDiff
<1> DEFINE Bad(r) == {Rank(Insights(r)[i].level) : i \in Indices(Insights(r))} \cap {2, 3}
<1>1. ASSUME NEW one \in Runs, NEW other \in Runs, NEW c \in Checks,
             Bad(one[c]) \cup Bad(other[c]) # {}
      PROVE  \E e \in ComputeDiff(BuildSnapshot(one), BuildSnapshot(other)) :
               /\ e.check = c
               /\ \A o \in ComputeDiff(BuildSnapshot(one), BuildSnapshot(other)) :
                    o.check = c => o = e
               /\ e.changed \/ (3 \in Bad(one[c]) <=> 3 \in Bad(other[c]))
  <2> DEFINE before == BuildSnapshot(one)
             after == BuildSnapshot(other)
             e == EntryFor(c, before, after)
             was == IF c \in DOMAIN before THEN Rank(before[c].status) ELSE 0
             is == IF c \in DOMAIN after THEN Rank(after[c].status) ELSE 0
  <2>1. /\ was \in 0..3 /\ is \in 0..3
        /\ \A k \in 1..3 : k \in RanksOf(one[c]) => k <= was
        /\ \A k \in 1..3 : k \in RanksOf(other[c]) => k <= is
        /\ was > 0 => was \in RanksOf(one[c])
        /\ is > 0 => is \in RanksOf(other[c])
        /\ was > 0 \/ is > 0 =>
             /\ e \in ComputeDiff(before, after)
             /\ \A o \in ComputeDiff(before, after) : o.check = c => o = e
             /\ e.check = c
             /\ e.changed \/ was = is
    BY ChangeOfACheck
  <2>2. /\ Bad(one[c]) = RanksOf(one[c]) \cap {2, 3}
        /\ Bad(other[c]) = RanksOf(other[c]) \cap {2, 3}
    BY DEF RanksOf
  <2> HIDE DEF Bad, before, after, e, was, is
  <2>3. was > 0 \/ is > 0
    BY <1>1, <2>1, <2>2
  <2>4. /\ 3 \in Bad(one[c]) <=> was = 3
        /\ 3 \in Bad(other[c]) <=> is = 3
    BY <2>1, <2>2
  <2>5. e.changed \/ (3 \in Bad(one[c]) <=> 3 \in Bad(other[c]))
    BY <2>1, <2>3, <2>4
  <2> QED
    BY <2>1, <2>3, <2>5 DEF before, after
<1>2. /\ first \in Runs /\ second \in Runs
      /\ stage = "compared" => diff = ComputeDiff(BuildSnapshot(first), BuildSnapshot(second))
      => EveryProblemInTheDiff
  <2> SUFFICES ASSUME first \in Runs, second \in Runs, stage = "compared",
                      diff = ComputeDiff(BuildSnapshot(first), BuildSnapshot(second)),
                      NEW c \in Checks, Bad(first[c]) \cup Bad(second[c]) # {}
               PROVE  \E e \in diff :
                        /\ e.check = c
                        /\ \A o \in diff : o.check = c => o = e
                        /\ e.changed \/ (3 \in Bad(first[c]) <=> 3 \in Bad(second[c]))
    BY Zenon DEF EveryProblemInTheDiff
  <2> HIDE DEF Bad
  <2> QED
    BY <1>1
<1> QED
  BY <1>2, RunsTyped, DiffComputed, PTL

\* A destination certified PASS has no problem its source had not, and none of the
\* source's problems has become unknown on it (certifyVerdict).
THEOREM PassIsNoRegression == Spec => []PassMeansNoRegression
<1> DEFINE Levels(r) == {Rank(Insights(r)[i].level) : i \in Indices(Insights(r))}
<1>1. ASSUME NEW one \in Runs, NEW other \in Runs, NEW c \in Checks,
             Certify(ComputeDiff(BuildSnapshot(one), BuildSnapshot(other))) = "PASS"
      PROVE  /\ 3 \in Levels(other[c]) => 3 \in Levels(one[c])
             /\ 2 \in Levels(other[c]) => Levels(one[c]) \cap {2, 3} # {}
             /\ other[c].kind = "failed" => Levels(one[c]) \cap {2, 3} = {}
  <2> DEFINE before == BuildSnapshot(one)
             after == BuildSnapshot(other)
             e == EntryFor(c, before, after)
             was == IF c \in DOMAIN before THEN Rank(before[c].status) ELSE 0
             is == IF c \in DOMAIN after THEN Rank(after[c].status) ELSE 0
  <2>1. /\ was \in 0..3 /\ is \in 0..3
        /\ \A k \in 1..3 : k \in RanksOf(one[c]) => k <= was
        /\ \A k \in 1..3 : k \in RanksOf(other[c]) => k <= is
        /\ was > 0 => was \in RanksOf(one[c])
        /\ is > 0 => is \in RanksOf(other[c])
        /\ was > 0 \/ is > 0 =>
             /\ e \in ComputeDiff(before, after)
             /\ Rank(e.from) = was
             /\ Rank(e.to) = is
             /\ is > 0 => e.to # "absent"
    BY ChangeOfACheck
  <2>2. Levels(one[c]) = RanksOf(one[c]) /\ Levels(other[c]) = RanksOf(other[c])
    BY DEF RanksOf
  <2>3. \A o \in ComputeDiff(before, after) : ~Regression(o)
    BY <1>1 DEF Certify
  \* A failed collector is recorded as one INFO insight.
  <2>4. other[c].kind = "failed" => RanksOf(other[c]) = {1}
    <3>1. other[c].kind = "failed" =>
            Indices(Insights(other[c])) = {1} /\ Insights(other[c])[1].level = "INFO"
      BY FailedInsight DEF CouldNotRun
    <3> QED
      BY <3>1, Ranks DEF RanksOf
  <2> HIDE DEF Levels, before, after, e, was, is
  <2>5. is > 0 => is <= was /\ ~(was >= 2 /\ is = 1)
    BY <2>1, <2>3 DEF Regression
  <2>6. 3 \in RanksOf(other[c]) => 3 \in RanksOf(one[c])
    BY <2>1, <2>5
  <2>7. 2 \in RanksOf(other[c]) => RanksOf(one[c]) \cap {2, 3} # {}
    <3>1. 2 \in RanksOf(other[c]) => was \in {2, 3}
      BY <2>1, <2>5
    <3> QED
      BY <2>1, <3>1
  <2>8. other[c].kind = "failed" => RanksOf(one[c]) \cap {2, 3} = {}
    <3>1. other[c].kind = "failed" => is = 1
      BY <2>1, <2>4
    <3> QED
      BY <2>1, <2>5, <3>1
  <2> QED
    BY <2>2, <2>6, <2>7, <2>8
<1>2. /\ first \in Runs /\ second \in Runs
      /\ stage = "compared" => diff = ComputeDiff(BuildSnapshot(first), BuildSnapshot(second))
      => PassMeansNoRegression
  BY <1>1 DEF PassMeansNoRegression
<1> QED
  BY <1>2, RunsTyped, DiffComputed, PTL
===============================================================================
