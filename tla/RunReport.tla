------------------------------- MODULE RunReport -------------------------------
(***************************************************************************)
(* From the collectors' results to what a run says about the host:         *)
(* analysis.ApplyThresholds, render.Verdict, render.nagiosStatus, the      *)
(* policy gate, render.Coverage, baseline.BuildSnapshot,                   *)
(* baseline.ComputeDiff and certifyVerdict of dsd migrate certify.         *)
(*                                                                         *)
(* A run gives every check a result and a list of findings.  Which         *)
(* findings a heuristic makes of the data is left open; what is modelled   *)
(* is how six outputs, each with code of its own, derive their answer       *)
(* from them.  A host is observed again and again, each run compared with  *)
(* the snapshot the run before it stored (dsd health --diff) or with the   *)
(* snapshot of another host (dsd migrate certify).                         *)
(***************************************************************************)
EXTENDS Naturals, Sequences

CONSTANTS
  Checks,      \* collector names
  Subs,        \* what an insight's Check adds to the collector's name ("/DNS")
  Whole,       \* the member of Subs for an insight about the check as a whole
  MaxFindings  \* bound on the findings of one check

ASSUME WholeAssumption == Whole \in Subs
ASSUME MaxFindingsAssumption == MaxFindings \in Nat

VARIABLES
  first,    \* the results and findings of the earlier run
  second,   \* those of the later run
  diff,     \* ComputeDiff of their snapshots, once the later run is done
  stage     \* "stored": first's snapshot is stored; "compared": second is done

vars == <<first, second, diff, stage>>

-------------------------------------------------------------------------------
(* Results and insights. *)

\* sight: "seen" is a finding, "needsRoot" and "unread" are Unverified insights,
\* the former only root could have read.
Findings ==
  {f \in [sub : Subs, level : {"OK", "INFO", "WARN", "CRIT"},
          sight : {"seen", "needsRoot", "unread"}] :
     /\ f.level = "OK" => f.sight = "seen"
     /\ f.level = "CRIT" => f.sight = "seen"
     /\ f.sight = "needsRoot" => f.level = "INFO"}

\* absent: never run, its probe found nothing.  gated: nil data, no error.
\* unavailable: Available = false.  failed: an error, a timeout or a panic.
Kinds == {"absent", "gated", "unavailable", "present", "failed"}

FindingLists == UNION {[1..n -> Findings] : n \in 0..MaxFindings}

Results ==
  {r \in [kind : Kinds, findings : FindingLists] :
     r.kind \notin {"unavailable", "present"} => r.findings = <<>>}

Runs == [Checks -> Results]

Indices(s) == DOMAIN s
CouldNotRun == [sub |-> Whole, level |-> "INFO", sight |-> "unread"]

\* Faulty: a failed collector leaves no insight.
InsightsOfFindingsOnly(r) == r.findings

\* ApplyThresholds: a failed collector gives one Unverified INFO insight.
Insights(r) == IF r.kind = "failed" THEN <<CouldNotRun>> ELSE r.findings

\* All insights of a run.
AllInsights(run) ==
  UNION {{Insights(run[c])[i] : i \in Indices(Insights(run[c]))} : c \in DOMAIN run}

Rank(level) ==
  CASE level = "CRIT" -> 3
    [] level = "WARN" -> 2
    [] level = "INFO" -> 1
    [] OTHER -> 0

-------------------------------------------------------------------------------
(* render.Verdict *)

LevelFromCounts(crit, warn, couldNotRun) ==
  IF crit THEN "CRIT" ELSE IF warn \/ couldNotRun THEN "WARN" ELSE "OK"

\* The verdict behind the exit code: PrintSummary passes no results.
VerdictOfInsights(run) ==
  LevelFromCounts(\E f \in AllInsights(run) : f.level = "CRIT",
                  \E f \in AllInsights(run) : f.level = "WARN",
                  \E f \in AllInsights(run) : f.sight = "unread")

\* The verdict of the JSON output, the history entry and the monitoring lines.
Verdict(run) ==
  LevelFromCounts(\E f \in AllInsights(run) : f.level = "CRIT",
                  \E f \in AllInsights(run) : f.level = "WARN",
                  \/ \E f \in AllInsights(run) : f.sight = "unread"
                  \/ \E c \in DOMAIN run : run[c].kind = "failed")

-------------------------------------------------------------------------------
(* The other outputs that answer in a code: render.nagiosStatus and the       *)
(* policy gate.                                                               *)

ExitCode(level) == CASE level = "CRIT" -> 2 [] level = "WARN" -> 1 [] OTHER -> 0

\* The names of the insights of run that are in the set chosen.
NamesOf(run, chosen) ==
  {n \in (DOMAIN run) \X Subs :
     \E i \in Indices(Insights(run[n[1]])) :
       Insights(run[n[1]])[i].sub = n[2] /\ Insights(run[n[1]])[i] \in chosen}

AtLevel(run, level) == {f \in AllInsights(run) : f.level = level}
Unread(run) == {f \in AllInsights(run) : f.sight = "unread"}

CritNames(run) == NamesOf(run, AtLevel(run, "CRIT"))
WarnNames(run) == NamesOf(run, AtLevel(run, "WARN")) \ CritNames(run)
FailedNames(run) ==
  {<<c, Whole>> : c \in {d \in DOMAIN run : run[d].kind = "failed"}}
UnverifiedNames(run) ==
  NamesOf(run, {f \in Unread(run) : f.level \notin {"CRIT", "WARN"}})

\* Faulty: only findings make a line that is not OK.
NagiosStatusOfFindings(run) ==
  IF CritNames(run) # {} THEN [code |-> 2, names |-> CritNames(run) \cup WarnNames(run)]
  ELSE IF WarnNames(run) # {} THEN [code |-> 1, names |-> WarnNames(run)]
  ELSE [code |-> 0, names |-> {}]

\* The monitoring line: its exit code and the checks it names.
NagiosStatus(run) ==
  LET notRun == FailedNames(run) \cup UnverifiedNames(run) IN
  IF Verdict(run) = "CRIT"
    THEN [code |-> 2, names |-> CritNames(run) \cup WarnNames(run) \cup notRun]
  ELSE IF AtLevel(run, "WARN") # {}
    THEN [code |-> 1, names |-> WarnNames(run) \cup notRun]
  ELSE IF Verdict(run) = "WARN" THEN [code |-> 1, names |-> notRun]
  ELSE [code |-> ExitCode(Verdict(run)), names |-> {}]

\* PolicyDeniesLevel: an empty deny list denies CRIT.
Denies(deny, level) == IF deny = {} THEN level = "CRIT" ELSE level \in deny

\* applyHealthPolicyGate: code is that of PrintSummary.
PolicyGate(deny, run, code) ==
  IF code = 0 /\ \E f \in AllInsights(run) : Denies(deny, f.level) THEN 1 ELSE code

-------------------------------------------------------------------------------
(* render.Coverage *)

UnverifiedIn(r) == {i \in Indices(r.findings) : r.findings[i].sight # "seen"}

\* Faulty: findings about an unavailable collector are not looked at.
CoverageByAvailability(r) ==
  CASE r.kind \in {"absent", "gated", "unavailable"} -> "not_applicable"
    [] r.kind = "failed" -> "not_checked"
    [] OTHER -> "checked"

\* classifyResult
CoverageOf(r) ==
  CASE r.kind = "absent" -> "not_applicable"
    [] r.kind = "failed" -> "not_checked"
    [] r.kind = "present" -> "checked"
    [] r.kind \in {"gated", "unavailable"} /\ UnverifiedIn(r) # {} -> "not_checked"
    [] r.kind \in {"gated", "unavailable"} /\ UnverifiedIn(r) = {}
         /\ r.findings # <<>> -> "checked"
    [] OTHER -> "not_applicable"

\* Why a part of a check, or a check as a whole, was not looked at.
PartReason(run, c, i) ==
  [check |-> c, sub |-> run[c].findings[i].sub, sight |-> run[c].findings[i].sight]

WholeReason(run, c) ==
  [check |-> c, sub |-> Whole,
   sight |-> IF run[c].kind = "failed"
                \/ \E i \in UnverifiedIn(run[c]) : run[c].findings[i].sight = "unread"
             THEN "unread" ELSE "needsRoot"]

\* One reason per Unverified finding, and one per check that was not looked at
\* as a whole.
PartReasons(run, c) == {PartReason(run, c, i) : i \in UnverifiedIn(run[c])}
NotChecked(run) == {c \in DOMAIN run : CoverageOf(run[c]) = "not_checked"}
Reasons(run) ==
  (UNION {PartReasons(run, c) : c \in DOMAIN run})
    \cup {WholeReason(run, c) : c \in NotChecked(run)}

\* Faulty: something counted as root-only stays so.
ItemsKeepingNeedsRoot(run) ==
  {r \in Reasons(run) : r.sight = "unread" =>
                          [r EXCEPT !.sight = "needsRoot"] \notin Reasons(run)}

\* addItem: each thing not looked at is counted once; the reason that floors the
\* verdict replaces needs_root.
Items(run) ==
  {r \in Reasons(run) : r.sight = "needsRoot" =>
                          [r EXCEPT !.sight = "unread"] \notin Reasons(run)}

-------------------------------------------------------------------------------
(* baseline.BuildSnapshot *)

\* Faulty: the first insight of the check, not the worst.
FirstInsight(s) == s[1]

\* The first of the insights with the highest rank.
WorstInsight(s) ==
  s[CHOOSE i \in Indices(s) :
      /\ \A j \in Indices(s) : Rank(s[j].level) <= Rank(s[i].level)
      /\ \A j \in Indices(s) : j < i => Rank(s[j].level) < Rank(s[i].level)]

CheckResult(r) ==
  IF Insights(r) = <<>> THEN [status |-> "OK", sight |-> "seen"]
  ELSE LET worst == WorstInsight(Insights(r))
       IN [status |-> worst.level, sight |-> worst.sight]

Recorded(r) ==
  /\ r.kind \notin {"absent", "gated"}
  /\ Insights(r) # <<>> \/ r.kind = "present"

BuildSnapshot(run) ==
  [c \in {d \in DOMAIN run : Recorded(run[d])} |-> CheckResult(run[c])]

-------------------------------------------------------------------------------
(* baseline.ComputeDiff *)

Entry(c, from, to, unverified, changed, improved) ==
  [check |-> c, from |-> from, to |-> to, unverified |-> unverified,
   changed |-> changed, improved |-> improved]

\* A check of the later snapshot that the earlier one has not.
NewEntry(c, a) ==
  Entry(c, "none", a.status, a.sight # "seen", Rank(a.status) > 0, FALSE)

\* Faulty: improvement is judged by the statuses alone.
CommonEntryByRank(c, b, a) ==
  Entry(c, b.status, a.status, b.sight # "seen" \/ a.sight # "seen",
        b.status # a.status, Rank(a.status) < Rank(b.status))

\* A check both snapshots have.
CommonEntry(c, b, a) ==
  LET unverified == b.sight # "seen" \/ a.sight # "seen"
  IN Entry(c, b.status, a.status, unverified, b.status # a.status,
           ~unverified /\ Rank(a.status) < Rank(b.status))

\* Checks with a problem that are gone from the later snapshot.
Vanished(before, after) ==
  {Entry(c, before[c].status, "absent", before[c].sight # "seen", TRUE, FALSE) :
     c \in {d \in DOMAIN before : d \notin DOMAIN after /\ Rank(before[d].status) > 0}}

ComputeDiff(before, after) ==
  {IF c \in DOMAIN before THEN CommonEntry(c, before[c], after[c])
   ELSE NewEntry(c, after[c]) : c \in DOMAIN after}
  \cup Vanished(before, after)

-------------------------------------------------------------------------------
(* certifyVerdict *)

\* Faulty: a problem that reads as unknown at the destination has improved.
RegressionByRank(e) == e.to # "absent" /\ Rank(e.to) > Rank(e.from)

Regression(e) ==
  /\ e.to # "absent"
  /\ Rank(e.to) > Rank(e.from) \/ (Rank(e.from) >= 2 /\ Rank(e.to) = 1)

\* An absence that could not be confirmed.
Unconfirmed(e) == e.to = "absent" /\ e.unverified

Certify(d) ==
  IF \E e \in d : Regression(e) /\ e.to = "CRIT" THEN "FAIL"
  ELSE IF \E e \in d : Regression(e) \/ Unconfirmed(e) THEN "PASS-WITH-WARNINGS"
  ELSE "PASS"

-------------------------------------------------------------------------------
(* A host run again and again. *)

Init ==
  /\ first \in Runs
  /\ second = first
  /\ diff = {}
  /\ stage = "stored"

\* The next run is compared with the stored snapshot.
Compare ==
  /\ stage = "stored"
  /\ second' \in Runs
  /\ diff' = ComputeDiff(BuildSnapshot(first), BuildSnapshot(second'))
  /\ stage' = "compared"
  /\ UNCHANGED first

\* SaveBaseline: its snapshot replaces the stored one.
Store ==
  /\ stage = "compared"
  /\ first' = second
  /\ diff' = {}
  /\ stage' = "stored"
  /\ UNCHANGED second

Next == Compare \/ Store

Spec == Init /\ [][Next]_vars

-------------------------------------------------------------------------------
(* Properties. *)

\* coverage.go:36 "Verdict still floors on every not_checked item except
\* needs_root ones": the verdict and the coverage line, derived by different
\* code, agree on whether something was not looked at.
CoverageMatchesVerdict ==
  LET floored == \E i \in Items(second) : i.sight = "unread" IN
  /\ Verdict(second) = "OK" => ~floored
  /\ floored => Verdict(second) # "OK"
  /\ Verdict(second) = "WARN" /\ ~floored =>
       \E f \in AllInsights(second) : f.level = "WARN"

\* verdict.go:18 "Every output now asks Verdict": the exit code, derived without
\* the results, the monitoring line, derived from results and insights, and the
\* exit code a policy may override are one answer; and a line that is not OK
\* names every check that keeps it from being OK, and no other.
ExitCodesAgree ==
  LET code == ExitCode(VerdictOfInsights(second))
      line == NagiosStatus(second)
      blamed == AtLevel(second, "CRIT") \cup AtLevel(second, "WARN") \cup Unread(second)
  IN /\ code = ExitCode(Verdict(second))
     /\ line.code = code
     /\ line.names = NamesOf(second, blamed)
     /\ code # 0 => line.names # {}
     /\ \A deny \in SUBSET {"WARN", "CRIT"} : PolicyGate(deny, second, code) = code

\* json.go:184 "Keep the JSON/YAML contract consistent with live health and
\* --report": the stored snapshot holds exactly the checks the coverage does
\* not call not applicable.
SnapshotMirrorsCoverage ==
  DOMAIN BuildSnapshot(second) =
    {c \in Checks : CoverageOf(second[c]) # "not_applicable"}

\* baseline.go:362: a check that had a WARN or CRIT finding and was not read, or
\* not reported, in the later run is in the diff and never improved.
UnknownNeverImproves ==
  stage = "compared" =>
    \A c \in Checks :
      (/\ \E i \in Indices(first[c].findings) : Rank(first[c].findings[i].level) >= 2
       /\ \A i \in Indices(Insights(second[c])) : Insights(second[c])[i].sight # "seen"
       /\ Insights(second[c]) # <<>> \/ second[c].kind # "present")
      => \E e \in diff : e.check = c /\ ~e.improved

\* A finding at WARN or CRIT in either run is accounted for in the diff by one
\* entry, which shows a change unless the check is as bad as it was.
EveryProblemInTheDiff ==
  stage = "compared" =>
    \A c \in Checks :
      LET bad(r) == {Rank(Insights(r)[i].level) : i \in Indices(Insights(r))} \cap {2, 3}
      IN bad(first[c]) \cup bad(second[c]) # {} =>
           \E e \in diff :
             /\ e.check = c
             /\ \A o \in diff : o.check = c => o = e
             /\ e.changed \/ (3 \in bad(first[c]) <=> 3 \in bad(second[c]))

\* migrate.go:222 "A REGRESSION is a check whose status got strictly worse": a
\* destination certified PASS has no problem its source had not, and none of
\* the source's problems has become unknown on it.
PassMeansNoRegression ==
  stage = "compared" /\ Certify(diff) = "PASS" =>
    \A c \in Checks :
      LET ranks(r) == {Rank(Insights(r)[i].level) : i \in Indices(Insights(r))}
      IN /\ 3 \in ranks(second[c]) => 3 \in ranks(first[c])
         /\ 2 \in ranks(second[c]) => ranks(first[c]) \cap {2, 3} # {}
         /\ second[c].kind = "failed" => ranks(first[c]) \cap {2, 3} = {}

===============================================================================
