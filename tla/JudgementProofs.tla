---------------------------- MODULE JudgementProofs ----------------------------
(* What the two judges of a host never say, for every value of the constants: *)
(* the correlation of findings, for every panel of collectors, every reading  *)
(* and every policy; the benchmark, for every host, user and command line.    *)
EXTENDS Diagnosis, CIS, FiniteSetTheorems, WellFoundedInduction, TLAPS

Names ==
  {"MemoryCascade", "HardOOM", "IOUnderMemoryPressure", "NetworkDegraded",
   "GPUSustainedLoad", "IODrivenLoad", "CPUSteal", "RunQueueSaturation", "DBusCascade",
   "EntropyTLS", "DiskFull", "NFSStale", "ClockSkew", "ContainerOOM", "ThermalThrottle",
   "DNSResolver"}

\* The diagnoses of one name.
RuleNamed(s, name) ==
  IF name = "MemoryCascade" THEN MemoryCascade(s)
  ELSE IF name = "HardOOM" THEN HardOOM(s)
  ELSE IF name = "IOUnderMemoryPressure" THEN IOUnderMemoryPressure(s)
  ELSE IF name = "NetworkDegraded" THEN NetworkDegradedUnderLoad(s)
  ELSE IF name = "GPUSustainedLoad" THEN GPUSustainedLoad(s)
  ELSE IF name = "IODrivenLoad" THEN IODrivenLoad(s)
  ELSE IF name = "CPUSteal" THEN CPUStealUnderLoad(s)
  ELSE IF name = "RunQueueSaturation" THEN RunQueueSaturation(s)
  ELSE IF name = "DBusCascade" THEN DBusCascade(s)
  ELSE IF name = "EntropyTLS" THEN EntropyTLSFailure(s)
  ELSE IF name = "DiskFull" THEN DiskFullServiceFailure(s)
  ELSE IF name = "NFSStale" THEN NFSStaleProcessHang(s)
  ELSE IF name = "ClockSkew" THEN ClockSkewTLSAuth(s)
  ELSE IF name = "ContainerOOM" THEN ContainerCgroupOOM(s)
  ELSE IF name = "ThermalThrottle" THEN ThermalThrottleUnderLoad(s)
  ELSE DNSResolverNotConnectivity(s)

LEMMA Ranks ==
  ASSUME NEW level
  PROVE /\ LevelRank(level) \in 0..3
        /\ LevelRank(level) = 3 <=> level = "CRIT"
        /\ LevelRank(level) = 2 <=> level = "WARN"
        /\ LevelRank("CRIT") = 3 /\ LevelRank("WARN") = 2 /\ LevelRank("INFO") = 1
  BY DEF LevelRank

\* A level that is exact is at least reached.
LEMMA ExactAtLeast ==
  ASSUME NEW s, NEW key, NEW level, Exact(s, key, level)
  PROVE AtLeast(s, key, level)
  BY Ranks DEF Exact, AtLeast

LEMMA CritIsAtLeastWarn ==
  ASSUME NEW s, NEW key, AtLeast(s, key, "CRIT")
  PROVE AtLeast(s, key, "WARN")
  BY Ranks DEF AtLeast

\* A key at WARN or above is at one of the two exactly, so it is not confirmed low.
LEMMA NotLow ==
  ASSUME NEW s, NEW key, AtLeast(s, key, "WARN")
  PROVE ~ConfirmedLow(s, key)
<1>1. PICK i \in Under(s, key) : LevelRank(i.level) >= 2
  BY Ranks DEF AtLeast
<1>2. CASE \E j \in Under(s, key) : j.level = "CRIT"
  <2>1. Exact(s, key, "CRIT")
    BY <1>2, Ranks DEF Exact
  <2>2. QED
    BY <2>1 DEF ConfirmedLow, ConfirmedNot
<1>3. CASE ~\E j \in Under(s, key) : j.level = "CRIT"
  <2>1. i.level = "WARN"
    BY <1>1, <1>3, Ranks
  <2>2. \A j \in Under(s, key) : LevelRank(j.level) <= 2
    BY <1>3, Ranks
  <2>3. Exact(s, key, "WARN")
    BY <2>1, <2>2, Ranks DEF Exact
  <2>4. QED
    BY <2>3 DEF ConfirmedLow, ConfirmedNot
<1>4. QED
  BY <1>2, <1>3

\* Every diagnosis comes from the rule of its name.
LEMMA OneRuleEach ==
  ASSUME NEW s, NEW d \in Correlate(s)
  PROVE d.name \in Names /\ d \in RuleNamed(s, d.name)
<1> USE DEF Fires, Diagnosis
<1>1. CASE d \in MemoryCascade(s)
  <2>1. d.name = "MemoryCascade"
    BY <1>1 DEF MemoryCascade
  <2>2. QED
    BY <1>1, <2>1 DEF Names, RuleNamed
<1>2. CASE d \in HardOOM(s)
  <2>1. d.name = "HardOOM"
    BY <1>2 DEF HardOOM
  <2>2. QED
    BY <1>2, <2>1 DEF Names, RuleNamed
<1>3. CASE d \in IOUnderMemoryPressure(s)
  <2>1. d.name = "IOUnderMemoryPressure"
    BY <1>3 DEF IOUnderMemoryPressure
  <2>2. QED
    BY <1>3, <2>1 DEF Names, RuleNamed
<1>4. CASE d \in NetworkDegradedUnderLoad(s)
  <2>1. d.name = "NetworkDegraded"
    BY <1>4 DEF NetworkDegradedUnderLoad
  <2>2. QED
    BY <1>4, <2>1 DEF Names, RuleNamed
<1>5. CASE d \in GPUSustainedLoad(s)
  <2>1. d.name = "GPUSustainedLoad"
    BY <1>5 DEF GPUSustainedLoad
  <2>2. QED
    BY <1>5, <2>1 DEF Names, RuleNamed
<1>6. CASE d \in IODrivenLoad(s)
  <2>1. d.name = "IODrivenLoad"
    BY <1>6 DEF IODrivenLoad
  <2>2. QED
    BY <1>6, <2>1 DEF Names, RuleNamed
<1>7. CASE d \in CPUStealUnderLoad(s)
  <2>1. d.name = "CPUSteal"
    BY <1>7 DEF CPUStealUnderLoad
  <2>2. QED
    BY <1>7, <2>1 DEF Names, RuleNamed
<1>8. CASE d \in RunQueueSaturation(s)
  <2>1. d.name = "RunQueueSaturation"
    BY <1>8 DEF RunQueueSaturation
  <2>2. QED
    BY <1>8, <2>1 DEF Names, RuleNamed
<1>9. CASE d \in DBusCascade(s)
  <2>1. d.name = "DBusCascade"
    BY <1>9 DEF DBusCascade
  <2>2. QED
    BY <1>9, <2>1 DEF Names, RuleNamed
<1>10. CASE d \in EntropyTLSFailure(s)
  <2>1. d.name = "EntropyTLS"
    BY <1>10 DEF EntropyTLSFailure
  <2>2. QED
    BY <1>10, <2>1 DEF Names, RuleNamed
<1>11. CASE d \in DiskFullServiceFailure(s)
  <2>1. d.name = "DiskFull"
    BY <1>11 DEF DiskFullServiceFailure
  <2>2. QED
    BY <1>11, <2>1 DEF Names, RuleNamed
<1>12. CASE d \in NFSStaleProcessHang(s)
  <2>1. d.name = "NFSStale"
    BY <1>12 DEF NFSStaleProcessHang
  <2>2. QED
    BY <1>12, <2>1 DEF Names, RuleNamed
<1>13. CASE d \in ClockSkewTLSAuth(s)
  <2>1. d.name = "ClockSkew"
    BY <1>13 DEF ClockSkewTLSAuth
  <2>2. QED
    BY <1>13, <2>1 DEF Names, RuleNamed
<1>14. CASE d \in ContainerCgroupOOM(s)
  <2>1. d.name = "ContainerOOM"
    BY <1>14 DEF ContainerCgroupOOM
  <2>2. QED
    BY <1>14, <2>1 DEF Names, RuleNamed
<1>15. CASE d \in ThermalThrottleUnderLoad(s)
  <2>1. d.name = "ThermalThrottle"
    BY <1>15 DEF ThermalThrottleUnderLoad
  <2>2. QED
    BY <1>15, <2>1 DEF Names, RuleNamed
<1>16. CASE d \in DNSResolverNotConnectivity(s)
  <2>1. d.name = "DNSResolver"
    BY <1>16 DEF DNSResolverNotConnectivity
  <2>2. QED
    BY <1>16, <2>1 DEF Names, RuleNamed
<1>17. QED
  BY <1>1, <1>2, <1>3, <1>4, <1>5, <1>6, <1>7, <1>8, <1>9, <1>10, <1>11, <1>12, <1>13,
     <1>14, <1>15, <1>16 DEF Correlate

-------------------------------------------------------------------------------
(* Causes that exclude each other *)

LEMMA OneCauseOfAPair ==
  ASSUME NEW s, NEW d \in Correlate(s), NEW e \in Correlate(s)
  PROVE {d.name, e.name} \notin Contradictions
<1> SUFFICES ASSUME NEW one, NEW other, {one, other} \in Contradictions,
                    d.name = one, e.name = other
             PROVE FALSE
  OBVIOUS
<1> USE DEF Fires, Diagnosis
<1>1. d \in RuleNamed(s, one) /\ e \in RuleNamed(s, other)
  BY OneRuleEach
<1>2. /\ MemoryCascade(s) = {} \/ HardOOM(s) = {}
      /\ IOUnderMemoryPressure(s) = {} \/ HardOOM(s) = {}
  BY DEF MemoryCascade, HardOOM, IOUnderMemoryPressure, ConfirmedNot
<1>3. IODrivenLoad(s) = {} \/ CPUStealUnderLoad(s) = {}
  BY DEF IODrivenLoad, CPUStealUnderLoad
<1>4. RunQueueSaturation(s) = {} \/ IODrivenLoad(s) = {}
  BY NotLow DEF RunQueueSaturation, IODrivenLoad
<1>5. RunQueueSaturation(s) = {} \/ CPUStealUnderLoad(s) = {}
  BY NotLow DEF RunQueueSaturation, CPUStealUnderLoad
<1>6. ContainerCgroupOOM(s) = {} \/ HardOOM(s) = {}
  BY DEF ContainerCgroupOOM, HardOOM, ConfirmedNot
<1>7. DNSResolverNotConnectivity(s) = {} \/ NetworkDegradedUnderLoad(s) = {}
  BY DEF DNSResolverNotConnectivity, NetworkDegradedUnderLoad, ConfirmedNot
<1>8. QED
  BY <1>1, <1>2, <1>3, <1>4, <1>5, <1>6, <1>7 DEF Contradictions, RuleNamed

-------------------------------------------------------------------------------
(* What a diagnosis rests on *)

Enough(check) == IF check = "GPU" THEN "INFO" ELSE "WARN"

\* Every check a diagnosis names has a finding.
LEMMA Grounded ==
  ASSUME NEW s, NEW d \in Correlate(s), NEW c \in d.checks
  PROVE AtLeast(s, c, Enough(c))
<1> USE DEF Fires, Diagnosis, Which
<1>1. /\ \A key : Exact(s, key, "CRIT") => AtLeast(s, key, "WARN")
      /\ \A key : AtLeast(s, key, "CRIT") => AtLeast(s, key, "WARN")
      /\ \A key : AtLeast(s, key, "WARN") => AtLeast(s, key, "INFO")
  BY ExactAtLeast, CritIsAtLeastWarn, Ranks DEF AtLeast
<1>2. AtLeast(s, c, "WARN") => AtLeast(s, c, Enough(c))
  BY <1>1 DEF Enough
<1>3. d \in MemoryCascade(s) \/ d \in HardOOM(s) \/ d \in IOUnderMemoryPressure(s)
        => AtLeast(s, c, "WARN")
  BY <1>1 DEF MemoryCascade, HardOOM, IOUnderMemoryPressure
<1>4. d \in NetworkDegradedUnderLoad(s) => AtLeast(s, c, "WARN")
  BY <1>1 DEF NetworkDegradedUnderLoad
<1>5. d \in GPUSustainedLoad(s) => AtLeast(s, c, Enough(c))
  BY <1>1 DEF GPUSustainedLoad, Enough
<1>6. d \in IODrivenLoad(s) \/ d \in CPUStealUnderLoad(s) \/ d \in RunQueueSaturation(s)
        => AtLeast(s, c, "WARN")
  BY <1>1 DEF IODrivenLoad, CPUStealUnderLoad, RunQueueSaturation
<1>7. d \in DBusCascade(s) \/ d \in EntropyTLSFailure(s) \/ d \in DiskFullServiceFailure(s)
        => AtLeast(s, c, "WARN")
  BY <1>1 DEF DBusCascade, EntropyTLSFailure, DiskFullServiceFailure
<1>8. d \in NFSStaleProcessHang(s) \/ d \in ClockSkewTLSAuth(s) \/ d \in ContainerCgroupOOM(s)
        => AtLeast(s, c, "WARN")
  BY <1>1 DEF NFSStaleProcessHang, ClockSkewTLSAuth, ContainerCgroupOOM
<1>9. d \in ThermalThrottleUnderLoad(s) \/ d \in DNSResolverNotConnectivity(s)
        => AtLeast(s, c, "WARN")
  BY <1>1 DEF ThermalThrottleUnderLoad, DNSResolverNotConnectivity
<1>10. QED
  BY <1>2, <1>3, <1>4, <1>5, <1>6, <1>7, <1>8, <1>9 DEF Correlate

\* A diagnosis is WARN or CRIT and names a check whose finding is.
LEMMA RestsOnAFinding ==
  ASSUME NEW s, NEW d \in Correlate(s)
  PROVE d.level \in {"WARN", "CRIT"} /\ \E i \in s : LevelRank(i.level) >= 2
<1> USE DEF Fires, Diagnosis
<1>1. d.level \in {"WARN", "CRIT"}
  BY DEF Correlate, MemoryCascade, HardOOM, IOUnderMemoryPressure, NetworkDegradedUnderLoad,
     GPUSustainedLoad, IODrivenLoad, CPUStealUnderLoad, RunQueueSaturation, DBusCascade,
     EntropyTLSFailure, DiskFullServiceFailure, NFSStaleProcessHang, ClockSkewTLSAuth,
     ContainerCgroupOOM, ThermalThrottleUnderLoad, DNSResolverNotConnectivity
<1>2. ASSUME NEW key, AtLeast(s, key, "WARN")
      PROVE \E i \in s : LevelRank(i.level) >= 2
  BY <1>2, Ranks DEF AtLeast, Under
<1>3. CASE d \in GPUSustainedLoad(s)
  BY <1>1, <1>2, <1>3 DEF GPUSustainedLoad
<1>4. CASE d \notin GPUSustainedLoad(s)
  <2>1. d.name # "GPUSustainedLoad" /\ d \in RuleNamed(s, d.name) /\ d.name \in Names
    BY <1>4, OneRuleEach DEF RuleNamed
  <2>2. \E c \in d.checks : c # "GPU"
    BY <2>1 DEF Names, RuleNamed, MemoryCascade, HardOOM, IOUnderMemoryPressure,
       NetworkDegradedUnderLoad, IODrivenLoad, CPUStealUnderLoad, RunQueueSaturation,
       DBusCascade, EntropyTLSFailure, DiskFullServiceFailure, NFSStaleProcessHang,
       ClockSkewTLSAuth, ContainerCgroupOOM, ThermalThrottleUnderLoad,
       DNSResolverNotConnectivity
  <2>3. QED
    BY <2>2, <1>1, <1>2, Grounded DEF Enough
<1>5. QED
  BY <1>1, <1>3, <1>4

-------------------------------------------------------------------------------
(* The top catch *)

LEMMA TopCatchOfFindings ==
  ASSUME NEW s
  PROVE LET top == TopCatch(s, Correlate(s))
        IN /\ top = {} <=> \A i \in s : LevelRank(i.level) < 2
           /\ (\E i \in s : i.level = "CRIT") => \A entry \in top : entry.level = "CRIT"
<1> DEFINE ds == Correlate(s)
           worst(level) == /\ \A i \in s : LevelRank(i.level) <= LevelRank(level)
                           /\ \A d \in ds : LevelRank(d.level) <= LevelRank(level)
           explained == {d \in ds : worst(d.level)}
           findings == {i \in s : LevelRank(i.level) >= 2 /\ worst(i.level)}
           top == TopCatch(s, ds)
<1>1. /\ \A entry \in top : \E x \in explained \cup findings : entry.level = x.level
      /\ (explained = {} /\ findings = {}) <=> top = {}
  <2>1. top = {[from |-> "diagnosis", level |-> d.level] : d \in explained}
              \cup IF explained # {} THEN {}
                   ELSE {[from |-> "finding", level |-> i.level] : i \in findings}
    BY DEF TopCatch
  <2> HIDE DEF explained, findings, top
  <2>2. CASE explained = {}
    <3>1. top = {[from |-> "finding", level |-> i.level] : i \in findings}
      BY <2>1, <2>2
    <3>2. top = {} <=> findings = {}
      BY <3>1
    <3>3. \A entry \in top : \E x \in findings : entry.level = x.level
      BY <3>1
    <3>4. QED
      BY <2>2, <3>2, <3>3
  <2>3. CASE explained # {}
    <3>1. top = {[from |-> "diagnosis", level |-> d.level] : d \in explained}
      BY <2>1, <2>3
    <3>2. top # {}
      BY <2>3, <3>1
    <3>3. \A entry \in top : \E x \in explained : entry.level = x.level
      BY <3>1
    <3>4. QED
      BY <2>3, <3>2, <3>3
  <2>4. QED
    BY <2>2, <2>3
<1>2. \A x \in explained \cup findings : worst(x.level) /\ LevelRank(x.level) >= 2
  BY RestsOnAFinding, Ranks
<1>3. ASSUME NEW j \in s, LevelRank(j.level) >= 2
      PROVE top # {}
  <2>1. CASE \E i \in s : i.level = "CRIT"
    BY <2>1, <1>1, Ranks
  <2>2. CASE \E d \in ds : d.level = "CRIT"
    BY <2>2, <1>1, Ranks
  <2>3. CASE /\ ~\E i \in s : i.level = "CRIT"
             /\ ~\E d \in ds : d.level = "CRIT"
    <3>1. worst(j.level)
      BY <2>3, <1>3, Ranks
    <3>2. QED
      BY <3>1, <1>3, <1>1
  <2>4. QED
    BY <2>1, <2>2, <2>3
<1>4. ASSUME \A i \in s : LevelRank(i.level) < 2
      PROVE top = {}
  <2>1. ds = {}
    BY <1>4, RestsOnAFinding, Ranks
  <2>2. findings = {}
    BY <1>4, Ranks
  <2>3. QED
    BY <2>1, <2>2, <1>1
<1>5. ASSUME NEW i \in s, i.level = "CRIT", NEW entry \in top
      PROVE entry.level = "CRIT"
  BY <1>1, <1>2, <1>5, Ranks
<1>6. top = {} <=> \A i \in s : LevelRank(i.level) < 2
  BY <1>3, <1>4, Ranks
<1> HIDE DEF top
<1>7. (\E i \in s : i.level = "CRIT") => \A entry \in top : entry.level = "CRIT"
  BY <1>5
<1>8. QED
  BY <1>6, <1>7 DEF top

-------------------------------------------------------------------------------
(* The run *)

DiagnosesOfInsights == diagnoses = Correlate(insights)

LEMMA NothingFromNothing == Correlate({}) = {}
  BY RestsOnAFinding

LEMMA Reported == Spec => []DiagnosesOfInsights
<1>1. Init => DiagnosesOfInsights
  BY NothingFromNothing DEF Init, DiagnosesOfInsights
<1>2. DiagnosesOfInsights /\ [Next]_vars => DiagnosesOfInsights'
  <2> SUFFICES ASSUME DiagnosesOfInsights, [Next]_vars
               PROVE DiagnosesOfInsights'
    OBVIOUS
  <2>1. CASE Report
    BY <2>1 DEF Report, DiagnosesOfInsights
  <2>2. ASSUME NEW c \in DOMAIN results, Deliver(c)
        PROVE DiagnosesOfInsights'
    BY <2>2 DEF Deliver, DiagnosesOfInsights
  <2>3. CASE UNCHANGED vars
    BY <2>3 DEF vars, DiagnosesOfInsights
  <2>4. QED
    BY <2>1, <2>2, <2>3 DEF Next
<1>3. QED
  BY <1>1, <1>2, PTL DEF Spec

\* A collector that failed leaves an insight under its name that says so.
FailuresDisclosed ==
  stage = "reported" =>
    \A c \in DOMAIN results : results[c].kind = "failed" => Unread(c) \in insights

LEMMA DisclosureOfFailure ==
  ASSUME NEW res, NEW s, NEW c \in DOMAIN res, res[c].kind = "failed"
  PROVE Unread(c) \in ApplyThresholds(res, s)
<1>1. Deduplicated(res)[c].kind = "failed"
  BY DEF Deduplicated, HasData
<1>2. InsightsOf(Deduplicated(res), c, s) = {Unread(c)}
  BY <1>1 DEF InsightsOf
<1>3. QED
  BY <1>2 DEF ApplyThresholds

\* heuristics.go:66: for every panel, policy and order in which results arrive, and
\* whatever the other collectors returned.
THEOREM FailureIsDisclosed == Spec => []FailuresDisclosed
<1> DEFINE AllIn == stage = "reported" => \A c \in DOMAIN results : results[c] # Running
<1>1. Init => AllIn /\ FailuresDisclosed
  BY DEF Init, FailuresDisclosed
<1>2. AllIn /\ FailuresDisclosed /\ [Next]_vars => AllIn' /\ FailuresDisclosed'
  <2> SUFFICES ASSUME AllIn, FailuresDisclosed, [Next]_vars
               PROVE AllIn' /\ FailuresDisclosed'
    OBVIOUS
  <2>1. CASE Report
    BY <2>1, DisclosureOfFailure DEF Report, FailuresDisclosed
  <2>2. ASSUME NEW c \in DOMAIN results, Deliver(c)
        PROVE AllIn' /\ FailuresDisclosed'
    <3>1. stage # "reported" /\ stage' = stage
      BY <2>2 DEF Deliver
    <3>2. QED
      BY <3>1 DEF FailuresDisclosed
  <2>3. CASE UNCHANGED vars
    BY <2>3 DEF vars, FailuresDisclosed
  <2>4. QED
    BY <2>1, <2>2, <2>3 DEF Next
<1>3. QED
  BY <1>1, <1>2, PTL DEF Spec

\* correlate.go:434: no run blames a full run queue on the disks, on the hypervisor
\* and on the processes at once, nor a memory shortage on swap and on its absence:
\* for all data and thresholds, no two diagnoses of one run exclude each other.
THEOREM NoContradictions == Spec => []ContradictionsExcluded
<1>1. DiagnosesOfInsights => ContradictionsExcluded
  <2> SUFFICES ASSUME DiagnosesOfInsights, NEW pair \in Contradictions,
                      pair \subseteq {d.name : d \in diagnoses}
               PROVE FALSE
    BY DEF ContradictionsExcluded
  <2>1. PICK one, other : pair = {one, other}
    BY DEF Contradictions
  <2>2. PICK d \in Correlate(insights) : d.name = one
    BY <2>1 DEF DiagnosesOfInsights
  <2>3. PICK e \in Correlate(insights) : e.name = other
    BY <2>1 DEF DiagnosesOfInsights
  <2>4. QED
    BY <2>1, <2>2, <2>3, OneCauseOfAPair
<1>2. QED
  BY <1>1, Reported, PTL

\* topcatch.go:47: for all data and thresholds, the line a reader sees first is
\* there when there is something to see, it is CRIT when a finding is, and no
\* diagnosis names a check without a finding.
THEOREM TopCatchGrounded == Spec => []TopCatchIsGrounded
<1>1. DiagnosesOfInsights => TopCatchIsGrounded
  BY TopCatchOfFindings, Grounded DEF DiagnosesOfInsights, TopCatchIsGrounded, Enough
<1>2. QED
  BY <1>1, Reported, PTL

-------------------------------------------------------------------------------
(* A report of the benchmark *)

\* An overridden verdict alone loses its references.
Row(r) ==
  /\ r.rule \in DOMAIN ruleByID
  /\ r.nis2 \subseteq NIS2Refs[r.rule] /\ r.bsi \subseteq BSIRefs[r.rule]
  /\ r.verdict # "unverified" => r.nis2 = NIS2Refs[r.rule] /\ r.bsi = BSIRefs[r.rule]
Grouped == groups \in {None, GroupByNIS2(report), GroupByBSI(report)}
RowsAndGroups ==
  /\ phase \in {"start", "collected", "evaluated", "done"}
  /\ phase \in {"start", "collected"} => groups = None
  /\ phase \in {"evaluated", "done"} => \A r \in report : Row(r)
  /\ phase = "evaluated" => groups = None
  /\ phase = "done" => Grouped

LEMMA RowsOfRules ==
  ASSUME NEW rule \in CISRules, NEW facts, NEW stig
  PROVE Row(Result(rule, facts, stig))
<1>1. rule.id \in DOMAIN ruleByID
  BY DEF ruleByID
<1>2. QED
  BY <1>1 DEF Row, Result

LEMMA Rows == CISSpec => []RowsAndGroups
<1>1. CISInit => RowsAndGroups
  BY DEF CISInit, RowsAndGroups
<1>2. RowsAndGroups /\ [CISNext]_cisVars => RowsAndGroups'
  <2> SUFFICES ASSUME RowsAndGroups, [CISNext]_cisVars
               PROVE RowsAndGroups'
    OBVIOUS
  <2>1. CASE Collect
    BY <2>1 DEF Collect, RowsAndGroups
  <2>2. CASE Evaluate
    <3>1. \A r \in report' : Row(r)
      BY <2>2, RowsOfRules DEF Evaluate, Selected
    <3>2. QED
      BY <2>2, <3>1 DEF Evaluate, RowsAndGroups
  <2>3. CASE ShowBSI
    BY <2>3 DEF ShowBSI, RowsAndGroups, Grouped
  <2>4. CASE ShowNIS2
    BY <2>4 DEF ShowNIS2, RowsAndGroups, Grouped
  <2>5. CASE ShowReport
    BY <2>5 DEF ShowReport, RowsAndGroups, Grouped
  <2>6. CASE UNCHANGED cisVars
    BY <2>6 DEF cisVars, RowsAndGroups, Grouped
  <2>7. QED
    BY <2>1, <2>2, <2>3, <2>4, <2>5, <2>6 DEF CISNext
<1>3. QED
  BY <1>1, <1>2, PTL DEF CISSpec

\* The articles of NIS2 are not the requirements of the BSI.
LEMMA TwoMappings == DOMAIN NIS2 # DOMAIN BSI
<1>1. "AutoUpdate" \in DOMAIN BSI
  BY DEF BSI, Requirements, Operations
<1>2. "AutoUpdate" \notin DOMAIN NIS2
  BY DEF NIS2
<1>3. QED
  BY <1>1, <1>2

LEMMA StatusOfFailure ==
  ASSUME NEW verdicts
  PROVE /\ "fail" \in verdicts => NIS2Status(verdicts) \in {"FAIL", "PARTIAL"}
        /\ "fail" \in verdicts => BSIStatus(verdicts) \in {"FAIL", "PARTIAL"}
        /\ NIS2Status(verdicts) = "PASS" => "pass" \in verdicts
        /\ BSIStatus(verdicts) = "PASS" => "pass" \in verdicts
  BY DEF NIS2Status, BSIStatus

\* For each mapping, the verdicts a group is made of are those of the rules that
\* are evidence for it, but for the overridden ones.
LEMMA EvidenceOfNIS2 ==
  ASSUME \A r \in report : Row(r), NEW a \in DOMAIN NIS2
  PROVE LET shown == {r.verdict : r \in {s \in report : a \in s.nis2}}
        IN  /\ "fail" \in GroupVerdicts(NIS2, a) => "fail" \in shown
            /\ shown \subseteq GroupVerdicts(NIS2, a)
  BY DEF Row, GroupVerdicts, NIS2Refs, Refs

LEMMA EvidenceOfBSI ==
  ASSUME \A r \in report : Row(r), NEW q \in DOMAIN BSI
  PROVE LET shown == {r.verdict : r \in {s \in report : q \in s.bsi}}
        IN  /\ "fail" \in GroupVerdicts(BSI, q) => "fail" \in shown
            /\ shown \subseteq GroupVerdicts(BSI, q)
  BY DEF Row, GroupVerdicts, BSIRefs, Refs

\* nis2.go:476, bsi.go:608: for every host, user and command line, a rule that
\* failed shows in each article or requirement it is evidence for, and none passes
\* without a rule that passed, whatever the overridden verdicts lost.
THEOREM FailuresAreShown == CISSpec => []FailuresShow
<1>1. RowsAndGroups => FailuresShow
  <2> SUFFICES ASSUME RowsAndGroups, phase = "done",
                      NEW mapping \in {NIS2, BSI}, groups # None,
                      DOMAIN groups = DOMAIN mapping, NEW g \in DOMAIN groups
               PROVE /\ "fail" \in GroupVerdicts(mapping, g) => groups[g] \in {"FAIL", "PARTIAL"}
                     /\ groups[g] = "PASS" => "pass" \in GroupVerdicts(mapping, g)
    BY DEF FailuresShow
  <2>1. \A r \in report : Row(r)
    BY DEF RowsAndGroups
  <2>2. DOMAIN GroupByNIS2(report) = DOMAIN NIS2 /\ DOMAIN GroupByBSI(report) = DOMAIN BSI
    BY DEF GroupByNIS2, GroupByBSI
  <2>3. \/ groups = GroupByNIS2(report) /\ mapping = NIS2
        \/ groups = GroupByBSI(report) /\ mapping = BSI
    BY <2>2, TwoMappings DEF RowsAndGroups, Grouped
  <2>4. CASE groups = GroupByNIS2(report) /\ mapping = NIS2
    <3>1. groups[g] = NIS2Status({r.verdict : r \in {s \in report : g \in s.nis2}})
      BY <2>2, <2>4 DEF GroupByNIS2
    <3>2. QED
      BY <2>1, <2>2, <2>4, <3>1, EvidenceOfNIS2, StatusOfFailure
  <2>5. CASE groups = GroupByBSI(report) /\ mapping = BSI
    <3>1. groups[g] = BSIStatus({r.verdict : r \in {s \in report : g \in s.bsi}})
      BY <2>2, <2>5 DEF GroupByBSI
    <3>2. QED
      BY <2>1, <2>2, <2>5, <3>1, EvidenceOfBSI, StatusOfFailure
  <2>6. QED
    BY <2>3, <2>4, <2>5
<1>2. QED
  BY <1>1, Rows, PTL

\* No two rules of one selection are shown under one number.
LEMMA NumbersOfTheirOwn ==
  ASSUME NEW asked \in Flags, NEW r \in Selected(asked), NEW s \in Selected(asked),
         ShownId(r, asked.stig) = ShownId(s, asked.stig)
  PROVE r = s
<1>1. r \in CISRules /\ s \in CISRules
  BY DEF Selected
<1>2. asked.stig \in BOOLEAN
  BY FlagsAssumption
<1>3. InBenchmark(r, asked.stig) /\ InBenchmark(s, asked.stig)
  BY DEF Selected
<1>4. CASE ~asked.stig
  BY <1>1, <1>4, TableAssumption DEF ShownId
<1>5. CASE asked.stig
  <2>1. ASSUME NEW x \in {r, s}, NEW y \in {r, s}, x.framework = "BOTH", y.framework = "STIG"
        PROVE x.stig # y.id
    BY <1>1, <1>3, <1>5, <2>1 DEF InBenchmark, StigOwned
  <2>2. \A x \in {r, s} :
          \/ x.framework = "STIG" /\ ShownId(x, TRUE) = x.id
          \/ x.framework = "BOTH" /\ ShownId(x, TRUE) = x.stig /\ x.stig # ""
    BY <1>1, <1>3, <1>5, TableAssumption DEF InBenchmark, ShownId
  <2>3. CASE r.framework = s.framework
    <3>1. CASE r.framework = "STIG"
      <4>1. r.id = s.id
        BY <1>5, <2>2, <2>3, <3>1
      <4>2. QED
        BY <1>1, <4>1, TableAssumption
    <3>2. CASE r.framework = "BOTH"
      <4>1. r.stig = s.stig /\ r.stig # ""
        BY <1>5, <2>2, <2>3, <3>2
      <4>2. QED
        BY <1>1, <4>1, TableAssumption
    <3>3. QED
      BY <2>2, <3>1, <3>2
  <2>4. QED
    BY <1>5, <2>1, <2>2, <2>3
<1>6. QED
  BY <1>2, <1>4, <1>5

LEMMA AsManyNumbersAsRules ==
  ASSUME NEW asked \in Flags
  PROVE Cardinality({ShownId(r, asked.stig) : r \in Selected(asked)}) = Cardinality(Selected(asked))
<1> DEFINE numbers == {ShownId(r, asked.stig) : r \in Selected(asked)}
           number == [r \in Selected(asked) |-> ShownId(r, asked.stig)]
<1>1. IsFiniteSet(Selected(asked))
  <2>1. Selected(asked) \subseteq CISRules
    BY DEF Selected
  <2>2. QED
    BY <2>1, TableAssumption, FS_Subset
<1>2. number \in Injection(Selected(asked), numbers)
  BY NumbersOfTheirOwn DEF Injection, IsInjective
<1>3. number \in Surjection(Selected(asked), numbers)
  BY DEF Surjection
<1>4. ExistsBijection(Selected(asked), numbers)
  BY <1>2, <1>3 DEF ExistsBijection, Bijection
<1>5. QED
  BY <1>1, <1>4, FS_Bijection

\* A rule that makes way for another one leaves it its number, at its level.
LEMMA NoControlLost ==
  ASSUME NEW asked \in Flags, NEW rule \in CISRules, rule.level =< asked.level,
         rule.framework = "BOTH" \/ (asked.stig <=> rule.framework = "STIG")
  PROVE \E r \in Selected(asked) : ShownId(r, asked.stig) = ShownId(rule, asked.stig)
<1>1. asked.stig \in BOOLEAN
  BY FlagsAssumption
<1>2. CASE rule \in Selected(asked)
  BY <1>2
<1>3. CASE rule \notin Selected(asked)
  <2>1. asked.stig /\ rule.framework = "BOTH" /\ rule.stig \in StigOwned
    BY <1>1, <1>3, TableAssumption DEF Selected, InBenchmark
  <2>2. PICK r \in CISRules : r.framework = "STIG" /\ r.id = rule.stig
    BY <2>1 DEF StigOwned
  <2>3. r.level = rule.level /\ r.stig = ""
    BY <2>2, TableAssumption
  <2>4. r \in Selected(asked)
    BY <2>1, <2>2, <2>3 DEF Selected, InBenchmark
  <2>5. ShownId(r, asked.stig) = ShownId(rule, asked.stig)
    BY <2>1, <2>2, <2>3, TableAssumption DEF ShownId
  <2>6. QED
    BY <2>4, <2>5
<1>4. QED
  BY <1>2, <1>3

ReportOfView ==
  /\ host \in Hosts /\ hidden \in HiddenSets /\ flags \in Flags
  /\ phase \in {"start", "collected", "evaluated", "done"}
  /\ phase \in {"collected", "evaluated"} => given = Given(host, hidden, delivered)
  /\ phase = "evaluated" => report = {Result(r, given, flags.stig) : r \in Selected(flags)}

LEMMA Views == CISSpec => []ReportOfView
<1>1. CISInit => ReportOfView
  BY DEF CISInit, ReportOfView
<1>2. ReportOfView /\ [CISNext]_cisVars => ReportOfView'
  <2> SUFFICES ASSUME ReportOfView, [CISNext]_cisVars
               PROVE  ReportOfView'
    OBVIOUS
  <2>1. CASE Collect
    BY <2>1 DEF Collect, ReportOfView
  <2>2. CASE Evaluate
    BY <2>2 DEF Evaluate, ReportOfView
  <2>3. CASE ShowBSI \/ ShowNIS2 \/ ShowReport
    BY <2>3 DEF ShowBSI, ShowNIS2, ShowReport, ReportOfView
  <2>4. CASE UNCHANGED cisVars
    BY <2>4 DEF cisVars, ReportOfView
  <2>5. QED
    BY <2>1, <2>2, <2>3, <2>4 DEF CISNext
<1>3. QED
  BY <1>1, <1>2, PTL DEF CISSpec

\* rules.go:5886: whatever was asked for and whatever the rules were given, every
\* control of the benchmark is in the report and has a number of its own.
THEOREM EachControlShownOnce == CISSpec => []EachControlOnce
<1>1. ReportOfView => EachControlOnce
  <2> SUFFICES ASSUME ReportOfView, phase = "evaluated"
               PROVE  /\ Cardinality({r.id : r \in report}) = Cardinality(Selected(flags))
                      /\ {ShownId(r, flags.stig) :
                            r \in {s \in CISRules : s.level =< flags.level /\ Wanted(s)}}
                           \subseteq {r.id : r \in report}
    BY DEF EachControlOnce
  <2>1. {r.id : r \in report} = {ShownId(r, flags.stig) : r \in Selected(flags)}
    <3>1. \A r : Result(r, given, flags.stig).id = ShownId(r, flags.stig)
      BY DEF Result
    <3>2. QED
      BY <3>1 DEF ReportOfView
  <2>2. Cardinality({r.id : r \in report}) = Cardinality(Selected(flags))
    BY <2>1, AsManyNumbersAsRules DEF ReportOfView
  <2>3. ASSUME NEW s \in CISRules, s.level =< flags.level, Wanted(s)
        PROVE ShownId(s, flags.stig) \in {r.id : r \in report}
    BY <2>1, <2>3, NoControlLost DEF Wanted, ReportOfView
  <2>4. QED
    BY <2>2, <2>3
<1>2. QED
  BY <1>1, Views, PTL

-------------------------------------------------------------------------------
(* What a user is given who may not read all that is root's *)

LEMMA OverlayDomain == \A f, g : DOMAIN (f ++ g) = DOMAIN f \cup DOMAIN g
  BY DEF ++

LEMMA OverlayValue ==
  \A f, g, i : /\ i \in DOMAIN f => (f ++ g)[i] = f[i]
               /\ i \in DOMAIN g /\ i \notin DOMAIN f => (f ++ g)[i] = g[i]
  BY DEF ++

LEMMA Least ==
  ASSUME NEW T, T \subseteq Nat, T # {}
  PROVE /\ Min(T) \in T
        /\ \A y \in T : Min(T) =< y
<1> DEFINE below == OpToRel(<, Nat)
<1>1. \A x, y \in Nat : <<y, x>> \in below <=> y < x
  BY SMT DEF OpToRel
<1>2. IsWellFoundedOn(below, Nat)
  BY NatLessThanWellFounded
<1> HIDE DEF below
<1>3. PICK x \in T : \A y \in T : <<y, x>> \notin below
  BY <1>2, WFMin
<1>4. ASSUME NEW y \in T PROVE x =< y
  <2>1. x \in Nat /\ y \in Nat
    OBVIOUS
  <2>2. ~(y < x)
    BY <1>1, <1>3, <2>1
  <2>3. QED
    BY <2>1, <2>2
<1>5. QED
  BY <1>4 DEF Min

-------------------------------------------------------------------------------
\* The items each part of what Hardening delivers may name.
SSHZone == SSHFields \cup {"SSHConfigUnreadable", "SSHAuditSource"}
SudoZone == SudoFields \cup {"SudoersUnreadable"}
ShadowZone == ShadowFields \cup {"ShadowUnreadable"}
FirewallZone == {"FirewallActive", "FirewallUnreadable"}
AuditZone == {"AuditRules", "AuditRulesUnreadable"}
AIDEZone == {"AIDE", "AIDEDB"}
PublicFacts(h) == [f \in PublicFields \cap DOMAIN h |-> h[f]]
Zoned == UNION {SSHZone, SudoZone, ShadowZone, FirewallZone, AuditZone, AIDEZone, PublicFields,
                KernelSecFields, {"audit rule files"}}

LEMMA Zones ==
  ASSUME NEW h, NEW hid
  PROVE /\ DOMAIN SSHFacts(h, hid) \subseteq SSHZone
        /\ DOMAIN SudoFacts(h, hid) \subseteq SudoZone
        /\ DOMAIN AccountFacts(h, hid) \subseteq ShadowZone
        /\ DOMAIN FirewallFacts(h, hid) \subseteq FirewallZone
        /\ DOMAIN AuditFacts(h, hid) \subseteq AuditZone
        /\ DOMAIN AIDEFacts(h, hid) \subseteq AIDEZone
        /\ DOMAIN KernelSec(h, hid) \subseteq KernelSecFields
<1>1. DOMAIN SSHFacts(h, hid) \subseteq SSHZone
  <2>1. /\ DOMAIN WithDefaults(h, DaemonDefault) \subseteq SSHFields
        /\ DOMAIN WithDefaults(h, FileDefault) \subseteq SSHFields
    BY DEF WithDefaults
  <2>2. DOMAIN CompiledSSH \subseteq SSHFields
    <3> DEFINE x == [f \in OnUnlessSet |-> "wrong"]
               y == [f \in Lists \cup {"ClientAliveInterval"} |-> "unset"]
               z == [f \in WrongUnlessSet |-> "wrong"]
    <3>1. CompiledSSH = x ++ (y ++ z)
      BY DEF CompiledSSH, NothingSet
    <3>2. UNION {DOMAIN x, DOMAIN y, DOMAIN z} \subseteq SSHFields
      BY DEF SSHFields
    <3> HIDE DEF x, y, z
    <3>3. DOMAIN CompiledSSH = DOMAIN x \cup (DOMAIN y \cup DOMAIN z)
      <4>1. DOMAIN CompiledSSH = DOMAIN x \cup DOMAIN (y ++ z)
        BY <3>1, OverlayDomain
      <4>2. QED
        BY <4>1, OverlayDomain
    <3>4. QED
      BY <3>2, <3>3
  <2>3. \A x \in {<<>>, [SSHAuditSource |-> "none"]} : DOMAIN x \subseteq {"SSHAuditSource"}
    OBVIOUS
  <2>4. QED
    BY <2>1, <2>2, <2>3, OverlayDomain DEF SSHFacts, SSHZone
<1>2. DOMAIN SudoFacts(h, hid) \subseteq SudoZone
  <2> DEFINE x == IF Has(h, "sudoers") THEN [SudoersUnreadable |-> "set"] ELSE <<>>
  <2>1. DOMAIN x \subseteq SudoZone /\ DOMAIN NoDefaults \subseteq SudoZone
    BY DEF NoDefaults, SudoZone, SudoFields
  <2>2. \/ DOMAIN SudoFacts(h, hid) \subseteq SudoFields
        \/ SudoFacts(h, hid) = NoDefaults ++ x
    BY DEF SudoFacts
  <2> HIDE DEF x
  <2>3. QED
    BY <2>1, <2>2, OverlayDomain DEF SudoZone
<1>3. DOMAIN AccountFacts(h, hid) \subseteq ShadowZone
  BY DEF AccountFacts, ShadowZone
<1>4. DOMAIN FirewallFacts(h, hid) \subseteq FirewallZone
  BY DEF FirewallFacts, FirewallZone
<1>5. DOMAIN AuditFacts(h, hid) \subseteq AuditZone
  BY DEF AuditFacts, AuditZone
<1>6. DOMAIN AIDEFacts(h, hid) \subseteq AIDEZone
  <2> DEFINE x == IF "AIDE database" \in hid THEN [AIDEDB |-> "none"] ELSE <<>>
             y == [f \in {"AIDE", "AIDEDB"} \cap DOMAIN h |-> h[f]]
  <2>1. DOMAIN x \subseteq AIDEZone
    <3>1. x = [AIDEDB |-> "none"] \/ x = <<>>
      OBVIOUS
    <3>2. DOMAIN [AIDEDB |-> "none"] = {"AIDEDB"}
      OBVIOUS
    <3> HIDE DEF x
    <3>3. QED
      BY <3>1, <3>2 DEF AIDEZone
  <2>2. DOMAIN y \subseteq AIDEZone
    BY DEF AIDEZone
  <2>3. AIDEFacts(h, hid) = x ++ y
    BY DEF AIDEFacts
  <2> HIDE DEF x, y
  <2>4. DOMAIN AIDEFacts(h, hid) = DOMAIN x \cup DOMAIN y
    BY <2>3, OverlayDomain
  <2>5. QED
    BY <2>1, <2>2, <2>4
<1>7. DOMAIN KernelSec(h, hid) \subseteq KernelSecFields
  <2> DEFINE x == IF "profiles" \in hid /\ Has(h, "profiles") THEN [MACMode |-> "unknown"] ELSE <<>>
             y == [f \in {"MAC", "MACMode"} \cap DOMAIN h |-> h[f]]
  <2>1. DOMAIN x \subseteq KernelSecFields /\ DOMAIN y \subseteq KernelSecFields
    BY DEF KernelSecFields
  <2>2. KernelSec(h, hid) = x ++ y
    BY DEF KernelSec
  <2> HIDE DEF x, y
  <2>3. DOMAIN KernelSec(h, hid) = DOMAIN x \cup DOMAIN y
    BY <2>2, OverlayDomain
  <2>4. QED
    BY <2>1, <2>3
<1>8. QED
  BY <1>1, <1>2, <1>3, <1>4, <1>5, <1>6, <1>7

\* The items that are fields of the collectors, not files; and that two of the
\* functions agree on an item.
AllFields == HardeningFields \cup KernelSecFields
Same(f, g, i) == (i \in DOMAIN f <=> i \in DOMAIN g) /\ (i \in DOMAIN g => f[i] = g[i])

\* No two parts name one item, so that the order they are put together in does
\* not matter.
LEMMA HardeningZones ==
  ASSUME NEW h, NEW hid, NEW i
  PROVE /\ i \in SSHZone => Same(Hardening(h, hid), SSHFacts(h, hid), i)
        /\ i \in SudoZone => Same(Hardening(h, hid), SudoFacts(h, hid), i)
        /\ i \in ShadowZone => Same(Hardening(h, hid), AccountFacts(h, hid), i)
        /\ i \in FirewallZone => Same(Hardening(h, hid), FirewallFacts(h, hid), i)
        /\ i \in AuditZone => Same(Hardening(h, hid), AuditFacts(h, hid), i)
        /\ i \in AIDEZone => Same(Hardening(h, hid), AIDEFacts(h, hid), i)
        /\ i \in PublicFields =>
             Same(Hardening(h, hid), PublicFacts(h), i)
        /\ i \in DOMAIN Hardening(h, hid) =>
             i \in UNION {SSHZone, SudoZone, ShadowZone, FirewallZone, AuditZone, AIDEZone,
                          PublicFields}
<1> DEFINE s == SSHFacts(h, hid)
           u == SudoFacts(h, hid)
           a == AccountFacts(h, hid)
           w == FirewallFacts(h, hid)
           d == AuditFacts(h, hid)
           e == AIDEFacts(h, hid)
           p == PublicFacts(h)
<1>1. Hardening(h, hid) = s ++ u ++ a ++ w ++ d ++ e ++ p
  BY DEF Hardening, PublicFacts
<1>2. /\ DOMAIN s \subseteq SSHZone /\ DOMAIN u \subseteq SudoZone /\ DOMAIN a \subseteq ShadowZone
      /\ DOMAIN w \subseteq FirewallZone /\ DOMAIN d \subseteq AuditZone
      /\ DOMAIN e \subseteq AIDEZone /\ DOMAIN p \subseteq PublicFields
  BY Zones DEF PublicFacts
<1> HIDE DEF s, u, a, w, d, e, p
<1>6. i \in SSHZone =>
        i \notin UNION {SudoZone, ShadowZone, FirewallZone, AuditZone, AIDEZone, PublicFields}
  BY DEF SSHZone, SudoZone, ShadowZone, FirewallZone, AuditZone, AIDEZone, PublicFields,
         SSHFields, SudoFields, ShadowFields, OnUnlessSet, SafeUnlessSet, WrongUnlessSet,
         OffUnlessSet, Lists
<1>7. /\ i \in SudoZone => i \notin UNION {ShadowZone, FirewallZone, AuditZone, AIDEZone, PublicFields}
      /\ i \in ShadowZone => i \notin UNION {FirewallZone, AuditZone, AIDEZone, PublicFields}
      /\ i \in FirewallZone => i \notin UNION {AuditZone, AIDEZone, PublicFields}
      /\ i \in AuditZone => i \notin UNION {AIDEZone, PublicFields}
      /\ i \in AIDEZone => i \notin PublicFields
  BY DEF SudoZone, ShadowZone, FirewallZone, AuditZone, AIDEZone, PublicFields, SudoFields, ShadowFields
<1>8. i \in DOMAIN Hardening(h, hid) <=>
        i \in UNION {DOMAIN s, DOMAIN u, DOMAIN a, DOMAIN w, DOMAIN d, DOMAIN e, DOMAIN p}
  <2>1. \A f, g : i \in DOMAIN (f ++ g) <=> i \in DOMAIN f \/ i \in DOMAIN g
    BY OverlayDomain
  <2>2. i \in DOMAIN Hardening(h, hid) <=> i \in DOMAIN (s ++ u ++ a ++ w ++ d ++ e ++ p)
    BY <1>1
  <2>3. QED
    BY <2>1, <2>2
<1>9. \A f, g : /\ i \notin DOMAIN f => Same(f ++ g, g, i)
                /\ i \notin DOMAIN g => Same(f ++ g, f, i)
  <2> SUFFICES ASSUME NEW f, NEW g
               PROVE  /\ i \notin DOMAIN f => Same(f ++ g, g, i)
                      /\ i \notin DOMAIN g => Same(f ++ g, f, i)
    OBVIOUS
  <2>1. DOMAIN (f ++ g) = DOMAIN f \cup DOMAIN g
    BY OverlayDomain
  <2>2. /\ i \in DOMAIN f => (f ++ g)[i] = f[i]
        /\ i \in DOMAIN g /\ i \notin DOMAIN f => (f ++ g)[i] = g[i]
    BY OverlayValue
  <2>3. QED
    BY <2>1, <2>2 DEF Same
<1>10. i \in SSHZone => Same(Hardening(h, hid), s, i)
  BY <1>1, <1>2, <1>6, <1>9 DEF Same
<1>11. i \in SudoZone => Same(Hardening(h, hid), u, i)
  BY <1>1, <1>2, <1>6, <1>7, <1>9 DEF Same
<1>12. i \in ShadowZone => Same(Hardening(h, hid), a, i)
  BY <1>1, <1>2, <1>6, <1>7, <1>9 DEF Same
<1>13. i \in FirewallZone => Same(Hardening(h, hid), w, i)
  BY <1>1, <1>2, <1>6, <1>7, <1>9 DEF Same
<1>14. i \in AuditZone => Same(Hardening(h, hid), d, i)
  BY <1>1, <1>2, <1>6, <1>7, <1>9 DEF Same
<1>15. i \in AIDEZone => Same(Hardening(h, hid), e, i)
  BY <1>1, <1>2, <1>6, <1>7, <1>9 DEF Same
<1>16. i \in PublicFields => Same(Hardening(h, hid), p, i)
  BY <1>1, <1>2, <1>6, <1>7, <1>9 DEF Same
<1>17. QED
  BY <1>2, <1>8, <1>10, <1>11, <1>12, <1>13, <1>14, <1>15, <1>16 DEF s, u, a, w, d, e, p

\* What a rule is given for an item comes from one place.
LEMMA GivenReading ==
  ASSUME NEW h, NEW hid, NEW i
  PROVE LET fields == Hardening(h, hid) ++ KernelSec(h, hid)
        IN Reading(Given(h, hid, Collectors), i) =
             IF i \in DOMAIN Hardening(h, hid) THEN Hardening(h, hid)[i]
             ELSE IF i \in DOMAIN KernelSec(h, hid) THEN KernelSec(h, hid)[i]
             ELSE IF i = "audit rule files" THEN AuditFiles(h, hid, fields)
             ELSE IF i \in AllFields THEN "fine" ELSE FileReading(h, hid, i)
<1> DEFINE fields == Hardening(h, hid) ++ KernelSec(h, hid)
           files == (DOMAIN h \cup hid \cup DOMAIN Inside) \ AllFields
           audit == [j \in {"audit rule files"} |-> AuditFiles(h, hid, fields)]
           read == [j \in files |-> FileReading(h, hid, j)]
           all == fields ++ audit ++ read
<1>1. Given(h, hid, Collectors) = all
  BY DEF Given, Collectors, AllFields
<1>2. i \notin files \cup AllFields => FileReading(h, hid, i) = "fine"
  BY DEF FileReading, Readable
<1>3. DOMAIN audit = {"audit rule files"} /\ DOMAIN read = files
  OBVIOUS
<1>4. /\ i \in DOMAIN audit => audit[i] = AuditFiles(h, hid, fields)
      /\ i \in DOMAIN read => read[i] = FileReading(h, hid, i)
  BY <1>3
<1>5. DOMAIN KernelSec(h, hid) \subseteq AllFields
  BY Zones DEF AllFields
<1> HIDE DEF fields, files, audit, read
<1>6. \A f, g : Reading(f ++ g, i) = IF i \in DOMAIN f THEN f[i] ELSE Reading(g, i)
  <2> SUFFICES ASSUME NEW f, NEW g
               PROVE  Reading(f ++ g, i) = IF i \in DOMAIN f THEN f[i] ELSE Reading(g, i)
    OBVIOUS
  <2>1. DOMAIN (f ++ g) = DOMAIN f \cup DOMAIN g
    BY OverlayDomain
  <2>2. /\ i \in DOMAIN f => (f ++ g)[i] = f[i]
        /\ i \in DOMAIN g /\ i \notin DOMAIN f => (f ++ g)[i] = g[i]
    BY OverlayValue
  <2>3. QED
    BY <2>1, <2>2 DEF Reading
<1>7. Reading(all, i) =
        IF i \in DOMAIN (fields ++ audit) THEN (fields ++ audit)[i] ELSE Reading(read, i)
  BY <1>6
<1>8. /\ DOMAIN (fields ++ audit) = DOMAIN fields \cup DOMAIN audit
      /\ i \in DOMAIN fields => (fields ++ audit)[i] = fields[i]
      /\ i \in DOMAIN audit /\ i \notin DOMAIN fields => (fields ++ audit)[i] = audit[i]
  <2>1. DOMAIN (fields ++ audit) = DOMAIN fields \cup DOMAIN audit
    BY OverlayDomain
  <2>2. /\ i \in DOMAIN fields => (fields ++ audit)[i] = fields[i]
        /\ i \in DOMAIN audit /\ i \notin DOMAIN fields => (fields ++ audit)[i] = audit[i]
    BY OverlayValue
  <2>3. QED
    BY <2>1, <2>2
<1>9. /\ DOMAIN fields = DOMAIN Hardening(h, hid) \cup DOMAIN KernelSec(h, hid)
      /\ i \in DOMAIN Hardening(h, hid) => fields[i] = Hardening(h, hid)[i]
      /\ i \in DOMAIN KernelSec(h, hid) /\ i \notin DOMAIN Hardening(h, hid) =>
           fields[i] = KernelSec(h, hid)[i]
  <2> DEFINE a == Hardening(h, hid)
             b == KernelSec(h, hid)
  <2>1. fields = a ++ b
    BY DEF fields
  <2> HIDE DEF a, b
  <2>2. DOMAIN (a ++ b) = DOMAIN a \cup DOMAIN b
    BY OverlayDomain
  <2>3. /\ i \in DOMAIN a => (a ++ b)[i] = a[i]
        /\ i \in DOMAIN b /\ i \notin DOMAIN a => (a ++ b)[i] = b[i]
    BY OverlayValue
  <2>4. QED
    BY <2>1, <2>2, <2>3 DEF a, b
<1>10. Reading(all, i) =
         IF i \in DOMAIN Hardening(h, hid) THEN Hardening(h, hid)[i]
         ELSE IF i \in DOMAIN KernelSec(h, hid) THEN KernelSec(h, hid)[i]
         ELSE IF i = "audit rule files" THEN AuditFiles(h, hid, fields)
         ELSE Reading(read, i)
  <2>1. CASE i \in DOMAIN Hardening(h, hid)
    BY <1>7, <1>8, <1>9, <2>1
  <2>2. CASE i \in DOMAIN KernelSec(h, hid) /\ i \notin DOMAIN Hardening(h, hid)
    BY <1>7, <1>8, <1>9, <2>2
  <2>3. CASE i \notin DOMAIN fields
    BY <1>3, <1>4, <1>7, <1>8, <1>9, <2>3
  <2>4. QED
    BY <1>9, <2>1, <2>2, <2>3
<1>11. Reading(read, i) = IF i \in AllFields THEN "fine" ELSE FileReading(h, hid, i)
  <2>1. i \in files => i \notin AllFields
    BY DEF files
  <2>2. QED
    BY <1>2, <1>3, <1>4, <2>1 DEF Reading
<1>12. QED
  BY <1>1, <1>10, <1>11 DEF fields

\* What is read of an item that no part names.
Elsewhere(h, hid, i) == IF i \in AllFields THEN "fine" ELSE FileReading(h, hid, i)
ReadingIn(piece, h, hid, i) == IF i \in DOMAIN piece THEN piece[i] ELSE Elsewhere(h, hid, i)

\* What a rule is given for an item, by the part that may name it.
View(h, hid, i) == Reading(Given(h, hid, Collectors), i)

LEMMA ZoneReading ==
  ASSUME NEW h, NEW hid, NEW i
  PROVE /\ i \in SSHZone => View(h, hid, i) = ReadingIn(SSHFacts(h, hid), h, hid, i)
        /\ i \in SudoZone => View(h, hid, i) = ReadingIn(SudoFacts(h, hid), h, hid, i)
        /\ i \in ShadowZone => View(h, hid, i) = ReadingIn(AccountFacts(h, hid), h, hid, i)
        /\ i \in FirewallZone => View(h, hid, i) = ReadingIn(FirewallFacts(h, hid), h, hid, i)
        /\ i \in AuditZone => View(h, hid, i) = ReadingIn(AuditFacts(h, hid), h, hid, i)
        /\ i \in AIDEZone => View(h, hid, i) = ReadingIn(AIDEFacts(h, hid), h, hid, i)
        /\ i \in PublicFields =>
             View(h, hid, i) = ReadingIn(PublicFacts(h), h, hid, i)
        /\ i \in KernelSecFields => View(h, hid, i) = ReadingIn(KernelSec(h, hid), h, hid, i)
        /\ i = "audit rule files" =>
             View(h, hid, i) = AuditFiles(h, hid, Hardening(h, hid) ++ KernelSec(h, hid))
        /\ i \notin Zoned => View(h, hid, i) = Elsewhere(h, hid, i)
<1> DEFINE given1 == View(h, hid, i)
           zones == UNION {SSHZone, SudoZone, ShadowZone, FirewallZone, AuditZone, AIDEZone,
                           PublicFields}
<1>1. given1 = IF i \in DOMAIN Hardening(h, hid) THEN Hardening(h, hid)[i]
               ELSE IF i \in DOMAIN KernelSec(h, hid) THEN KernelSec(h, hid)[i]
               ELSE IF i = "audit rule files"
               THEN AuditFiles(h, hid, Hardening(h, hid) ++ KernelSec(h, hid))
               ELSE Elsewhere(h, hid, i)
  BY GivenReading DEF Elsewhere, View
<1>2. DOMAIN KernelSec(h, hid) \subseteq KernelSecFields
  BY Zones
<1>3. i \in zones => i \notin KernelSecFields /\ i # "audit rule files"
  BY DEF SSHZone, SudoZone, ShadowZone, FirewallZone, AuditZone, AIDEZone, PublicFields,
         KernelSecFields, SSHFields, SudoFields, ShadowFields, OnUnlessSet, SafeUnlessSet,
         WrongUnlessSet, OffUnlessSet, Lists
<1>4. "audit rule files" \notin KernelSecFields
  BY DEF KernelSecFields
<1>5. i \in DOMAIN Hardening(h, hid) => i \in zones
  BY HardeningZones
<1> HIDE DEF given1, zones
<1>6. ASSUME NEW p, Same(Hardening(h, hid), p, i), i \in zones
      PROVE given1 = ReadingIn(p, h, hid, i)
  BY <1>1, <1>2, <1>3, <1>6 DEF Same, ReadingIn
<1>7. i \in KernelSecFields => given1 = ReadingIn(KernelSec(h, hid), h, hid, i)
  BY <1>1, <1>3, <1>4, <1>5 DEF ReadingIn
<1>8. i = "audit rule files" =>
        given1 = AuditFiles(h, hid, Hardening(h, hid) ++ KernelSec(h, hid))
  BY <1>1, <1>2, <1>3, <1>4, <1>5
<1>9. i \notin zones \cup KernelSecFields \cup {"audit rule files"} => given1 = Elsewhere(h, hid, i)
  BY <1>1, <1>2, <1>5
<1>10. QED
  BY <1>6, <1>7, <1>8, <1>9, HardeningZones DEF given1, zones, Zoned

\* The user is given for an item what root is given; he has lost it, and something
\* he is given tells so.
Kept(h, hid, i) == View(h, hid, i) = View(h, {}, i)
Lost(h, hid, i) ==
  \E loss \in Losses : /\ loss.item = i
                       /\ View(h, hid, i) = loss.seen
                       /\ View(h, hid, loss.sign) = loss.shown

\* What everybody may read reads the same for everybody.
LEMMA FileKept ==
  ASSUME NEW h, NEW hid, hid \subseteq Guarded, NEW i, i \notin Guarded \cup DOMAIN Unseen
  PROVE /\ FileReading(h, hid, i) = FileReading(h, {}, i)
        /\ Elsewhere(h, hid, i) = Elsewhere(h, {}, i)
<1>1. i \notin hid
  OBVIOUS
<1>2. i \in DOMAIN Inside => Inside[i] \in {"/etc/login.defs", "faillock.conf"}
  BY DEF Inside
<1>3. i \in DOMAIN Inside => Inside[i] \notin hid
  BY <1>2 DEF Guarded
<1>4. i \in DOMAIN Inside => (Readable(h, hid, Inside[i]) <=> Readable(h, {}, Inside[i]))
  BY <1>3 DEF Readable
<1>5. FileReading(h, hid, i) = FileReading(h, {}, i)
  BY <1>1, <1>4 DEF FileReading
<1>6. QED
  BY <1>5 DEF Elsewhere

LEMMA UnseenSources ==
  /\ DOMAIN Unseen = {"dot files", ".forward", ".netrc", ".rhosts", "log files"}
  /\ Unseen["dot files"] = "inside homes" /\ Unseen["log files"] = "log directories"
<1> DEFINE x == [f \in {"dot files", ".forward", ".netrc", ".rhosts"} |-> "inside homes"]
           y == [f \in {"log files"} |-> "log directories"]
<1>1. Unseen = x ++ y
  BY DEF Unseen
<1>2. DOMAIN (x ++ y) = DOMAIN x \cup DOMAIN y
  BY OverlayDomain
<1>3. (x ++ y)["dot files"] = x["dot files"]
  BY OverlayValue
<1>4. (x ++ y)["log files"] = y["log files"]
  <2>1. "log files" \in DOMAIN y /\ "log files" \notin DOMAIN x
    OBVIOUS
  <2>2. \A f, g, i : i \in DOMAIN g /\ i \notin DOMAIN f => (f ++ g)[i] = g[i]
    BY OverlayValue
  <2> HIDE DEF x, y
  <2>3. QED
    BY <2>1, <2>2
<1>5. QED
  BY <1>1, <1>2, <1>3, <1>4

\* No field of the collectors is a source, nor is what tells that one was lost.
LEMMA FieldsAreNoSources ==
  ASSUME NEW i \in UNION {SSHZone, SudoZone, ShadowZone, FirewallZone, AuditZone, AIDEZone,
                          PublicFields, KernelSecFields}
  PROVE i \notin Guarded \cup DOMAIN Unseen
<1>1. CASE i \in SSHZone
  BY <1>1, UnseenSources DEF SSHZone, SSHFields, OnUnlessSet, SafeUnlessSet, WrongUnlessSet,
                    OffUnlessSet, Lists, Guarded
<1>2. CASE i \in UNION {SudoZone, ShadowZone, FirewallZone, AuditZone, AIDEZone,
                        PublicFields, KernelSecFields}
  BY <1>2, UnseenSources DEF SudoZone, ShadowZone, FirewallZone, AuditZone, AIDEZone, PublicFields,
                    KernelSecFields, SudoFields, ShadowFields, Guarded
<1>3. QED
  BY <1>1, <1>2

LEMMA ReadableUnhidden ==
  ASSUME NEW h, NEW hid, NEW source
  PROVE /\ Readable(h, hid, source) => Readable(h, {}, source)
        /\ Readable(h, {}, source) /\ ~Readable(h, hid, source) =>
             source \in hid /\ Has(h, source)
  BY DEF Readable, Has

LEMMA SudoLost ==
  ASSUME NEW h, NEW hid, hid \subseteq Guarded, NEW i \in SudoZone
  PROVE Kept(h, hid, i) \/ Lost(h, hid, i)
<1> DEFINE flag == [SudoersUnreadable |-> "set"]
           loss == Loss(i, IF i = "SudoersUnreadable" THEN "set"
                           ELSE IF i \in DOMAIN NoDefaults THEN "wrong" ELSE "fine",
                        "SudoersUnreadable", "set")
<1>1. /\ View(h, hid, i) = ReadingIn(SudoFacts(h, hid), h, hid, i)
      /\ View(h, {}, i) = ReadingIn(SudoFacts(h, {}), h, {}, i)
  <2>1. \A v : View(h, v, i) = ReadingIn(SudoFacts(h, v), h, v, i)
    BY ZoneReading
  <2>2. QED
    BY <2>1
<1>2. Elsewhere(h, hid, i) = Elsewhere(h, {}, i)
  BY FileKept, FieldsAreNoSources
<1>3. CASE SudoFacts(h, hid) = SudoFacts(h, {})
  BY <1>1, <1>2, <1>3 DEF Kept, ReadingIn
<1>4. CASE Readable(h, {}, "sudoers") /\ ~Readable(h, hid, "sudoers")
  <2>1. SudoFacts(h, hid) = NoDefaults ++ flag
    BY <1>4, ReadableUnhidden DEF SudoFacts
  <2>2. DOMAIN flag = {"SudoersUnreadable"} /\ flag["SudoersUnreadable"] = "set"
    OBVIOUS
  <2>3. /\ DOMAIN NoDefaults = {"SudoDefaultsPTY", "SudoDefaultsLogfile"}
        /\ \A f \in DOMAIN NoDefaults : NoDefaults[f] = "wrong"
    BY DEF NoDefaults
  <2> HIDE DEF flag
  <2>4. DOMAIN SudoFacts(h, hid) = DOMAIN NoDefaults \cup DOMAIN flag
    BY <2>1, OverlayDomain
  <2>5. \A f \in DOMAIN NoDefaults : SudoFacts(h, hid)[f] = "wrong"
    BY <2>1, <2>3, OverlayValue
  <2>6. SudoFacts(h, hid)["SudoersUnreadable"] = "set"
    BY <2>1, <2>2, <2>3, OverlayValue
  <2>7. View(h, hid, "SudoersUnreadable") = "set"
    <3>1. "SudoersUnreadable" \in SudoZone
      BY DEF SudoZone
    <3>2. View(h, hid, "SudoersUnreadable")
            = ReadingIn(SudoFacts(h, hid), h, hid, "SudoersUnreadable")
      BY <3>1, ZoneReading
    <3>3. QED
      BY <2>2, <2>4, <2>6, <3>2 DEF ReadingIn
  <2>8. View(h, hid, i) = loss.seen
    <3>1. CASE i = "SudoersUnreadable"
      BY <2>7, <3>1 DEF Loss
    <3>2. CASE i \in DOMAIN NoDefaults
      BY <1>1, <2>3, <2>4, <2>5, <3>2 DEF ReadingIn, Loss
    <3>3. CASE i \in SudoFields \ DOMAIN NoDefaults
      <4>1. i \notin DOMAIN SudoFacts(h, hid) /\ i \in AllFields /\ i # "SudoersUnreadable"
        BY <2>2, <2>4, <3>3 DEF AllFields, HardeningFields, SudoFields
      <4>2. QED
        BY <1>1, <3>3, <4>1 DEF ReadingIn, Elsewhere, Loss
    <3>4. QED
      BY <3>1, <3>2, <3>3 DEF SudoZone
  <2>9. loss \in Losses
    BY DEF Losses, SudoZone, Loss, SudoFields
  <2>10. loss.item = i /\ loss.sign = "SudoersUnreadable" /\ loss.shown = "set"
    BY DEF Loss
  <2>11. QED
    BY <2>7, <2>8, <2>9, <2>10 DEF Lost
<1>5. QED
  BY <1>3, <1>4, ReadableUnhidden DEF SudoFacts

LEMMA ShadowLost ==
  ASSUME NEW h, NEW hid, hid \subseteq Guarded, NEW i \in ShadowZone
  PROVE Kept(h, hid, i) \/ Lost(h, hid, i)
<1> DEFINE loss == Loss(i, IF i = "ShadowUnreadable" THEN "set" ELSE "fine", "ShadowUnreadable", "set")
<1>1. \A v : View(h, v, i) = ReadingIn(AccountFacts(h, v), h, v, i)
  BY ZoneReading
<1>2. Elsewhere(h, hid, i) = Elsewhere(h, {}, i)
  BY FileKept, FieldsAreNoSources
<1>3. CASE AccountFacts(h, hid) = AccountFacts(h, {})
  BY <1>1, <1>2, <1>3 DEF Kept, ReadingIn
<1>4. CASE Readable(h, {}, "shadow") /\ ~Readable(h, hid, "shadow")
  <2>1. AccountFacts(h, hid) = [ShadowUnreadable |-> "set"]
    BY <1>4, ReadableUnhidden DEF AccountFacts
  <2>2. DOMAIN AccountFacts(h, hid) = {"ShadowUnreadable"}
    BY <2>1
  <2>3. AccountFacts(h, hid)["ShadowUnreadable"] = "set"
    BY <2>1
  <2>4. View(h, hid, "ShadowUnreadable") = "set"
    <3>1. "ShadowUnreadable" \in ShadowZone
      BY DEF ShadowZone
    <3>2. View(h, hid, "ShadowUnreadable")
            = ReadingIn(AccountFacts(h, hid), h, hid, "ShadowUnreadable")
      BY <3>1, ZoneReading
    <3>3. QED
      BY <2>2, <2>3, <3>2 DEF ReadingIn
  <2>5. View(h, hid, i) = loss.seen
    <3>1. CASE i = "ShadowUnreadable"
      BY <2>4, <3>1 DEF Loss
    <3>2. CASE i \in ShadowFields
      <4>1. i \notin DOMAIN AccountFacts(h, hid) /\ i \in AllFields /\ i # "ShadowUnreadable"
        BY <2>2, <3>2 DEF AllFields, HardeningFields, ShadowFields
      <4>2. QED
        BY <1>1, <4>1 DEF ReadingIn, Elsewhere, Loss
    <3>3. QED
      BY <3>1, <3>2 DEF ShadowZone
  <2>6. loss \in Losses
    BY DEF Losses, ShadowZone, Loss, ShadowFields
  <2>7. loss.item = i /\ loss.sign = "ShadowUnreadable" /\ loss.shown = "set"
    BY DEF Loss
  <2>8. QED
    BY <2>4, <2>5, <2>6, <2>7 DEF Lost
<1>5. QED
  BY <1>3, <1>4, ReadableUnhidden DEF AccountFacts

LEMMA FirewallLost ==
  ASSUME NEW h, NEW hid, hid \subseteq Guarded, NEW i \in FirewallZone
  PROVE Kept(h, hid, i) \/ Lost(h, hid, i)
<1> DEFINE loss == Loss(i, IF i = "FirewallUnreadable" THEN "set" ELSE "off", "FirewallUnreadable", "set")
<1>1. \A v, j : j \in FirewallZone => View(h, v, j) = ReadingIn(FirewallFacts(h, v), h, v, j)
  BY ZoneReading
<1>2. Elsewhere(h, hid, i) = Elsewhere(h, {}, i)
  BY FileKept, FieldsAreNoSources
<1>3. CASE "firewall" \notin hid
  <2>1. FirewallFacts(h, hid) = FirewallFacts(h, {})
    BY <1>3 DEF FirewallFacts
  <2>2. QED
    BY <1>1, <1>2, <2>1 DEF Kept, ReadingIn
<1>4. CASE "firewall" \in hid
  <2>1. FirewallFacts(h, hid) = [FirewallUnreadable |-> "set", FirewallActive |-> "off"]
    BY <1>4 DEF FirewallFacts
  <2>2. /\ DOMAIN FirewallFacts(h, hid) = FirewallZone
        /\ FirewallFacts(h, hid)["FirewallUnreadable"] = "set"
        /\ FirewallFacts(h, hid)["FirewallActive"] = "off"
    BY <2>1 DEF FirewallZone
  <2>3. View(h, hid, "FirewallUnreadable") = "set" /\ View(h, hid, "FirewallActive") = "off"
    BY <1>1, <2>2 DEF FirewallZone, ReadingIn
  <2>4. loss \in Losses
    BY DEF Losses, FirewallZone, Loss
  <2>5. /\ loss.item = i /\ loss.sign = "FirewallUnreadable" /\ loss.shown = "set"
        /\ loss.seen = View(h, hid, i)
    BY <2>3 DEF Loss, FirewallZone
  <2>6. QED
    BY <2>3, <2>4, <2>5 DEF Lost
<1>5. QED
  BY <1>3, <1>4

LEMMA FieldsGiven ==
  ASSUME NEW h, NEW hid
  PROVE DOMAIN Hardening(h, hid) \subseteq DOMAIN Given(h, hid, Collectors)
<1> DEFINE fields == Hardening(h, hid) ++ KernelSec(h, hid)
           files == (DOMAIN h \cup hid \cup DOMAIN Inside) \ AllFields
           audit == [j \in {"audit rule files"} |-> AuditFiles(h, hid, fields)]
           read == [j \in files |-> FileReading(h, hid, j)]
<1>1. Given(h, hid, Collectors) = fields ++ audit ++ read
  BY DEF Given, Collectors, AllFields
<1>2. DOMAIN Hardening(h, hid) \subseteq DOMAIN fields
  BY OverlayDomain
<1> HIDE DEF fields, audit, read
<1>3. DOMAIN (fields ++ audit ++ read) = DOMAIN (fields ++ audit) \cup DOMAIN read
  BY OverlayDomain
<1>4. DOMAIN (fields ++ audit) = DOMAIN fields \cup DOMAIN audit
  BY OverlayDomain
<1>5. QED
  BY <1>1, <1>2, <1>3, <1>4

\* auditctl counts as refused whenever its rules are kept from the user.
LEMMA AuditLost ==
  ASSUME NEW h, NEW hid, hid \subseteq Guarded, NEW i \in AuditZone
  PROVE Kept(h, hid, i) \/ "AuditRulesUnreadable" \in DOMAIN Given(h, hid, Collectors)
<1>1. \A v : View(h, v, i) = ReadingIn(AuditFacts(h, v), h, v, i)
  BY ZoneReading
<1>2. Elsewhere(h, hid, i) = Elsewhere(h, {}, i)
  BY FileKept, FieldsAreNoSources
<1>3. CASE "auditctl" \in hid /\ Has(h, "AuditRules")
  <2>1. "AuditRulesUnreadable" \in DOMAIN AuditFacts(h, hid)
    BY <1>3 DEF AuditFacts
  <2>2. "AuditRulesUnreadable" \in DOMAIN Hardening(h, hid)
    BY <2>1, HardeningZones DEF AuditZone, Same
  <2>3. QED
    BY <2>2, FieldsGiven
<1>4. CASE ~("auditctl" \in hid /\ Has(h, "AuditRules"))
  <2>1. AuditFacts(h, hid) = AuditFacts(h, {})
    BY <1>4 DEF AuditFacts
  <2>2. QED
    BY <1>1, <1>2, <2>1 DEF Kept, ReadingIn
<1>5. QED
  BY <1>3, <1>4

LEMMA AIDEKept ==
  ASSUME NEW h, NEW hid, hid \subseteq Guarded, NEW i \in AIDEZone
  PROVE Kept(h, hid, i) \/ i \in LosesSilently
<1> SUFFICES ASSUME i = "AIDE" PROVE Kept(h, hid, i)
  BY DEF AIDEZone, LosesSilently
<1>1. \A v : View(h, v, i) = ReadingIn(AIDEFacts(h, v), h, v, i)
  BY ZoneReading
<1>2. Elsewhere(h, hid, i) = Elsewhere(h, {}, i)
  BY FileKept, FieldsAreNoSources
<1>3. ASSUME NEW v
      PROVE Same(AIDEFacts(h, v), [f \in {"AIDE", "AIDEDB"} \cap DOMAIN h |-> h[f]], i)
  <2> DEFINE x == IF "AIDE database" \in v THEN [AIDEDB |-> "none"] ELSE <<>>
             y == [f \in {"AIDE", "AIDEDB"} \cap DOMAIN h |-> h[f]]
  <2>1. i \notin DOMAIN x
    <3>1. x = [AIDEDB |-> "none"] \/ x = <<>>
      OBVIOUS
    <3>2. DOMAIN [AIDEDB |-> "none"] = {"AIDEDB"}
      OBVIOUS
    <3> HIDE DEF x
    <3>3. QED
      BY <3>1, <3>2
  <2>2. AIDEFacts(h, v) = x ++ y
    BY DEF AIDEFacts
  <2> HIDE DEF x, y
  <2>3. DOMAIN (x ++ y) = DOMAIN x \cup DOMAIN y
    BY OverlayDomain
  <2>4. i \in DOMAIN y /\ i \notin DOMAIN x => (x ++ y)[i] = y[i]
    BY OverlayValue
  <2>5. Same(AIDEFacts(h, v), y, i)
    BY <2>1, <2>2, <2>3, <2>4 DEF Same
  <2>6. QED
    BY <2>5 DEF y
<1>4. Same(AIDEFacts(h, hid), AIDEFacts(h, {}), i)
  BY <1>3 DEF Same
<1>5. QED
  BY <1>1, <1>2, <1>4 DEF Kept, ReadingIn, Same

LEMMA KernelSecLost ==
  ASSUME NEW h, NEW hid, hid \subseteq Guarded, NEW i \in KernelSecFields
  PROVE Kept(h, hid, i) \/ Lost(h, hid, i)
<1>1. \A v : View(h, v, i) = ReadingIn(KernelSec(h, v), h, v, i)
  BY ZoneReading
<1>2. Elsewhere(h, hid, i) = Elsewhere(h, {}, i)
  BY FileKept, FieldsAreNoSources
<1> DEFINE flag == [MACMode |-> "unknown"]
           y == [f \in {"MAC", "MACMode"} \cap DOMAIN h |-> h[f]]
           loss == Loss("MACMode", "unknown", "MACMode", "unknown")
<1>3. CASE ~("profiles" \in hid /\ Has(h, "profiles"))
  <2>1. KernelSec(h, hid) = KernelSec(h, {})
    BY <1>3 DEF KernelSec
  <2>2. QED
    BY <1>1, <1>2, <2>1 DEF Kept, ReadingIn
<1>4. CASE "profiles" \in hid /\ Has(h, "profiles")
  <2>1. KernelSec(h, hid) = flag ++ y /\ KernelSec(h, {}) = <<>> ++ y
    BY <1>4 DEF KernelSec
  <2>2. DOMAIN flag = {"MACMode"} /\ flag["MACMode"] = "unknown"
    OBVIOUS
  <2> HIDE DEF flag, y
  <2>3. /\ DOMAIN KernelSec(h, hid) = DOMAIN flag \cup DOMAIN y
        /\ DOMAIN KernelSec(h, {}) = DOMAIN <<>> \cup DOMAIN y
    <3>1. DOMAIN (flag ++ y) = DOMAIN flag \cup DOMAIN y
      BY OverlayDomain
    <3>2. DOMAIN (<<>> ++ y) = DOMAIN <<>> \cup DOMAIN y
      BY OverlayDomain
    <3>3. QED
      BY <2>1, <3>1, <3>2
  <2>4. /\ i \in DOMAIN flag => (flag ++ y)[i] = flag[i]
        /\ i \in DOMAIN y /\ i \notin DOMAIN flag => (flag ++ y)[i] = y[i]
        /\ i \in DOMAIN y /\ i \notin DOMAIN <<>> => (<<>> ++ y)[i] = y[i]
    <3>1. \A f : /\ i \in DOMAIN f => (f ++ y)[i] = f[i]
                 /\ i \in DOMAIN y /\ i \notin DOMAIN f => (f ++ y)[i] = y[i]
      BY OverlayValue
    <3>2. QED
      BY <3>1
  <2>5. DOMAIN <<>> = {}
    OBVIOUS
  <2>6. CASE i = "MACMode"
    <3>1. View(h, hid, i) = "unknown"
      BY <1>1, <2>1, <2>2, <2>3, <2>4, <2>6 DEF ReadingIn
    <3>2. loss \in Losses /\ loss.item = i /\ loss.sign = i
          /\ loss.seen = "unknown" /\ loss.shown = "unknown"
      BY <2>6 DEF Losses, Loss
    <3>3. QED
      BY <3>1, <3>2 DEF Lost
  <2>7. CASE i # "MACMode"
    <3>1. Same(KernelSec(h, hid), KernelSec(h, {}), i)
      BY <2>1, <2>2, <2>3, <2>4, <2>5, <2>7 DEF Same
    <3>2. QED
      BY <1>1, <1>2, <3>1 DEF Kept, ReadingIn, Same
  <2>8. QED
    BY <2>6, <2>7
<1>5. QED
  BY <1>3, <1>4

LEMMA PublicKept ==
  ASSUME NEW h, NEW hid, hid \subseteq Guarded, NEW i \in PublicFields
  PROVE Kept(h, hid, i)
<1>1. \A v : View(h, v, i) = ReadingIn(PublicFacts(h), h, v, i)
  BY ZoneReading
<1>2. Elsewhere(h, hid, i) = Elsewhere(h, {}, i)
  BY FileKept, FieldsAreNoSources
<1>3. QED
  BY <1>1, <1>2 DEF Kept, ReadingIn

LEMMA AuditFilesLost ==
  ASSUME NEW h, NEW hid
  PROVE Kept(h, hid, "audit rule files") \/ Lost(h, hid, "audit rule files")
<1> DEFINE i == "audit rule files"
<1>1. ASSUME NEW v
      PROVE  View(h, v, i) = AuditFiles(h, v, Hardening(h, v) ++ KernelSec(h, v))
  BY ZoneReading
<1>2. CASE Readable(h, hid, i)
  BY <1>1, <1>2, ReadableUnhidden DEF Kept, AuditFiles
<1>3. CASE ~Readable(h, hid, i)
  <2>1. View(h, hid, i) \in {"none", "hidden"}
    BY <1>1, <1>3 DEF AuditFiles
  <2> DEFINE loss == Loss(i, View(h, hid, i), i, View(h, hid, i))
  <2>2. loss \in Losses
    BY <2>1 DEF Losses
  <2>3. loss.item = i /\ loss.sign = i /\ loss.seen = View(h, hid, i) /\ loss.shown = loss.seen
    BY DEF Loss
  <2>4. QED
    BY <2>2, <2>3 DEF Lost
<1>4. QED
  BY <1>2, <1>3

\* A file the rule reads itself says that it was refused; what is looked for inside
\* it is not found.
LEMMA SourceLost ==
  ASSUME NEW h, NEW hid, hid \subseteq Guarded, NEW i, i \notin Zoned
  PROVE Kept(h, hid, i) \/ Lost(h, hid, i) \/ i \in LosesSilently
<1>1. \A v, j : j \notin Zoned => View(h, v, j) = Elsewhere(h, v, j)
  BY ZoneReading
<1>2. \A source \in Guarded \ {"audit rule files"} :
        source \notin Zoned \cup AllFields \cup DOMAIN Unseen \cup DOMAIN Inside
  <2> SUFFICES ASSUME NEW source \in Guarded, source # "audit rule files"
               PROVE source \notin Zoned \cup AllFields \cup DOMAIN Unseen \cup DOMAIN Inside
    OBVIOUS
  <2>1. source \notin Zoned
    BY FieldsAreNoSources DEF Zoned
  <2>2. source \notin DOMAIN Unseen \cup DOMAIN Inside
    BY UnseenSources DEF Guarded, Inside
  <2>3. source # "SUIDBinaries"
    BY DEF Guarded
  <2>4. QED
    BY <2>1, <2>2, <2>3 DEF AllFields, HardeningFields, Zoned, SSHZone, SudoZone, ShadowZone,
                            FirewallZone, AuditZone, AIDEZone
<1>3. CASE i \in AllFields
  BY <1>1, <1>3 DEF Kept, Elsewhere
<1>4. CASE i \notin Guarded \cup DOMAIN Unseen
  BY <1>1, <1>4, FileKept DEF Kept
<1>5. CASE i \in Guarded
  <2>1. i \notin AllFields \cup DOMAIN Unseen \cup DOMAIN Inside /\ i # "audit rule files"
    BY <1>2, <1>5 DEF Zoned
  <2>2. \/ FileReading(h, hid, i) = FileReading(h, {}, i)
        \/ FileReading(h, hid, i) = "refused"
    BY <2>1 DEF FileReading
  <2>3. \/ View(h, hid, i) = View(h, {}, i)
        \/ View(h, hid, i) = "refused"
    BY <1>1, <2>1, <2>2 DEF Elsewhere
  <2> DEFINE loss == Loss(i, "refused", i, "refused")
  <2>4. /\ loss \in Losses
        /\ loss.item = i /\ loss.sign = i /\ loss.seen = "refused" /\ loss.shown = "refused"
    BY <1>5, <2>1 DEF Losses, Loss
  <2>5. QED
    BY <2>3, <2>4 DEF Kept, Lost
<1>6. CASE i \in DOMAIN Unseen /\ i \notin AllFields \cup Guarded
  <2> DEFINE source == Unseen[i]
             loss == Loss(i, "fine", source, "refused")
  <2>1. i \notin DOMAIN Inside /\ i \notin hid
    BY <1>6, UnseenSources DEF Inside
  <2>2. CASE Readable(h, hid, source) <=> Readable(h, {}, source)
    <3>1. FileReading(h, hid, i) = FileReading(h, {}, i)
      BY <1>6, <2>1, <2>2 DEF FileReading
    <3>2. QED
      BY <1>1, <1>6, <3>1 DEF Kept, Elsewhere
  <2>3. CASE Readable(h, {}, source) /\ ~Readable(h, hid, source) /\ i \notin LosesSilently
    <3>1. i \in {"dot files", "log files"}
      BY <1>6, <2>3, UnseenSources DEF LosesSilently
    <3>2. source \in {"inside homes", "log directories"}
      BY <3>1, UnseenSources
    <3>3. source \in Guarded \ {"audit rule files"}
      BY <3>2 DEF Guarded
    <3>4. source \in hid /\ Has(h, source)
      BY <2>3, ReadableUnhidden
    <3>5. View(h, hid, source) = "refused"
      BY <1>1, <1>2, <3>3, <3>4 DEF Elsewhere, FileReading
    <3>6. View(h, hid, i) = "fine"
      BY <1>1, <1>6, <2>1, <2>3 DEF Elsewhere, FileReading
    <3>7. loss \in Losses
      BY <3>1, UnseenSources DEF Losses
    <3>8. loss.item = i /\ loss.sign = source /\ loss.seen = "fine" /\ loss.shown = "refused"
      BY DEF Loss
    <3>9. QED
      BY <3>5, <3>6, <3>7, <3>8 DEF Lost
  <2>4. QED
    BY <2>2, <2>3, ReadableUnhidden
<1>7. QED
  BY <1>3, <1>4, <1>5, <1>6

\* The lists and counts the two parsers of sshd differ on.
LEMMA SSHLost ==
  ASSUME NEW h \in Hosts, NEW hid \in HiddenSets, NEW i \in SSHZone
  PROVE \/ Kept(h, hid, i)
        \/ "drop-in" \in DOMAIN h
        \/ SSHConfigUnverified(Given(h, hid, Collectors))
        \/ /\ i \in DOMAIN DaemonDefault /\ "sshd_config" \notin hid
           /\ View(h, hid, i) = FileDefault[i] /\ View(h, {}, i) = DaemonDefault[i]
<1>1. \A v : View(h, v, i) = ReadingIn(SSHFacts(h, v), h, v, i)
  BY ZoneReading
<1>2. Elsewhere(h, hid, i) = Elsewhere(h, {}, i)
  BY FileKept, FieldsAreNoSources, HiddenAssumption
<1>3. CASE SSHFacts(h, hid) = SSHFacts(h, {})
  BY <1>1, <1>2, <1>3 DEF Kept, ReadingIn
<1>4. CASE /\ Readable(h, {}, "sshd -T") /\ ~Readable(h, hid, "sshd -T")
           /\ Readable(h, hid, "sshd_config")
  <2>1. /\ SSHFacts(h, hid) = WithDefaults(h, FileDefault)
        /\ SSHFacts(h, {}) = WithDefaults(h, DaemonDefault)
    BY <1>4 DEF SSHFacts
  <2>2. "sshd_config" \notin hid
    BY <1>4 DEF Readable
  <2>3. CASE i \notin DOMAIN SSHFacts(h, hid)
    BY <1>1, <1>2, <2>1, <2>3 DEF Kept, ReadingIn, WithDefaults
  <2>4. CASE i \in DOMAIN SSHFacts(h, hid)
    <3>1. i \in SSHFields \cap DOMAIN h
      BY <2>1, <2>4 DEF WithDefaults
    <3>2. /\ View(h, hid, i) = IF h[i] = "default" THEN FileDefault[i] ELSE h[i]
          /\ View(h, {}, i) = IF h[i] = "default" THEN DaemonDefault[i] ELSE h[i]
      BY <1>1, <2>1, <3>1 DEF ReadingIn, WithDefaults
    <3>3. h[i] = "default" => i \in DOMAIN DaemonDefault
      BY <3>1, HostsAssumption
    <3>4. QED
      BY <2>2, <3>2, <3>3 DEF Kept
  <2>5. QED
    BY <2>3, <2>4
<1>5. CASE ~Readable(h, hid, "sshd -T") /\ ~Readable(h, hid, "sshd_config") /\ "drop-in" \notin DOMAIN h
  <2> DEFINE x == [SSHConfigUnreadable |-> "set"]
             y == [SSHAuditSource |-> "none"]
  <2>1. SSHFacts(h, hid) = CompiledSSH ++ x ++ y
    BY <1>5 DEF SSHFacts
  <2>2. DOMAIN x = {"SSHConfigUnreadable"} /\ DOMAIN y = {"SSHAuditSource"}
    OBVIOUS
  <2> HIDE DEF x, y
  <2>3. DOMAIN (CompiledSSH ++ x ++ y) = DOMAIN (CompiledSSH ++ x) \cup DOMAIN y
    BY OverlayDomain
  <2>4. DOMAIN (CompiledSSH ++ x) = DOMAIN CompiledSSH \cup DOMAIN x
    BY OverlayDomain
  <2>5. {"SSHConfigUnreadable", "SSHAuditSource"} \subseteq DOMAIN SSHFacts(h, hid)
    BY <2>1, <2>2, <2>3, <2>4
  <2>6. {"SSHConfigUnreadable", "SSHAuditSource"} \subseteq DOMAIN Hardening(h, hid)
    <3>1. \A f \in {"SSHConfigUnreadable", "SSHAuditSource"} : f \in SSHZone
      BY DEF SSHZone
    <3>2. \A f \in SSHZone : Same(Hardening(h, hid), SSHFacts(h, hid), f)
      BY HardeningZones
    <3>3. QED
      BY <2>5, <3>1, <3>2 DEF Same
  <2>7. QED
    BY <2>6, FieldsGiven DEF SSHConfigUnverified
<1>6. CASE Readable(h, hid, "sshd -T")
  BY <1>3, <1>6, ReadableUnhidden DEF SSHFacts
<1>7. CASE ~Readable(h, {}, "sshd -T") /\ Readable(h, hid, "sshd_config")
  BY <1>3, <1>7, ReadableUnhidden DEF SSHFacts
<1>8. QED
  BY <1>4, <1>5, <1>6, <1>7

\* The tests of a rule that hold for what it is given.
Meets(rule, j, facts) == Reading(facts, rule.tests[j].item) \in rule.tests[j].readings
Met(rule, facts) == {j \in DOMAIN rule.tests : Meets(rule, j, facts)}

\* The first of them gives the verdict.
LEMMA FirstTestDecides ==
  ASSUME NEW rule \in CISRules, NEW facts
  PROVE /\ Met(rule, facts) = {} => Verdict(rule, facts) = rule.otherwise
        /\ Met(rule, facts) # {} =>
             \E k \in Met(rule, facts) : /\ Verdict(rule, facts) = rule.tests[k].verdict
                                         /\ \A j \in Met(rule, facts) : k =< j
<1>1. Met(rule, facts) \subseteq Nat
  BY LossAssumption DEF Met
<1>2. Verdict(rule, facts) = IF Met(rule, facts) = {} THEN rule.otherwise
                             ELSE rule.tests[Min(Met(rule, facts))].verdict
  BY DEF Verdict, Met, Meets
<1>3. CASE Met(rule, facts) = {}
  BY <1>2, <1>3
<1>4. CASE Met(rule, facts) # {}
  <2>1. /\ Min(Met(rule, facts)) \in Met(rule, facts)
        /\ \A j \in Met(rule, facts) : Min(Met(rule, facts)) =< j
    BY <1>1, <1>4, Least
  <2>2. QED
    BY <1>2, <1>4, <2>1
<1>5. QED
  BY <1>3, <1>4

\* Where two users are given something else, a verdict that differs was decided
\* at a test that one of them meets and the other does not.
LEMMA WhereTheyPart ==
  ASSUME NEW rule \in CISRules, NEW f, NEW g, Verdict(rule, f) # Verdict(rule, g)
  PROVE \E n \in DOMAIN rule.tests :
          /\ Meets(rule, n, f) # Meets(rule, n, g)
          /\ \A k \in Met(rule, f) : ~(k < n)
<1>1. DOMAIN rule.tests \subseteq Nat
  BY LossAssumption
<1>2. Met(rule, f) \subseteq Nat /\ Met(rule, g) \subseteq Nat
  BY <1>1 DEF Met
<1>3. CASE Met(rule, f) = {}
  <2>1. Met(rule, g) # {}
    BY <1>3, FirstTestDecides
  <2>2. PICK n \in Met(rule, g) : TRUE
    BY <2>1
  <2>3. QED
    BY <1>3, <2>2 DEF Met
<1>4. CASE Met(rule, f) # {} /\ Met(rule, g) = {}
  <2>1. PICK n \in Met(rule, f) : \A k \in Met(rule, f) : n =< k
    BY <1>4, FirstTestDecides
  <2>2. QED
    BY <1>2, <1>4, <2>1 DEF Met
<1>5. CASE Met(rule, f) # {} /\ Met(rule, g) # {}
  <2>1. PICK k \in Met(rule, f) : /\ Verdict(rule, f) = rule.tests[k].verdict
                                  /\ \A j \in Met(rule, f) : k =< j
    BY <1>5, FirstTestDecides
  <2>2. PICK m \in Met(rule, g) : /\ Verdict(rule, g) = rule.tests[m].verdict
                                  /\ \A j \in Met(rule, g) : m =< j
    BY <1>5, FirstTestDecides
  <2>3. k # m /\ k \in Nat /\ m \in Nat
    BY <1>2, <2>1, <2>2
  <2>4. CASE k < m
    <3>1. k \notin Met(rule, g)
      BY <1>2, <2>2, <2>3, <2>4
    <3>2. QED
      BY <1>2, <2>1, <3>1 DEF Met
  <2>5. CASE m < k
    <3>1. m \notin Met(rule, f)
      BY <1>2, <2>1, <2>3, <2>5
    <3>2. \A j \in Met(rule, f) : ~(j < m)
      BY <1>2, <2>1, <2>3, <2>5
    <3>3. QED
      BY <2>2, <3>1, <3>2 DEF Met
  <2>6. QED
    BY <2>3, <2>4, <2>5
<1>6. QED
  BY <1>3, <1>4, <1>5

\* A rule that withholds its verdict on the loss of an item does so.
LEMMA Withheld ==
  ASSUME NEW rule \in CISRules, NEW facts, NEW n \in DOMAIN rule.tests, NEW loss,
         Withholds(rule, n, loss),
         Reading(facts, loss.item) = loss.seen, Reading(facts, loss.sign) = loss.shown,
         \A k \in Met(rule, facts) : ~(k < n)
  PROVE Verdict(rule, facts) \in {"skip", "unverified"}
<1>1. PICK k \in DOMAIN rule.tests :
        /\ rule.tests[k].item = loss.sign /\ loss.shown \in rule.tests[k].readings
        /\ rule.tests[k].verdict \in {"skip", "unverified"}
        /\ \A l \in n..(k - 1) :
             rule.tests[l].item = loss.item /\ loss.seen \notin rule.tests[l].readings
  BY DEF Withholds
<1>2. k \in Met(rule, facts)
  BY <1>1 DEF Met, Meets
<1>3. PICK m \in Met(rule, facts) : /\ Verdict(rule, facts) = rule.tests[m].verdict
                                    /\ \A j \in Met(rule, facts) : m =< j
  BY <1>2, FirstTestDecides
<1>4. k \in Nat /\ m \in Nat /\ n \in Nat /\ m =< k /\ ~(m < n)
  BY <1>2, <1>3, LossAssumption DEF Met
<1>5. m \notin n..(k - 1)
  BY <1>1, <1>3 DEF Met, Meets
<1>6. m = k
  BY <1>4, <1>5
<1>7. QED
  BY <1>1, <1>3, <1>6

\* What is exempted of a rule, of a user and of a host.
Excepted(rule, h, hid) ==
  \/ rule.id \in JudgedUnseen
  \/ rule.id \in NotInTheFile /\ "sshd_config" \notin hid
  \/ rule.section = "SSH" /\ "drop-in" \in DOMAIN h

\* Where root's verdict would differ, the test at which the two part is on an item
\* that this user has lost: either Overridden withdraws the verdict, or the rule
\* has met the sign of the loss.
LEMMA NoVerdictFlips ==
  ASSUME NEW rule \in CISRules, NEW h \in Hosts, NEW hid \in HiddenSets,
         LET facts == Given(h, hid, Collectors)
         IN  /\ Verdict(rule, facts) \in {"pass", "fail"}
             /\ ~Overridden(rule, facts, Verdict(rule, facts))
         , ~Excepted(rule, h, hid)
  PROVE Verdict(rule, Given(h, hid, Collectors)) = Verdict(rule, Given(h, {}, Collectors))
<1> DEFINE f == Given(h, hid, Collectors)
           g == Given(h, {}, Collectors)
<1> SUFFICES ASSUME Verdict(rule, f) # Verdict(rule, g) PROVE FALSE
  OBVIOUS
<1>1. PICK n \in DOMAIN rule.tests : /\ Meets(rule, n, f) # Meets(rule, n, g)
                                     /\ \A k \in Met(rule, f) : ~(k < n)
  BY WhereTheyPart
<1> DEFINE i == rule.tests[n].item
<1>2. ~Kept(h, hid, i)
  BY <1>1 DEF Kept, View, Meets
<1>3. hid \subseteq Guarded
  BY HiddenAssumption
<1>4. /\ i \in SSHFields \cup {"SSHConfigUnreadable"} => rule.section = "SSH" /\ rule.id # "5.2.1"
      /\ i = "AuditRules" => rule.id \in AuditVerdictAmbiguous
      /\ i \in LosesSilently => rule.id \in JudgedUnseen
      /\ i \notin {"SSHAuditSource", "AuditRulesUnreadable"}
      /\ i \in DOMAIN DaemonDefault => LosesDefault(rule, n, i)
      /\ \A loss \in Losses : loss.item = i => rule.id \in JudgedUnseen \/ Withholds(rule, n, loss)
  BY LossAssumption
<1>5. ASSUME NEW loss, Withholds(rule, n, loss), View(h, hid, loss.item) = loss.seen,
             View(h, hid, loss.sign) = loss.shown
      PROVE FALSE
  BY <1>1, <1>5, Withheld DEF View
<1>6. CASE i \in SSHZone
  <2>1. rule.section = "SSH" /\ rule.id # "5.2.1"
    BY <1>4, <1>6 DEF SSHZone
  <2>2. "drop-in" \notin DOMAIN h
    BY <2>1 DEF Excepted
  <2>3. ~SSHConfigUnverified(f)
    BY <2>1 DEF Overridden
  <2>4. /\ i \in DOMAIN DaemonDefault /\ "sshd_config" \notin hid
        /\ View(h, hid, i) = FileDefault[i] /\ View(h, {}, i) = DaemonDefault[i]
    BY <1>2, <1>6, <2>2, <2>3, SSHLost
  <2>5. rule.id \notin NotInTheFile
    BY <2>4 DEF Excepted
  <2>6. ~({FileDefault[i], DaemonDefault[i]} \subseteq rule.tests[n].readings)
    BY <1>1, <2>4 DEF Meets, View
  <2>7. Withholds(rule, n, Loss(i, FileDefault[i], i, FileDefault[i]))
    BY <1>4, <2>4, <2>5, <2>6 DEF LosesDefault
  <2>8. QED
    BY <1>5, <2>4, <2>7 DEF Loss
<1>7. CASE i \in AuditZone
  BY <1>2, <1>3, <1>4, <1>7, AuditLost DEF AuditZone, Overridden
<1>8. i \notin LosesSilently
  BY <1>4 DEF Excepted
<1>9. CASE i \notin SSHZone \cup AuditZone
  <2>1. Lost(h, hid, i)
    <3>1. CASE i \in Zoned
      <4>1. CASE i \in SudoZone
        BY <1>2, <1>3, <4>1, SudoLost
      <4>2. CASE i \in ShadowZone
        BY <1>2, <1>3, <4>2, ShadowLost
      <4>3. CASE i \in FirewallZone
        BY <1>2, <1>3, <4>3, FirewallLost
      <4>4. CASE i \in AIDEZone \cup PublicFields
        BY <1>2, <1>3, <1>8, <4>4, AIDEKept, PublicKept
      <4>5. CASE i \in KernelSecFields
        BY <1>2, <1>3, <4>5, KernelSecLost
      <4>6. CASE i = "audit rule files"
        BY <1>2, <4>6, AuditFilesLost
      <4>7. QED
        BY <1>9, <3>1, <4>1, <4>2, <4>3, <4>4, <4>5, <4>6 DEF Zoned
    <3>2. CASE i \notin Zoned
      BY <1>2, <1>3, <1>8, <3>2, SourceLost
    <3>3. QED
      BY <3>1, <3>2
  <2>2. PICK loss \in Losses : /\ loss.item = i /\ View(h, hid, i) = loss.seen
                               /\ View(h, hid, loss.sign) = loss.shown
    BY <2>1 DEF Lost
  <2>3. Withholds(rule, n, loss)
    BY <1>4, <2>2 DEF Excepted
  <2>4. QED
    BY <1>5, <2>2, <2>3
<1>10. QED
  BY <1>6, <1>7, <1>9

\* rules.go:5866: for every host, however many of its items are at fault, and every
\* user who is kept from some of root's sources, a rule that passes or fails for
\* him gives the verdict it gives to root, but for the exceptions named.
THEOREM NoViewFlips == CISSpec => []ViewNeverFlips
<1>1. ReportOfView => ViewNeverFlips
  <2> SUFFICES ASSUME ReportOfView, phase = "evaluated", delivered = Collectors,
                      NEW r \in report, r.verdict \in {"pass", "fail"}
               PROVE  \/ r.verdict = Verdict(ruleByID[r.rule], Given(host, {}, Collectors))
                      \/ r.rule \in JudgedUnseen
                      \/ r.rule \in NotInTheFile /\ "sshd_config" \notin hidden
                      \/ ruleByID[r.rule].section = "SSH" /\ "drop-in" \in DOMAIN host
    BY DEF ViewNeverFlips
  <2>1. given = Given(host, hidden, Collectors) /\ host \in Hosts /\ hidden \in HiddenSets
    BY DEF ReportOfView
  <2>2. PICK rule \in CISRules : r = Result(rule, given, flags.stig)
    BY DEF ReportOfView, Selected
  <2>3. /\ r.rule = rule.id /\ r.verdict = Verdict(rule, given)
        /\ ~Overridden(rule, given, Verdict(rule, given))
    BY <2>2 DEF Result
  <2>4. ruleByID[r.rule] = rule
    <3>1. ruleByID[rule.id] = CHOOSE x \in CISRules : x.id = rule.id
      BY DEF ruleByID
    <3>2. \A x \in CISRules : x.id = rule.id => x = rule
      BY TableAssumption
    <3>3. QED
      BY <2>3, <3>1, <3>2
  <2>5. CASE Excepted(rule, host, hidden)
    BY <2>3, <2>4, <2>5 DEF Excepted
  <2>6. CASE ~Excepted(rule, host, hidden)
    BY <2>1, <2>3, <2>4, <2>6, NoVerdictFlips
  <2>7. QED
    BY <2>5, <2>6
<1>2. QED
  BY <1>1, Views, PTL

================================================================================
