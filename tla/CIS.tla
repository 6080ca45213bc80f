----------------------------------- MODULE CIS -----------------------------------
(***************************************************************************)
(* dsd cis: two collectors run, every rule of the chosen benchmark and     *)
(* level gives its verdict on what they delivered, and --nis2 or --bsi     *)
(* rolls the verdicts up by the articles and requirements they are         *)
(* evidence for.                                                           *)
(***************************************************************************)
EXTENDS CISRules, SecurityFacts, FiniteSets

CONSTANTS
  Hosts,       \* the hosts to look at, each a function from items to readings
  HiddenSets,  \* for each user, the sources it may not read
  Flags        \* command lines: [level, stig, nis2, bsi]

ASSUME FlagsAssumption ==
  Flags \subseteq [level : Int, stig : BOOLEAN, nis2 : BOOLEAN, bsi : BOOLEAN]
ASSUME HiddenAssumption == \A sources \in HiddenSets : sources \subseteq Guarded
\* A keyword is left to its default only where the two parsers may differ on it.
ASSUME HostsAssumption ==
  \A h \in Hosts : \A f \in SSHFields \cap DOMAIN h : h[f] = "default" => f \in DOMAIN DaemonDefault

VARIABLES
  host, hidden, flags,
  phase,       \* "start", "collected", "evaluated", "done"
  delivered,   \* the collectors that delivered before the deadline
  given,       \* what the rules are given
  report,      \* a result for each rule that ran
  groups       \* the status of each article or requirement
cisVars == <<host, hidden, flags, phase, delivered, given, report, groups>>

Collectors == {"Hardening", "KernelSec"}
None == <<>>

CISInit ==
  /\ host \in Hosts
  /\ hidden \in HiddenSets
  /\ flags \in Flags
  /\ phase = "start"
  /\ delivered = {}
  /\ given = None
  /\ report = None
  /\ groups = None

-------------------------------------------------------------------------------
(* Evaluate *)

\* A rule of both benchmarks makes way for a STIG rule of the same number.
StigOwned == {r.id : r \in {s \in CISRules : s.framework = "STIG"}}
\* Faulty: both are shown.
InBenchmarkBoth(rule, stig) ==
  IF stig THEN rule.framework # "CIS" ELSE rule.framework # "STIG"

InBenchmark(rule, stig) ==
  IF stig THEN \/ rule.framework = "STIG"
               \/ rule.framework = "BOTH" /\ rule.stig \notin StigOwned
  ELSE rule.framework # "STIG"
Selected(asked) ==
  {r \in CISRules : r.level =< asked.level /\ InBenchmark(r, asked.stig)}

\* What stands in the table; numbers are strings, which TLC compares.
ASSUME TableAssumption ==
  /\ IsFiniteSet(CISRules)
  /\ \A r, s \in CISRules : r.id = s.id => r = s
  /\ \A r \in CISRules :
       /\ r.framework \in {"CIS", "STIG", "BOTH"}
       /\ r.stig # "" <=> r.framework = "BOTH"
       /\ \A s \in CISRules :
            /\ r.stig = s.stig => r = s \/ r.stig = ""
            /\ r.stig = s.id => r.level = s.level /\ s.framework = "STIG"

SSHConfigUnverified(facts) == {"SSHConfigUnreadable", "SSHAuditSource"} \subseteq DOMAIN facts
AuditVerdictAmbiguous == {"4.1.1", "4.1.2"} \cup Ids("4.1.1.", 1..5)

\* Where the rule itself cannot tell what is not there from what it may not
\* read, the setting was not seen.
\* Faulty: only a pass is withdrawn.
OverriddenPassesOnly(rule, facts, verdict) ==
  \/ /\ rule.section = "SSH"
     /\ rule.id # "5.2.1"
     /\ SSHConfigUnverified(facts)
     /\ verdict = "pass"
  \/ /\ rule.id \in AuditVerdictAmbiguous
     /\ "AuditRulesUnreadable" \in DOMAIN facts

Overridden(rule, facts, verdict) ==
  \/ /\ rule.section = "SSH"
     /\ rule.id # "5.2.1"
     /\ SSHConfigUnverified(facts)
     /\ verdict \in {"pass", "fail"}
  \/ /\ rule.id \in AuditVerdictAmbiguous
     /\ "AuditRulesUnreadable" \in DOMAIN facts

ruleByID == [id \in {r.id : r \in CISRules} |-> CHOOSE r \in CISRules : r.id = id]
Refs(mapping, id) == {q \in DOMAIN mapping : id \in mapping[q]}
NIS2Refs == [id \in DOMAIN ruleByID |-> Refs(NIS2, id)]
BSIRefs == [id \in DOMAIN ruleByID |-> Refs(BSI, id)]

\* The new result takes the place of the first one, with none of its references.
ShownId(rule, stig) == IF stig /\ rule.stig # "" THEN rule.stig ELSE rule.id
Result(rule, facts, stig) ==
  LET verdict == Verdict(rule, facts)
      unseen == Overridden(rule, facts, verdict)
  IN  [id |-> ShownId(rule, stig), rule |-> rule.id,
       verdict |-> IF unseen THEN "unverified" ELSE verdict,
       nis2 |-> IF unseen THEN {} ELSE NIS2Refs[rule.id],
       bsi |-> IF unseen THEN {} ELSE BSIRefs[rule.id]]

-------------------------------------------------------------------------------
(* GroupByNIS2 and GroupByBSI; no rule asks for an inspection by hand *)

NIS2Status(verdicts) ==
  IF verdicts = {} THEN "UNMAPPED"
  ELSE IF {"fail", "pass"} \subseteq verdicts THEN "PARTIAL"
  ELSE IF "fail" \in verdicts THEN "FAIL"
  ELSE IF {"pass", "unverified"} \subseteq verdicts THEN "UNVERIFIED"
  ELSE IF "pass" \in verdicts THEN "PASS"
  ELSE "SKIP"

\* Faulty: one pass is enough.
BSIStatusPassFirst(verdicts) ==
  IF verdicts = {} THEN "UNMAPPED"
  ELSE IF "pass" \in verdicts
  THEN IF "unverified" \in verdicts THEN "UNVERIFIED" ELSE "PASS"
  ELSE IF "fail" \in verdicts THEN "FAIL" ELSE "SKIP"

BSIStatus(verdicts) ==
  IF verdicts = {} THEN "UNMAPPED"
  ELSE IF "fail" \in verdicts THEN IF "pass" \in verdicts THEN "PARTIAL" ELSE "FAIL"
  ELSE IF "pass" \in verdicts
  THEN IF "unverified" \in verdicts THEN "UNVERIFIED" ELSE "PASS"
  ELSE "SKIP"

GroupByNIS2(rows) ==
  [a \in DOMAIN NIS2 |-> NIS2Status({r.verdict : r \in {s \in rows : a \in s.nis2}})]
GroupByBSI(rows) ==
  [q \in DOMAIN BSI |-> BSIStatus({r.verdict : r \in {s \in rows : q \in s.bsi}})]

-------------------------------------------------------------------------------
(* runCIS *)

\* RunAll; the data of a collector that failed or was not in time is ignored.
Collect ==
  /\ phase = "start"
  /\ \E d \in SUBSET Collectors :
       /\ delivered' = d
       /\ given' = Given(host, hidden, d)
  /\ phase' = "collected"
  /\ UNCHANGED <<host, hidden, flags, report, groups>>

Evaluate ==
  /\ phase = "collected"
  /\ report' = {Result(r, given, flags.stig) : r \in Selected(flags)}
  /\ phase' = "evaluated"
  /\ UNCHANGED <<host, hidden, flags, delivered, given, groups>>

ShowBSI ==
  /\ phase = "evaluated"
  /\ flags.bsi
  /\ groups' = GroupByBSI(report)
  /\ phase' = "done"
  /\ UNCHANGED <<host, hidden, flags, delivered, given, report>>

ShowNIS2 ==
  /\ phase = "evaluated"
  /\ flags.nis2 /\ ~flags.bsi
  /\ groups' = GroupByNIS2(report)
  /\ phase' = "done"
  /\ UNCHANGED <<host, hidden, flags, delivered, given, report>>

ShowReport ==
  /\ phase = "evaluated"
  /\ ~flags.nis2 /\ ~flags.bsi
  /\ phase' = "done"
  /\ UNCHANGED <<host, hidden, flags, delivered, given, report, groups>>

CISNext == Collect \/ Evaluate \/ ShowBSI \/ ShowNIS2 \/ ShowReport
CISSpec == CISInit /\ [][CISNext]_cisVars

-------------------------------------------------------------------------------
(* What the report must keep to *)

\* Every control of the benchmark is in the report, and under a number of its
\* own: a STIG rule that supersedes one of both benchmarks is of the same level,
\* so that neither loses the control nor shows it with two verdicts.
Wanted(rule) == rule.framework = "BOTH" \/ (flags.stig <=> rule.framework = "STIG")
EachControlOnce ==
  phase = "evaluated" =>
    /\ Cardinality({r.id : r \in report}) = Cardinality(Selected(flags))
    /\ {ShownId(r, flags.stig) : r \in {s \in CISRules : s.level =< flags.level /\ Wanted(s)}}
         \subseteq {r.id : r \in report}

\* A user who may read less is told less, never something else: a rule that
\* passes or fails for him gives the same verdict to root.  Excepted are the
\* rules that judge what they did not see, those on algorithms and a count that
\* sshd supplies and its file leaves out, and a drop-in that stands in for the
\* main file of sshd.
JudgedUnseen == {"1.3.2", "3.5.1.5", "6.2.14", "6.2.15", "6.2.16"}
NotInTheFile == {"V-238213", "V-238215", "V-238221"}
ViewNeverFlips ==
  phase = "evaluated" /\ delivered = Collectors /\ hidden # {} =>
    LET root == Given(host, {}, Collectors)
    IN  \A r \in report :
          r.verdict \in {"pass", "fail"} =>
            \/ r.verdict = Verdict(ruleByID[r.rule], root)
            \/ r.rule \in JudgedUnseen
            \/ r.rule \in NotInTheFile /\ "sshd_config" \notin hidden
            \/ ruleByID[r.rule].section = "SSH" /\ "drop-in" \in DOMAIN host

\* What a user who may not read a source is given for an item of it (seen), and
\* the item that tells him so (sign, which reads shown).
Loss(item, seen, sign, shown) == [item |-> item, seen |-> seen, sign |-> sign, shown |-> shown]
Losses ==
  {Loss(f, IF f \in DOMAIN NoDefaults THEN "wrong" ELSE "fine", "SudoersUnreadable", "set") :
     f \in SudoFields}
  \cup {Loss(f, "fine", "ShadowUnreadable", "set") : f \in ShadowFields}
  \cup {Loss("FirewallActive", "off", "FirewallUnreadable", "set"),
        Loss("MACMode", "unknown", "MACMode", "unknown"),
        Loss("dot files", "fine", "inside homes", "refused"),
        Loss("log files", "fine", "log directories", "refused")}
  \cup {Loss(i, "set", i, "set") :
          i \in {"SudoersUnreadable", "ShadowUnreadable", "FirewallUnreadable"}}
  \cup {Loss("audit rule files", r, "audit rule files", r) : r \in {"none", "hidden"}}
  \cup {Loss(i, "refused", i, "refused") : i \in Guarded \ {"audit rule files"}}

\* From its test j on, a rule that lost the item withholds its verdict: it tests
\* the sign of the loss before any test that what is seen instead could meet.
Withholds(rule, j, loss) ==
  \E k \in DOMAIN rule.tests :
    /\ rule.tests[k].item = loss.sign
    /\ loss.shown \in rule.tests[k].readings
    /\ rule.tests[k].verdict \in {"skip", "unverified"}
    /\ \A l \in j..(k - 1) :
         rule.tests[l].item = loss.item /\ loss.seen \notin rule.tests[l].readings

\* That the table does so for every item a user can lose, but for the rules that
\* the property excepts and the two kinds that Overridden sees to.
LosesSilently == {"AIDEDB", ".forward", ".netrc", ".rhosts"}
LosesDefault(rule, j, f) ==
  \/ rule.id \in NotInTheFile
  \/ {FileDefault[f], DaemonDefault[f]} \subseteq rule.tests[j].readings
  \/ Withholds(rule, j, Loss(f, FileDefault[f], f, FileDefault[f]))
ASSUME LossAssumption ==
  \A rule \in CISRules :
    /\ DOMAIN rule.tests \subseteq Nat
    /\ \A j \in DOMAIN rule.tests :
         LET i == rule.tests[j].item
         IN  /\ i \in SSHFields \cup {"SSHConfigUnreadable"} => rule.section = "SSH" /\ rule.id # "5.2.1"
             /\ i = "AuditRules" => rule.id \in AuditVerdictAmbiguous
             /\ i \in LosesSilently => rule.id \in JudgedUnseen
             /\ i \notin {"SSHAuditSource", "AuditRulesUnreadable"}
             /\ i \in DOMAIN DaemonDefault => LosesDefault(rule, j, i)
             /\ \A loss \in Losses :
                  loss.item = i => rule.id \in JudgedUnseen \/ Withholds(rule, j, loss)

\* A rule that failed shows in every article or requirement it is evidence for,
\* and one that passes has a rule that passed.
GroupVerdicts(mapping, g) == {s.verdict : s \in {r \in report : r.rule \in mapping[g]}}
FailuresShow ==
  phase = "done" =>
    \A mapping \in {NIS2, BSI} : groups # None /\ DOMAIN groups = DOMAIN mapping =>
      \A g \in DOMAIN groups :
        /\ "fail" \in GroupVerdicts(mapping, g) => groups[g] \in {"FAIL", "PARTIAL"}
        /\ groups[g] = "PASS" => "pass" \in GroupVerdicts(mapping, g)

\* An article or requirement some rule of which could not be checked is not
\* reported as passed.
GroupsDisclose ==
  phase = "done" =>
    \A mapping \in {NIS2, BSI} : groups # None /\ DOMAIN groups = DOMAIN mapping =>
      \A g \in DOMAIN groups :
        "unverified" \in GroupVerdicts(mapping, g) => groups[g] # "PASS"
===============================================================================
