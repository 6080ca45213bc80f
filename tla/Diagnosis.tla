------------------------------- MODULE Diagnosis -------------------------------
(***************************************************************************)
(* One run of dsd health from the collectors' results to what it says is   *)
(* wrong: analysis.ApplyThresholds over the results, analysis.Correlate    *)
(* over the insights, and the top catch of both.                           *)
(*                                                                         *)
(* A panel is the collectors of the run with the data each may return.     *)
(* They finish in any order, some with an error; the analysis runs when    *)
(* all have.                                                               *)
(***************************************************************************)
EXTENDS Checks, Correlation

CONSTANTS
  Panels,   \* by name, functions from collectors to sets of readings
  Settings  \* records [user, container, env, policy]; policy: thresholds to replace

ASSUME PoliciesAssumption ==
  \A s \in Settings : DOMAIN s.policy \subseteq PolicyFields

VARIABLES
  panel,      \* the name of the panel of this run
  setting,    \* where it runs
  results,    \* what each collector returned
  insights,   \* of ApplyThresholds
  diagnoses,  \* of Correlate
  stage       \* "collecting" or "reported"

vars == <<panel, setting, results, insights, diagnoses, stage>>

-------------------------------------------------------------------------------
(* The run *)

Running == [kind |-> "running"]
Failed == [kind |-> "failed"]
Nothing == [kind |-> "nothing"]
Data(reading) == [kind |-> "data", data |-> reading]

Init ==
  /\ panel \in DOMAIN Panels
  /\ setting \in Settings
  /\ results = [c \in DOMAIN Panels[panel] |-> Running]
  /\ insights = {}
  /\ diagnoses = {}
  /\ stage = "collecting"

\* The runner delivers the result of a collector: an error, nothing, or data.
Deliver(c) ==
  /\ results[c] = Running
  /\ \E result \in {Failed, Nothing} \cup {Data(reading) : reading \in Panels[panel][c]} :
       results' = [results EXCEPT ![c] = result]
  /\ UNCHANGED <<panel, setting, insights, diagnoses, stage>>

\* All are in: the heuristics, then the correlation of what they found.
Report ==
  /\ stage = "collecting"
  /\ \A c \in DOMAIN results : results[c] # Running
  /\ insights' = ApplyThresholds(results, setting)
  /\ diagnoses' = Correlate(insights')
  /\ stage' = "reported"
  /\ UNCHANGED <<panel, setting, results>>

Next == Report \/ \E c \in DOMAIN results : Deliver(c)

Spec == Init /\ [][Next]_vars

-------------------------------------------------------------------------------
(* Properties *)

\* The fields of data that hold the records of parts, and those that hold a state
\* or a set of states.
PartFields ==
  {"nvme", "sata", "pools", "groups", "resources", "arrays", "volumes", "ports", "layers", "vms",
   "controllers"}
StateFields ==
  {"state", "status", "connection", "disk", "selinux", "apparmor", "tools", "secureBoot",
   "readonly", "booted", "inactive", "certState", "subscription"}
StateSets == {"quadlets", "patches", "ratings"}

\* Everything data says in words, of the whole and of its parts; a part that is
\* there is named by its field.
Words(r) ==
  (IF "flags" \in DOMAIN r THEN r.flags ELSE {})
  \cup {r[f] : f \in StateFields \cap DOMAIN r}
  \cup UNION {r[f] : f \in StateSets \cap DOMAIN r}
Signs(data) ==
  LET parts == {f \in PartFields \cap DOMAIN data : data[f] # {}}
  IN Words(data) \cup parts \cup UNION {Words(part) : part \in UNION {data[f] : f \in parts}}

\* By which of them a collector says that it could not read part of its subject:
\* what a run as root would have read,
RootOnly ==
  {"listRestricted", "needsRoot", "kmsgUnreadable", "crashFilesUnreadable",
   "journalSizeUnreadable", "corruptUnverified", "errorsUnverified", "kernelLogDenied",
   "profilesUnreadable", "auditNeedsRoot", "shadowUnreadable", "failedLoginsUnreadable",
   "pamFailuresUnreadable", "apparmorUnreadable", "rulesNeedRoot", "auditRulesUnreadable",
   "eventsUnreadable", "auditLogUnreadable", "partialScan", "journalDenied", "pveNeedsRoot"}

\* what matters only where nothing worse was found of the rest,
Outweighed ==
  {"partialScan", "statusReadFailed", "devReadUnverified", "statsUnread", "countersUnreadable",
   "portsUnchecked", "ownersUnverified", "queryUntested", "cacheBatteryUnread", "scanFailed",
   "kevUnread", "queryFailed", "spotUnchecked", "statUnread", "fencingUnread", "tasksUnread",
   "limitUnread"}

\* and the others, whatever the reason.
NotMeasured ==
  RootOnly \cup Outweighed \cup
  {"sampleFailed", "meminfoUnreadable", "swapsUnreadable", "zramUnreadable", "listUnreadable",
   "crashLoopsUnverified", "failedUnitsUnknown", "sshdUnverified", "statusUnknown",
   "memUnreadable", "smartUnread", "dangerousFieldsUnread", "drivesListUnreadable",
   "listReadFailed", "raidReadFailed", "pvReadFailed", "vgReadFailed", "lvReadFailed",
   "presenceReadFailed", "unverified", "readFailed", "zfsListReadFailed", "unreachableMount",
   "showUnread", "unread", "unknown", "unrecognised", "unreadable", "untested", "presumed",
   "pathsUnreadable", "cephNeedsRoot", "HEALTH_UNKNOWN", "sessionsNeedRoot",
   "sessionsParseFailed", "avcUnread", "denialsUnread", "countUnverified", "faultsUnread",
   "metricsUnreadable", "pagesUnread", "notListed", "interfacesUnreadable",
   "connectionsUnreadable", "sockstatUnreadable", "netstatUnreadable", "portsUnread",
   "probeSkipped", "configDirUnreadable", "statsUnreadable", "batteryUnread", "sensorUnreadable",
   "edacUnreadable", "eccUnreadable", "ipmiNeedsRoot", "sensorsUnread", "toolNeedsRoot",
   "outputUnreadable", "updatesUnverified", "snapperNeedsRoot", "statusUnverified", "raucUnread",
   "sshConfigUnreadable", "aideUnreadable", "supportconfigUnreadable", "stateUnverified",
   "logUnread", "dbUnchecked", "updatesUnread", "verifyLocked", "integrityUnread",
   "ldconfigUnread", "certsUncheckable", "stateUnread", "patchUnverified", "bootUnreadable",
   "snapshotUnverified", "failuresUnread", "qualityUnread", "journalUnread", "oomUnread",
   "panicUnread", "diskErrorsUnchecked", "poolsUnread", "unlisted", "logsUnverified",
   "namespacesUnread", "countsUnread", "noBinary", "apiUnreachable", "pvcsUnread",
   "workloadsUnread", "eventsUnread", "forwardUnchecked", "cniUnchecked", "flannelUnread",
   "serverUnread", "webhookUnread", "stealUnread", "cgroupUnmeasured", "storagesUnread",
   "guestsUnread", "metadataUnread", "initUnverified", "ebsNeedsRoot", "ebsUnread",
   "ebsDeltaUnread", "imdsUnchecked", "rebalanceUnchecked", "disksUnread",
   "maintenanceUnchecked", "metricsUnread", "connectionsUnread", "replicaUnread",
   "replicationUnread", "alarmsUnread", "identityUnverified", "reloadUnread",
   "ambiguousResources"}

\* Some are about what is there only with one of other signs, and some are answered
\* by another source.
OnlyWith ==
  [raidReadFailed |-> {"groups"}, edacUnreadable |-> {"edac"}, eccUnreadable |-> {"edac"},
   ownersUnverified |-> {"port53Missing"}, denialsUnread |-> {"enforce"},
   avcUnread |-> {"enforcing", "selinuxEnforcing"}, oomUnread |-> {"journal"},
   panicUnread |-> {"journal"}, kevUnread |-> {"low", "important", "critical"}]
AnsweredBy ==
  [sshConfigUnreadable |-> {"sshAudited"}, failuresUnread |-> {"daemonDown", "failures"},
   qualityUnread |-> {"daemonDown"}, rulesNeedRoot |-> {"pveFirewall"},
   stateUnverified |-> {"pveFirewall"}]

\* What the result of c leaves unmeasured.
Unmeasured(c) ==
  IF results[c].kind = "failed" THEN {"failed"}
  ELSE IF results[c].kind # "data" THEN {}
  ELSE LET signs == Signs(results[c].data)
       IN {sign \in signs \cap NotMeasured :
             /\ sign \in DOMAIN OnlyWith => OnlyWith[sign] \cap signs # {}
             /\ sign \in DOMAIN AnsweredBy => AnsweredBy[sign] \cap signs = {}}

\* verdict.go:15 "a run whose checks could not run must never read as healthy":
\* what a collector could not read shows in the report under its check, as
\* something that keeps the verdict from OK unless only root could have read it
\* and the run was not root's, or as a finding that outweighs it.
DisclosesUnmeasured ==
  stage = "reported" =>
    \A c \in DOMAIN results :
      Unmeasured(c) # {} =>
        \E i \in Under(insights, c) :
          \/ /\ i.sight # "seen"
             /\ setting.user = "root" \/ ~(Unmeasured(c) \subseteq RootOnly)
                  => i.sight = "unread"
          \/ Unmeasured(c) \subseteq Outweighed /\ LevelRank(i.level) >= 2

\* Diagnoses that name different causes for the same symptom.
Contradictions ==
  {{"MemoryCascade", "HardOOM"}, {"IODrivenLoad", "CPUSteal"},
   {"RunQueueSaturation", "IODrivenLoad"}, {"RunQueueSaturation", "CPUSteal"},
   {"ContainerOOM", "HardOOM"}, {"DNSResolver", "NetworkDegraded"},
   {"IOUnderMemoryPressure", "HardOOM"}}

\* correlate.go:425 "This distinguishes a true CPU shortage from I/O-driven load and
\* hypervisor theft; the remediation differs": one run never gives two diagnoses
\* whose advice excludes each other.
ContradictionsExcluded ==
  \A pair \in Contradictions : ~(pair \subseteq {d.name : d \in diagnoses})

\* topcatch.go:46 "or nil when there is no CRIT/WARN this run": there is a top
\* catch exactly when there is something to see, it is CRIT when a finding is, and
\* a diagnosis rests on findings of every check it names (for the GPU, on being
\* busy).
TopCatchIsGrounded ==
  LET top == TopCatch(insights, diagnoses)
  IN /\ top = {} <=> \A i \in insights : LevelRank(i.level) < 2
     /\ (\E i \in insights : i.level = "CRIT") => \A entry \in top : entry.level = "CRIT"
     /\ \A d \in diagnoses : \A c \in d.checks :
          AtLeast(insights, c, IF c = "GPU" THEN "INFO" ELSE "WARN")
===============================================================================
