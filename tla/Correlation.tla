------------------------------ MODULE Correlation ------------------------------
(***************************************************************************)
(* analysis.Correlate: the rules that explain several insights of one run  *)
(* by one cause, and render.ComputeTopCatch, which picks the line a reader *)
(* sees first.  Insights are records [check, level, sight].                *)
(***************************************************************************)
EXTENDS Integers

LevelRank(level) ==
  IF level = "CRIT" THEN 3 ELSE IF level = "WARN" THEN 2
  ELSE IF level = "INFO" THEN 1 ELSE 0

\* indexKeys: "Memory/Slab" is found under "Memory" too.
Base(check) ==
  IF check \in {"CPULoad/Steal", "CPULoad/IOWait", "CPULoad/RunQueue"} THEN "CPULoad"
  ELSE IF check = "Memory/Slab" THEN "Memory"
  ELSE IF check = "Network/DNS" THEN "Network" ELSE check

\* The insights buildIndex enters under key, of which the worst level counts.
Under(insights, key) == {i \in insights : key \in {i.check, Base(i.check)}}

AtLeast(insights, key, min) ==
  \E i \in Under(insights, key) : LevelRank(i.level) >= LevelRank(min)

Exact(insights, key, level) ==
  /\ \E i \in Under(insights, key) : i.level = level
  /\ \A i \in Under(insights, key) : LevelRank(i.level) <= LevelRank(level)

ConfirmedNot(insights, key, level) ==
  Under(insights, key) # {} /\ ~Exact(insights, key, level)

-------------------------------------------------------------------------------
(* The rules.  Each gives the set of its diagnoses, empty when it does not  *)
(* fire.                                                                    *)

Diagnosis(name, level, checks) == [name |-> name, level |-> level, checks |-> checks]
Fires(condition, diagnosis) == IF condition THEN {diagnosis} ELSE {}

\* The members of checks that are at level.
Which(insights, checks, level) == {c \in checks : Exact(insights, c, level)}

MemoryCascade(s) ==
  LET stalled == Which(s, {"Processes", "Logs"}, "CRIT")
  IN Fires(AtLeast(s, "Memory", "WARN") /\ Exact(s, "Swap", "CRIT") /\ stalled # {},
           Diagnosis("MemoryCascade", "CRIT", {"Memory", "Swap"} \cup stalled))

HardOOM(s) ==
  Fires(Exact(s, "Memory", "CRIT") /\ Exact(s, "Logs", "CRIT")
          /\ ConfirmedNot(s, "Swap", "CRIT"),
        Diagnosis("HardOOM", "CRIT", {"Memory", "Logs"}))

IOUnderMemoryPressure(s) ==
  Fires(Exact(s, "IO", "CRIT") /\ AtLeast(s, "Memory", "WARN") /\ Exact(s, "Swap", "CRIT"),
        Diagnosis("IOUnderMemoryPressure", "CRIT", {"IO", "Memory", "Swap"}))

NetworkDegradedUnderLoad(s) ==
  LET load == {c \in {"CPULoad"} : AtLeast(s, c, "WARN")}
              \cup Which(s, {"Swap", "Memory"}, "CRIT")
  IN Fires(Exact(s, "Network", "CRIT") /\ load # {},
           Diagnosis("NetworkDegraded", "WARN", {"Network"} \cup load))

GPUSustainedLoad(s) ==
  LET elevated == {c \in {"CPUThermal", "Memory", "GPU"} : AtLeast(s, c, "WARN")}
  IN Fires(AtLeast(s, "GPU", "INFO") /\ elevated # {},
           Diagnosis("GPUSustainedLoad", "WARN", {"GPU"} \cup elevated))

\* Faulty: the hypervisor is not ruled out as the cause.
IODrivenLoadAnyCause(s) ==
  Fires(AtLeast(s, "CPULoad", "WARN") /\ AtLeast(s, "CPULoad/IOWait", "WARN"),
        Diagnosis("IODrivenLoad", "WARN", {"CPULoad", "CPULoad/IOWait"}))

IODrivenLoad(s) ==
  Fires(/\ AtLeast(s, "CPULoad", "WARN") /\ AtLeast(s, "CPULoad/IOWait", "WARN")
        /\ ~AtLeast(s, "CPULoad/Steal", "WARN"),
        Diagnosis("IODrivenLoad", "WARN", {"CPULoad", "CPULoad/IOWait"}))

CPUStealUnderLoad(s) ==
  Fires(AtLeast(s, "CPULoad", "WARN") /\ AtLeast(s, "CPULoad/Steal", "WARN"),
        Diagnosis("CPUSteal", "CRIT", {"CPULoad", "CPULoad/Steal"}))

ConfirmedLow(s, key) == ConfirmedNot(s, key, "WARN") /\ ConfirmedNot(s, key, "CRIT")

RunQueueSaturation(s) ==
  Fires(/\ AtLeast(s, "CPULoad/RunQueue", "WARN")
        /\ ConfirmedLow(s, "CPULoad/IOWait") /\ ConfirmedLow(s, "CPULoad/Steal"),
        Diagnosis("RunQueueSaturation", "WARN", {"CPULoad/RunQueue"}))

DBusCascade(s) ==
  Fires(Exact(s, "DBus", "CRIT") /\ AtLeast(s, "Systemd", "CRIT"),
        Diagnosis("DBusCascade", "CRIT", {"DBus", "Systemd"}))

EntropyTLSFailure(s) ==
  Fires(AtLeast(s, "Entropy", "WARN") /\ AtLeast(s, "TLS", "WARN"),
        Diagnosis("EntropyTLS", "CRIT", {"Entropy", "TLS"}))

DiskFullServiceFailure(s) ==
  LET broken == Which(s, {"Systemd", "Logs"}, "CRIT")
  IN Fires(Exact(s, "Disk", "CRIT") /\ broken # {},
           Diagnosis("DiskFull", "CRIT", {"Disk"} \cup broken))

NFSStaleProcessHang(s) ==
  Fires(Exact(s, "NFS", "CRIT") /\ Exact(s, "Processes", "CRIT"),
        Diagnosis("NFSStale", "CRIT", {"NFS", "Processes"}))

ClockSkewTLSAuth(s) ==
  LET broken == Which(s, {"TLS"}, "CRIT") \cup {c \in {"Auth"} : AtLeast(s, c, "WARN")}
  IN Fires(Exact(s, "Clock", "CRIT") /\ broken # {},
           Diagnosis("ClockSkew", "CRIT", {"Clock"} \cup broken))

ContainerCgroupOOM(s) ==
  Fires(Exact(s, "Docker", "CRIT") /\ Exact(s, "Cgroup", "CRIT")
          /\ ConfirmedNot(s, "Memory", "CRIT"),
        Diagnosis("ContainerOOM", "CRIT", {"Docker", "Cgroup"}))

ThermalThrottleUnderLoad(s) ==
  Fires(AtLeast(s, "CPUThermal", "WARN") /\ AtLeast(s, "CPULoad", "WARN"),
        Diagnosis("ThermalThrottle",
                  IF Exact(s, "CPUThermal", "CRIT") THEN "CRIT" ELSE "WARN",
                  {"CPUThermal", "CPULoad"}))

DNSResolverNotConnectivity(s) ==
  Fires(Exact(s, "DNS", "CRIT") /\ ConfirmedNot(s, "Network", "CRIT"),
        Diagnosis("DNSResolver", "WARN", {"DNS"}))

Correlate(s) ==
  MemoryCascade(s) \cup HardOOM(s) \cup IOUnderMemoryPressure(s)
  \cup NetworkDegradedUnderLoad(s) \cup GPUSustainedLoad(s) \cup IODrivenLoad(s)
  \cup CPUStealUnderLoad(s) \cup RunQueueSaturation(s) \cup DBusCascade(s)
  \cup EntropyTLSFailure(s) \cup DiskFullServiceFailure(s) \cup NFSStaleProcessHang(s)
  \cup ClockSkewTLSAuth(s) \cup ContainerCgroupOOM(s) \cup ThermalThrottleUnderLoad(s)
  \cup DNSResolverNotConnectivity(s)

-------------------------------------------------------------------------------
(* render.ComputeTopCatch *)

\* Faulty: a diagnosis is preferred even to a worse finding.
TopCatchDiagnosisFirst(s, diagnoses) ==
  {[from |-> "diagnosis", level |-> d.level] : d \in diagnoses}
  \cup IF diagnoses # {} THEN {}
       ELSE {[from |-> "finding", level |-> i.level] :
               i \in {j \in s : LevelRank(j.level) >= 2}}

\* The worst of the diagnoses and findings at WARN or CRIT, a diagnosis before a
\* finding; empty when there is none.
TopCatch(s, diagnoses) ==
  LET worst(level) == /\ \A i \in s : LevelRank(i.level) <= LevelRank(level)
                      /\ \A d \in diagnoses : LevelRank(d.level) <= LevelRank(level)
      explained == {d \in diagnoses : worst(d.level)}
      findings == {i \in s : LevelRank(i.level) >= 2 /\ worst(i.level)}
  IN {[from |-> "diagnosis", level |-> d.level] : d \in explained}
     \cup IF explained # {} THEN {}
          ELSE {[from |-> "finding", level |-> i.level] : i \in findings}
===============================================================================
