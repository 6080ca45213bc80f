------------------------------ MODULE Heuristics ------------------------------
(***************************************************************************)
(* The checks of analysis.ApplyThresholds on the processor, memory, disk   *)
(* input and output, processes, logs and system services: those most of    *)
(* the correlation rules rest on.                                          *)
(***************************************************************************)
EXTENDS Insights, FiniteSets, Sequences

-------------------------------------------------------------------------------
(* CPU.  usage, load (LoadPct) and average (LoadAvg1) are percentages of all *)
(* CPUs, queue is the run queue per CPU.                                     *)

\* loadPct: the load average, where the collector did not divide it itself.
LoadPct(cpu) == IF cpu.load = 0 THEN cpu.average ELSE cpu.load

\* The run's own collectors can drive the instantaneous usage up; the load
\* average must corroborate it.
CPUUsage(cpu, t) ==
  LET busy == IF cpu.usage > 0 THEN cpu.usage ELSE cpu.load
      over == LevelPct("CPULoad", busy, t.cpuWarn, t.cpuCrit)
  IN IF cpu.usage = 0 \/ LoadPct(cpu) >= t.cpuWarn THEN over
     ELSE When(over # {}, Unread("CPULoad"))

\* A run queue of 4 or 2 tasks per CPU, corroborated at the same tier.
RunQueue(cpu) ==
  IF cpu.queue >= 4 /\ LoadPct(cpu) >= 200 THEN {Found("CRIT", "CPULoad/RunQueue")}
  ELSE IF cpu.queue >= 2 /\ LoadPct(cpu) >= 100 THEN {Found("WARN", "CPULoad/RunQueue")}
  ELSE When(cpu.queue >= 2, Unread("CPULoad/RunQueue"))

\* cpuOfflineInsight
OfflineCPUs(cpu, host) ==
  IF "offline" \notin cpu.flags \/ host.container # "no" THEN {}
  ELSE {Found(IF cpu.flags \cap {"smtOff", "isolated"} # {} THEN "INFO" ELSE "WARN",
              "CPULoad")}

CheckCPU(cpu, t, host) ==
  When("sampleFailed" \in cpu.flags, Unread("CPULoad/RunQueue"))
  \cup CPUUsage(cpu, t)
  \cup LevelPct("CPULoad/Steal", cpu.steal, 10, 20)
  \cup OfflineCPUs(cpu, host)
  \cup LevelPct("CPULoad/IOWait", cpu.iowait, 20, 40)
  \cup RunQueue(cpu)

-------------------------------------------------------------------------------
(* Memory, swap and disks *)

\* eccInsights
ECC(mem) ==
  IF "uncorrected" \in mem.flags THEN {Found("CRIT", "Memory")}
  ELSE When("corrected" \in mem.flags, Found("WARN", "Memory"))

CheckMemory(mem, t, host) ==
  (IF "meminfoUnreadable" \in mem.flags THEN {Unread("Memory")}
   ELSE IF host.container = "limited" /\ "cgroupMeasured" \notin mem.flags
   THEN {Unread("Memory")}
   ELSE LevelPct("Memory", mem.used, t.ramWarn, t.ramCrit))
  \cup When({"overCommitted", "strict"} \subseteq mem.flags, Found("CRIT", "Memory"))
  \cup When(mem.slab >= t.slabWarn /\ host.container = "no", Found("WARN", "Memory/Slab"))
  \cup (IF "edac" \in mem.flags
        THEN ECC(mem) \cup When("eccUnreadable" \in mem.flags, Unread("Memory")) ELSE {})
  \cup When("offlineBlocks" \in mem.flags /\ "autoOnline" \notin mem.flags,
            Found("WARN", "Memory"))

\* How full swap is.
SwapOccupancy(swap, t) ==
  IF swap.used >= t.swapCrit THEN {Found("CRIT", "Swap")}
  ELSE When(/\ swap.used >= t.swapWarn
            /\ swap.paging > 0 /\ swap.paging <= t.pagingWarn, Found("WARN", "Swap"))

\* How busy it is; -1 pages a second is not measured.
SwapActivity(swap, t) ==
  IF swap.paging > t.pagingCrit THEN {Found("CRIT", "Swap")}
  ELSE When(swap.paging > t.pagingWarn,
            Found(IF "zram" \in swap.flags THEN "INFO" ELSE "WARN", "Swap"))

\* pressure: macOS's memory pressure level, 0 elsewhere.
CheckSwap(swap, t) ==
  When(swap.flags \cap {"swapsUnreadable", "zramUnreadable"} # {}, Unread("Swap"))
  \cup (IF swap.pressure > 1 THEN LevelPct("Swap", swap.used, 75, 90)
        ELSE IF swap.pressure > 0 THEN {}
        ELSE SwapOccupancy(swap, t) \cup SwapActivity(swap, t))

\* ioUtilThresholds, ioAwaitThresholds
UtilThresholds(type, t) ==
  IF type = "hdd" THEN <<101, 101>> ELSE <<t.utilWarn, t.utilCrit>>
AwaitThresholds(type, t) ==
  IF type = "nvme" THEN <<5, 15>>
  ELSE IF type = "hdd" THEN <<50, 100>> ELSE <<t.awaitWarn, t.awaitCrit>>

DeviceUtil(d, t) ==
  LET at == UtilThresholds(d.type, t) IN LevelPct("IO", d.util, at[1], at[2])
DeviceAwait(d, t) ==
  LET at == AwaitThresholds(d.type, t) IN LevelPct("IO", d.await, at[1], at[2])

\* devices: a sequence.
CheckIO(devices, t) ==
  LET saturated == {i \in DOMAIN devices :
                      devices[i].util >= 99 /\ DeviceUtil(devices[i], t) # {}}
  IN (UNION {DeviceUtil(devices[i], t) \cup DeviceAwait(devices[i], t) : i \in DOMAIN devices})
     \cup When(Cardinality(saturated) >= 3, Found("WARN", "IO"))

-------------------------------------------------------------------------------
(* Processes, logs and services *)

CheckProcesses(proc, t, host) ==
  When("listUnreadable" \in proc.flags, Unread("Processes"))
  \cup When("listRestricted" \in proc.flags, NeedsRoot("Processes", host))
  \cup (IF proc.zombies >= 10 THEN {Found("CRIT", "Processes")}
        ELSE When(proc.zombies > 0 /\ proc.zombies >= t.zombieWarn,
                  Found("WARN", "Processes")))
  \cup (IF proc.hung > 0 /\ proc.hung >= t.hungCrit THEN {Found("CRIT", "Processes")}
        ELSE When(proc.hung > 0, Found("WARN", "Processes")))

\* nvmeEventInsights
NVMeEvents(logs) ==
  LET virtual == "virtualized" \in logs.flags
  IN When("nvmeTimeouts" \in logs.flags, Found(IF virtual THEN "INFO" ELSE "WARN", "Logs"))
     \cup When("nvmeResets" \in logs.flags, Found(IF virtual THEN "WARN" ELSE "CRIT", "Logs"))

\* checkJournalConfig
JournalConfig(logs) ==
  LET volatile == "journalVolatile" \in logs.flags
      noFallback == "noTextFallback" \in logs.flags
  IN When(logs.flags \cap {"journalCorrupt", "rateLimited", "journalUnbounded"} # {},
          Found("WARN", "Logs"))
     \cup When(volatile, Found(IF noFallback THEN "WARN" ELSE "INFO", "Logs"))
     \cup When(noFallback /\ ~volatile, Found("INFO", "Logs"))
     \cup When("syncRisk" \in logs.flags, Found("INFO", "Logs"))
     \cup LevelPct("Logs", logs.diskUsed, 80, 90)

\* checkJournalActivity
JournalActivity(logs, host) ==
  When("coreDumps" \in logs.flags, Found("WARN", "Logs"))
  \cup (IF logs.errors > 50 THEN {Found("WARN", "Logs")}
        ELSE IF logs.errors > 10 THEN {Found("INFO", "Logs")}
        ELSE When("errorsUnverified" \in logs.flags, NeedsRoot("Logs", host)))

\* Faulty: a failed systemctl query passes for a lack of privilege.
UnverifiedPartsOfAnyCause(logs, host) ==
  When(logs.flags \cap {"crashLoopsUnverified", "crashFilesUnreadable",
                        "journalSizeUnreadable", "corruptUnverified"} # {},
       NeedsRoot("Logs", host))

\* One disclosure for the parts that could not be read; a failed systemctl query
\* is not a privilege gap.
UnverifiedParts(logs, host) ==
  IF "crashLoopsUnverified" \in logs.flags THEN {Unread("Logs")}
  ELSE When(logs.flags \cap {"crashFilesUnreadable", "journalSizeUnreadable",
                             "corruptUnverified"} # {}, NeedsRoot("Logs", host))

CheckLogs(logs, t, host) ==
  When(logs.flags \cap {"needsRoot", "kmsgUnreadable"} # {}, NeedsRoot("Logs", host))
  \cup UnverifiedParts(logs, host)
  \cup LevelPct("Logs", logs.journal, t.journalWarn, t.journalCrit)
  \cup When(logs.flags \cap {"oomKills", "crashLoops", "softLockups", "hardLockups",
                             "kernelPanics"} # {}, Found("CRIT", "Logs"))
  \cup When("segfaults" \in logs.flags, Found("WARN", "Logs"))
  \cup NVMeEvents(logs) \cup JournalConfig(logs) \cup JournalActivity(logs, host)

\* failedUnitInsight: a failed ZFS import is expected where no pool is imported.
FailedUnit(unit, zfsPools) ==
  Found(IF unit = "zfsImport" /\ ~zfsPools THEN "INFO" ELSE "CRIT", "Systemd")

\* failed: the failed units; slow: those systemd-analyze lists, with their
\* seconds; boot: the seconds of the whole boot.
CheckSystemd(sys, zfsPools) ==
  When(sys.flags \cap {"failedUnitsUnknown", "sshdUnverified"} # {}, Unread("Systemd"))
  \cup When("maintenance" \in sys.flags, Found("CRIT", "Systemd"))
  \cup {FailedUnit(unit, zfsPools) : unit \in sys.failed}
  \cup When("needsReload" \in sys.flags, Found("WARN", "Systemd"))
  \cup When(\E seconds \in sys.slow : seconds >= 10, Found("WARN", "Systemd"))
  \cup When(sys.boot > 30 /\ sys.slow = {}, Found("INFO", "Systemd"))

CheckDBus(status) ==
  IF status \in {"n/a", "active"} THEN {}
  ELSE IF status \in {"failed", "inactive"} THEN {Found("CRIT", "DBus")}
  ELSE {Unread("DBus")}

CheckEntropy(bits) ==
  IF bits < 64 THEN {Found("CRIT", "Entropy")}
  ELSE When(bits < 256, Found("WARN", "Entropy"))

\* An offset of -1 was not given by any source.
CheckClock(clock, t) ==
  When("synced" \notin clock.flags,
       Found(IF "rtcLocal" \in clock.flags THEN "WARN" ELSE "CRIT", "Clock"))
  \cup (IF clock.offset = -1 THEN {}
        ELSE LevelPct("Clock", IF clock.offset < 0 THEN -clock.offset ELSE clock.offset,
                      t.ntpWarn, t.ntpCrit))

\* Memory and throttling of the slices, units and containers of checkCgroupV2;
\* these bounds are exclusive.  limited: the part has a memory limit.
CgroupPart(part) ==
  LevelPct("Cgroup", part.throttled, 6, 21)
  \cup (IF part.limited = "yes" THEN LevelPct("Cgroup", part.used, 76, 91) ELSE {})

CheckCgroup(cg) ==
  When("oomKills" \in cg.flags, Found("INFO", "Cgroup"))
  \cup UNION {CgroupPart(part) : part \in cg.parts}

\* checkHealthDeep: maxCore is the busiest core's percentage, imbalance its
\* distance from the others, load that of the 1-minute average, in percent of
\* all CPUs, tasks the same as whole runnable tasks.
CoreSaturation(deep) ==
  IF deep.imbalance >= 80 /\ deep.tasks >= 1 THEN {Found("WARN", "CPUDeep")}
  ELSE IF deep.maxCore < 95 THEN {}
  ELSE {IF deep.load >= 70 THEN Found("WARN", "CPUDeep") ELSE Unread("CPUDeep")}

CheckHealthDeep(deep) ==
  When("memUnreadable" \in deep.flags, Unread("CPUDeep"))
  \cup CoreSaturation(deep)
  \cup When("dirtyPages" \in deep.flags, Found("WARN", "CPUDeep"))
  \cup CheckCgroup(deep.cgroup)

===============================================================================
