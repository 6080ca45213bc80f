---------------------------- MODULE HeuristicsHardware ----------------------------
(***************************************************************************)
(* The checks of heuristics_hardware.go, heuristics_firmware.go,           *)
(* heuristics_hwraid.go and heuristics_steamos.go.  load is the CPU load   *)
(* of another collector, in percent, 0 where that one did not run.         *)
(***************************************************************************)
EXTENDS Insights

\* TempPlausible with TempCeilSilicon
SiliconPlausible(celsius) == celsius \in -40..150

-------------------------------------------------------------------------------
(* Power and temperature *)

CheckBattery(b) ==
  IF "present" \notin b.flags THEN When("batteryUnread" \in b.flags, Unread("Battery"))
  ELSE (IF b.health \in 1..59 THEN {Found("CRIT", "Battery")}
        ELSE When(b.health \in 60..79, Found("WARN", "Battery")))
       \cup (IF "discharging" \notin b.flags THEN {}
             ELSE IF b.charge <= 10 THEN {Found("CRIT", "Battery")}
             ELSE When(b.charge <= 20, Found("WARN", "Battery")))

\* temp: 0 where there is no sensor.  75 degrees are too many for an idle CPU.
CheckThermal(th, load) ==
  IF "sensorUnreadable" \in th.flags THEN {Unread("CPUThermal")}
  ELSE IF th.temp = 0 THEN {}
  ELSE IF ~SiliconPlausible(th.temp) THEN {UnreadAt("WARN", "CPUThermal")}
  ELSE IF th.temp >= 95 THEN {Found("CRIT", "CPUThermal")}
  ELSE When(th.temp >= 85 \/ (th.temp >= 75 /\ load \in 1..19), Found("WARN", "CPUThermal"))

\* powersave is a limit only where the driver does not scale by itself.
CheckCPUFreq(f, load) ==
  IF f.governor = "powersave"
  THEN IF "scalesItself" \in f.flags THEN {}
       ELSE {Found(IF "battery" \in f.flags THEN "INFO" ELSE "WARN", "CPUFreq")}
  ELSE When(f.governor # "" /\ f.below >= 40 /\ load >= 20, Found("WARN", "CPUFreq"))

CheckNUMA(n) == When("imbalanced" \in n.flags, Found("WARN", "NUMA"))

-------------------------------------------------------------------------------
(* GPU *)

GPUDeviceHasMetrics(d) ==
  d.temp > 0 \/ d.junction > 0 \/ d.power > 0 \/ d.util > 0 \/ "otherMetrics" \in d.flags

GPUTemperature(value, warn, crit) ==
  IF SiliconPlausible(value) THEN LevelPct("GPU", value, warn, crit)
  ELSE {UnreadAt("WARN", "GPU")}

\* checkGPUDevice.  An APU's memory is the system's.
GPUDevice(d) ==
  LET util == d.util \in 0..100
  IN IF "fallenOffTheBus" \in d.flags THEN {Found("CRIT", "GPU")}
     ELSE IF ~GPUDeviceHasMetrics(d) THEN {Unread("GPU")}
     ELSE GPUTemperature(d.temp, 80, 90) \cup GPUTemperature(d.junction, 90, 100)
          \cup (IF "apu" \in d.flags THEN {} ELSE LevelPct("GPU", d.memory, 85, 95))
          \cup When(\/ "throttling" \in d.flags
                    \/ d.vram >= 90 /\ "apu" \notin d.flags
                    \/ "lowPowerMode" \in d.flags /\ util /\ d.util >= 50, Found("WARN", "GPU"))
          \cup When(util /\ d.util >= 80 /\ d.power >= 80, Found("INFO", "GPU"))

CheckGPU(gpu) ==
  When("noDriver" \in gpu.flags, Found("INFO", "GPU")) \cup UNION {GPUDevice(d) : d \in gpu.devices}

-------------------------------------------------------------------------------
(* Drives of dsd hardware, BMC and RAID controllers *)

\* How bad a count of a drive's faults is; any is a warning.
FaultCount(count, crit) == LevelPct("Hardware", count, 1, crit)

HardwareFaults(d) ==
  (IF d.type = "nvme" THEN LevelPct("Hardware", d.temp, 70, 80)
   ELSE LevelPct("Hardware", d.temp, 50, 60))
  \cup LevelPct("Hardware", d.wear, 80, 95)
  \cup FaultCount(d.reallocated, 10) \cup FaultCount(d.pending, 5)
  \cup FaultCount(d.uncorrectable, 1) \cup FaultCount(d.media, 10)

\* smart: what smartctl said of the drive.  No tool and no report are findings, and
\* a drive without any is reported as healthy.
HardwareDrive(d) ==
  IF d.smart = "noTool" THEN {Found("INFO", "Hardware")}
  ELSE IF d.smart = "error" THEN {Found("WARN", "Hardware")}
  ELSE IF d.smart = "passed" /\ HardwareFaults(d) = {} THEN {Found("OK", "Hardware")}
  ELSE HardwareFaults(d)
       \cup When(d.smart = "unreported", Found("INFO", "Hardware"))
       \cup When(d.smart = "failed", Found("CRIT", "Hardware"))

\* edac: the ECC counters that are not 0.
CheckHardware(h) ==
  (UNION {HardwareDrive(d) : d \in h.drives})
  \cup (IF "edac" \notin h.flags THEN {}
        ELSE When("uncorrected" \in h.flags, Found("CRIT", "Hardware"))
             \cup When("corrected" \in h.flags /\ "uncorrected" \notin h.flags,
                       Found("WARN", "Hardware"))
             \cup When("edacUnreadable" \in h.flags, Unread("Hardware")))

CheckIPMI(i) ==
  IF "ipmiNeedsRoot" \in i.flags THEN {Unread("IPMI")}
  ELSE IF "sensorsUnread" \in i.flags THEN {UnreadAt("WARN", "IPMI")}
  ELSE When(i.flags \cap {"psuFailed", "tempCritical"} # {}, Found("CRIT", "IPMI"))
       \cup When("fanFailed" \in i.flags, Found("WARN", "IPMI"))

\* A virtual or a physical drive of a controller.
RaidVolume(state) ==
  IF state \in {"offline", "degraded", "failed"} THEN {Found("CRIT", "HardwareRAID")}
  ELSE When(state \in {"rebuilding", "predictive"}, Found("WARN", "HardwareRAID"))

\* battery: of the write cache.
RaidController(c) ==
  (UNION {RaidVolume(state) : state \in c.members})
  \cup (IF "batteryBad" \in c.flags THEN {Found("WARN", "HardwareRAID")}
        ELSE When("cacheBatteryUnread" \in c.flags, Unread("HardwareRAID")))

CheckHWRaid(r) ==
  IF r.flags \cap {"toolNeedsRoot", "outputUnreadable"} # {} THEN {Unread("HardwareRAID")}
  ELSE UNION {RaidController(c) : c \in r.controllers}

-------------------------------------------------------------------------------
(* Firmware, snapshots, subscription *)

CheckFirmware(f) ==
  IF "updatesUnverified" \in f.flags THEN {Unread("Firmware")}
  ELSE When("security" \in f.flags, Found("WARN", "Firmware"))
       \cup When("other" \in f.flags, Found("INFO", "Firmware"))

\* age: hours since the last snapshot, negative where unknown.
SnapshotState(s) ==
  (IF s.age < 0 THEN {UnreadAt("WARN", "Snapshots")} ELSE LevelPct("Snapshots", s.age, 24, 72))
  \cup LevelPct("Snapshots", s.space, 20, 50)

\* A host with recent snapshots that fit is reported as healthy.
CheckSnapper(s) ==
  IF "snapperNeedsRoot" \in s.flags THEN {Unread("Snapshots")}
  ELSE IF "error" \in s.flags \/ s.count = 0 THEN {Found("WARN", "Snapshots")}
  ELSE IF SnapshotState(s) = {} THEN {Found("OK", "Snapshots")} ELSE SnapshotState(s)

\* days: until the subscription expires, negative where unknown.
SUSESubscription(s) ==
  IF "registered" \notin s.flags
  THEN {IF s.status = "queryFailed" THEN Unread("Subscription")
        ELSE Found("WARN", "Subscription")}
  ELSE IF s.days < 0 THEN {Unread("Subscription")}
  ELSE IF s.days <= 14 THEN {Found("CRIT", "Subscription")}
  ELSE When(s.days <= 30, Found("WARN", "Subscription"))

RHELSubscription(s) ==
  IF "statusUnverified" \in s.flags THEN {Unread("Subscription")}
  ELSE When(s.status = "unregistered", Found("WARN", "Subscription"))
       \cup When(s.status = "expired", Found("CRIT", "Subscription"))

CheckSUSEConnect(s) ==
  IF s.platform = "rhel" THEN RHELSubscription(s)
  ELSE IF s.platform = "ubuntu" THEN When(s.status = "detached", Found("INFO", "Subscription"))
  ELSE SUSESubscription(s)

-------------------------------------------------------------------------------
(* SteamOS *)

\* checkSteamOSUpdate for one of the two slots; the booted one must be good.
UpdateSlot(status, level) ==
  IF status = "bad" THEN {Found(level, "SteamOS")}
  ELSE When(status \notin {"", "good"}, Unread("SteamOS"))

\* secureBoot, readonly: "on", "off", "unknown", or "n/a".
SteamOSSystem(s) ==
  When("otherDevice" \in s.flags, Found("INFO", "SteamOS"))
  \cup When(s.secureBoot = "on", Found("WARN", "SteamOS"))
  \cup When(s.readonly = "off", Found("CRIT", "SteamOS"))
  \cup When(s.secureBoot = "unknown" \/ s.readonly = "unknown" \/ "raucUnread" \in s.flags,
            Unread("SteamOS"))
  \cup (IF "raucUnread" \in s.flags THEN {}
        ELSE UpdateSlot(s.booted, "CRIT") \cup UpdateSlot(s.inactive, "WARN"))
  \cup (IF s.channel = "missing" THEN {Found("WARN", "SteamOS")}
        ELSE When(s.channel = "other", Found("INFO", "SteamOS")))

CheckSteamOS(s) ==
  SteamOSSystem(s)
  \cup When("gamescopeDown" \in s.flags, Found("CRIT", "SteamOS"))
  \cup LevelPct("SteamOS", s.var, 70, 85) \cup LevelPct("SteamOS", s.home, 85, 95)
  \cup When(s.flags \cap {"updateServerUnreachable", "largeFlatpaks", "portsUnbound",
                          "firewallBlocking", "isolated"} # {}, Found("WARN", "SteamOS"))

\* checkSteamOSDisk, of the disk collector: the shader cache in GB.
SteamOSDisk(d) ==
  LevelPct("SteamOS", d.shaderCache, 11, 31)
  \cup When("bindMountBroken" \in d.flags, Found("WARN", "SteamOS"))

\* checkSteamOSWifi, of the network collector.
SteamOSWifi(w) ==
  When("bothBackends" \in w.flags, Found("WARN", "SteamOS"))
  \cup When("devMode" \in w.flags /\ "bothBackends" \notin w.flags, Found("INFO", "SteamOS"))
  \cup When(w.flags \cap {"ssidConflict", "slowCDN"} # {}, Found("WARN", "SteamOS"))
  \cup (IF "connected" \notin w.flags THEN {}
        ELSE When(w.flags \cap {"band24", "width20"} # {}, Found("WARN", "SteamOS"))
             \cup (IF w.signal < -75 THEN {Found("CRIT", "SteamOS")}
                   ELSE When(w.signal \in -75..-65, Found("WARN", "SteamOS"))))

===============================================================================
