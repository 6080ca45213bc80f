-------------------------------- MODULE Readings --------------------------------
(***************************************************************************)
(* For each collector, a set of the data it may return: quiet data, every  *)
(* finding of its check, each with one that goes beside it, and every part *)
(* of its subject that it may fail to read.                                *)
(***************************************************************************)
EXTENDS Integers, TLC

\* At most one of flags, and at most two.
One(flags) == {{}} \cup {{f} : f \in flags}
Two(flags) == {{}} \cup {{f, g} : f, g \in flags}
Some(parts) == {{}} \cup {{p} : p \in parts}

\* Data with only flags; data, and what may differ from it.
Flags(sets) == [flags : sets]
Variants(usual, changes) == {usual} \cup {change @@ usual : change \in changes}

-------------------------------------------------------------------------------
(* Storage *)

HealthyNVMe ==
  [temp |-> 40, spare |-> 100, threshold |-> 10, used |-> 5, warning |-> 0, media |-> 0,
   unsafe |-> 3, hours |-> 900, cycles |-> 40, flags |-> {}]
EmptyNVMe ==
  [f \in DOMAIN HealthyNVMe |-> IF f = "flags" THEN {} ELSE IF f = "temp" THEN -273 ELSE 0]
NVMes ==
  {EmptyNVMe, [EmptyNVMe EXCEPT !.flags = {"smartUnread"}]}
  \cup Variants(HealthyNVMe,
         {[temp |-> 72], [temp |-> 200], [temp |-> -273], [spare |-> 15], [spare |-> 8],
          [spare |-> 120], [used |-> 95], [warning |-> 4], [media |-> 2], [unsafe |-> 200],
          [hours |-> 40000], [flags |-> {"dangerousFieldsUnread"}]})

HealthySATA ==
  [temp |-> 35, hours |-> 900, reallocated |-> 0, pending |-> 0, uncorrectable |-> 0, flags |-> {}]
SATAs ==
  Variants(HealthySATA,
    {[temp |-> 60], [temp |-> 300], [hours |-> 50000], [reallocated |-> 3], [pending |-> 1],
     [uncorrectable |-> 1], [flags |-> {"smartFailed"}], [flags |-> {"smartUnread"}]})
Drives ==
  [nvme : Some(NVMes), sata : Some(SATAs), flags : {{}}]
  \cup {[nvme |-> {}, sata |-> {}, flags |-> {"drivesListUnreadable"}]}

ZPools ==
  [state : {"ONLINE", "", "DEGRADED", "unrecognised"}, used : {50, 85, 95}, frag : {10, 60},
   scrub : {-1, 10, 40}, flags : Two({"vdevErrors", "scrubErrors"})]
  \cup [state : {"ONLINE", "FAULTED"}, used : {50}, frag : {75}, scrub : {-1},
        flags : {{"statusReadFailed"}}]
ZFSReadings == [pools : Some(ZPools), flags : One({"listReadFailed"})]

Groups == [name : {"g"}, full : {50, 95}, flags : {{}, {"mounted"}, {"mounted", "missingPVs"}}]
ThinPools == [vg : {"g", "h"}, data : {50, 85, 95}, meta : {10, 60, 80}]
LVMReadings ==
  [groups : Some(Groups), thinPools : Some(ThinPools), snapshots : Some({50, 85, 97}),
   raid : {{}, {"degraded"}, {"resyncing"}}, flags : {{}}]
  \cup [groups : Some(Groups), thinPools : {{}}, snapshots : {{}}, raid : {{}},
        flags : Two({"raidReadFailed", "pvReadFailed", "vgReadFailed", "lvReadFailed"})]
  \cup [groups : {{}}, thinPools : {{}}, snapshots : {{}}, raid : {{}},
        flags : {{"presenceReadFailed"}}]

DRBDReadings ==
  [resources : Some([connection : {"Connected", "SplitBrain", "WFConnection", "SyncTarget",
                                   "unrecognised"},
                     disk : {"UpToDate", "Failed", "Inconsistent", "Outdated", "unrecognised"}]),
   flags : One({"unverified"})]
RAIDReadings ==
  [arrays : Some([state : {"active", "degraded", "recovering", "unrecognised"}]),
   flags : One({"readFailed"})]

FS(mount, type, used, flags) ==
  [mount |-> mount, device |-> "sda", type |-> type, used |-> used, inodes |-> 10,
   device_gb |-> 100, total_gb |-> 100, flags |-> flags]
FileSystems ==
  {FS("/", "ext4", used, {}) : used \in {50, 85, 95}}
  \cup {FS(mount, type, 50, {"readOnly"}) : mount \in {"/", "/data"}, type \in {"ext4", "vfat"}}
  \cup {FS("/mnt", "squashfs", 100, {}), [FS("/", "xfs", 50, {}) EXCEPT !.inodes = 95],
        [FS("/", "xfs", 50, {}) EXCEPT !.total_gb = 60]}
QuietDisk ==
  [filesystems |-> {FS("/", "ext4", 50, {})}, volumes |-> {}, drives |-> {}, steamos |-> {},
   flags |-> {}]
DiskReadings ==
  Variants(QuietDisk,
    [filesystems : {{f, g} : f, g \in FileSystems}, flags : {{}, {"immutableRoot"}}]
    \cup [volumes : {{[flags |-> f]} :
            f \in Two({"showUnread", "missingDevs", "devReadUnverified", "statsUnread",
                       "errors"}) \cup {{"errors", "ioErrors"}}}]
    \cup [drives : {{[flags |-> f]} : f \in One({"smartUnreadable", "unhealthy", "worn"})}]
    \cup [steamos : {{[shaderCache |-> gb, flags |-> f]} :
            gb \in {1, 20, 40}, f \in One({"bindMountBroken"})}]
    \cup [flags : Two({"drivesListUnreadable", "zfsListReadFailed", "unreachableMount",
                       "zfsPools"})])
BriefDisk ==
  Variants(QuietDisk, {[filesystems |-> {FS("/", "ext4", 95, {})}], [flags |-> {"zfsPools"}],
                       [flags |-> {"zfsListReadFailed"}]})

HBAReadings ==
  [ports : Some([state : {"online", "offline", "unread"}, failures : {0, 20}, lossOfSync : {0, 200},
                 flags : {{}}]
                \cup [state : {"online", "offline"}, failures : {0}, lossOfSync : {0},
                      flags : {{"countersUnreadable"}}])]
MultipathReadings ==
  [devices : Some([failed : {0, 1}, active : {0, 1}]), flags : {{}}]
  \cup {[devices |-> {}, flags |-> {"pathsUnreadable"}]}
CephReadings ==
  [state : {""}, flags : {{"unavailable"}, {"unavailable", "configured"},
                          {"unavailable", "configured", "cephNeedsRoot"}}]
  \cup [state : {"HEALTH_OK", "HEALTH_WARN", "HEALTH_ERR", "HEALTH_UNKNOWN"},
        flags : One({"osdsDown"})]
ISCSIReadings == Flags(One({"sessionsNeedRoot", "sessionsParseFailed", "sessionsFailed"}))

-------------------------------------------------------------------------------
(* System *)

FDReadings == [used : {50, 85, 95}, hot : {{}, {50, 85}}, flags : One({"deletedOpen"})]
SysctlReadings ==
  [workload : {"default", "k8s", "container", "database", "elasticsearch", "webserver"},
   swappiness : {1, 20, 60}, watches : {0, 8192, 1048576}, pids : {10, 85},
   flags : One({"somaxconnLow", "mapCountLow", "twReuse", "dirtyRatioHigh"})]
BriefSysctl == {s \in SysctlReadings : s.pids = 10 /\ s.watches = 0 /\ s.flags = {}}

NoSELinux == [selinux |-> "absent", policy |-> "unset", avc |-> 0]
MACReadings ==
  {[apparmor |-> a, flags |-> f] @@ NoSELinux :
     a \in {"absent", "enforce"}, f \in Two({"complain", "denials", "denialsUnread"})}
  \cup {[apparmor |-> a, flags |-> {}] @@ NoSELinux :
          a \in {"disabled", "profilesUnreadable"}}
  \cup [selinux : {"enforcing", "permissive"}, policy : {"valid", "noDirectory"}, avc : {0, 3, 20},
        apparmor : {"absent"}, flags : One({"relabelPending"})]
  \cup [selinux : {"enforcing", "permissive"}, policy : {"valid"}, avc : {0},
        apparmor : {"absent"}, flags : {{"avcUnread"}}]
  \cup [selinux : {"disabled", "unknown"}, policy : {"unset"}, avc : {0}, apparmor : {"absent"},
        flags : {{}}]
BriefMAC == {m \in MACReadings : m.selinux = "enforcing" /\ m.policy = "valid"
                                 /\ "relabelPending" \notin m.flags}

ServicesReadings == [endpoints : {{}, {"up", "serverError"}, {"unreachable"}}]
OOMReadings == Flags(One({"kernelLogDenied"}) \cup Two({"countUnverified", "kills"}))
MTEReadings == Flags(One({"faultsUnread"}) \cup Two({"traceOff", "faults"}))
PressureReadings ==
  [memorySome : {0, 25}, memoryFull : {0, 15}, ioFull : {0, 8}, cpuSome : {0, 40},
   flags : One({"metricsUnreadable"})]
HugePagesReadings ==
  [used : {10, 50, 100}, flags : Two({"configured", "largeReserve", "transparentAlways"})]
  \cup {[used |-> 0, flags |-> {"pagesUnread"}]}
LaunchdReadings == Flags(One({"notListed", "failedServices"}))
SessionsReadings ==
  {[total |-> 0, flags |-> {"notListed"}], [total |-> 0, flags |-> {}]}
  \cup [total : {1, 8}, flags : Two({"rootSSH", "pve", "longIdle", "severalAddresses"})]

-------------------------------------------------------------------------------
(* Network *)

QuietNetwork ==
  [interfaces |-> {[name |-> "eth0", signal |-> 0, speed |-> 1000, flags |-> {}]},
   primary |-> "eth0", bonds |-> {}, wifi |-> {}, gateway |-> 1, internet |-> 10, loss |-> 0,
   resolve |-> 20, closeWait |-> 0, timeWait |-> 0, conntrack |-> 10, hours |-> 10,
   synRetrans |-> 0, listenOverflows |-> 0, retransFails |-> 0, flags |-> {}]
NetworkReadings ==
  Variants(QuietNetwork,
    [interfaces : {{i} : i \in [name : {"eth0", "eth1"}, signal : {0, -75, -85}, speed : {0, 100},
                                flags : One({"usb", "errorRateHigh"})]}]
    \cup [bonds : {{[flags |-> f]} : f \in Two({"usbSlave", "degraded", "allDown"})}]
    \cup [gateway : {-1, 1, 100, 300}, internet : {-1, 10}, loss : {0, 20, 60},
          flags : One({"primaryDown", "probeDisabled", "dnsFailed"})]
    \cup [resolve : {300, 600}, conntrack : {10, 70, 90}]
    \cup [closeWait : {200, 600}, timeWait : {0, 2000, 6000}]
    \cup [hours : {0, 10}, synRetrans : {0, 200, 900}, listenOverflows : {0, 5, 50, 500},
          retransFails : {0, 20, 90}]
    \cup [wifi : {{w} : w \in [signal : {-50, -70, -80},
                               flags : Two({"connected", "bothBackends", "devMode", "slowCDN",
                                            "band24"})]}]
    \cup [flags : Two({"interfacesUnreadable", "connectionsUnreadable", "sockstatUnreadable",
                       "netstatUnreadable", "primaryDown", "dnsFailed"})])
BriefNetwork ==
  Variants(QuietNetwork,
    {[gateway |-> -1, internet |-> -1], [loss |-> 20], [flags |-> {"dnsFailed"}],
     [flags |-> {"netstatUnreadable"}], [flags |-> {"probeDisabled"}]})

Bonds ==
  [slaves : {1, 2}, down : {0, 1, 2}, flags : Two({"notAggregating", "usbSlave", "linkFailures"})]
BondingReadings == [bonds : Some({b \in Bonds : b.down <= b.slaves})]
VLANReadings == [states : {{}, {"up", "down"}}]
InfiniBandReadings ==
  [links : {{}, {"ACTIVE"}, {"ACTIVE", "DOWN"}}, flags : {{}}]
  \cup {[links |-> {}, flags |-> {"portsUnread"}]}

DNSReadings ==
  [ndots : {1, 5}, latency : {20, 300, 600},
   flags : {resolves \cup {"nameservers"} \cup f :
              resolves \in {{}, {"internal"}, {"external"}, {"external", "internal"}},
              f \in One({"managed", "loopback", "tooManyNameservers", "duplicateNameserver",
                         "publicFallback"})}
           \cup {{}, {"probeSkipped"}, {"probeSkipped", "ipv6Only"}}]
BriefDNS ==
  {d \in DNSReadings : /\ d.ndots = 1 /\ d.latency = 20
                       /\ d.flags \in {{}, {"external", "internal", "nameservers"},
                                       {"internal", "managed", "nameservers"},
                                       {"probeSkipped"}}}
NetworkdReadings ==
  Flags(Two({"configDirUnreadable", "filesNotForNetworkd", "failedLinks", "stuckLinks"}))
BINDReadings ==
  Flags({{}} \cup {{"active"} \cup f :
           f \in Two({"portsUnchecked", "ownersUnverified", "port53Missing", "configError",
                      "queryUntested", "noAnswer"})})
NFSReadings ==
  [mounts : Some([state : {"ok", "stale", "unhealthy"}, type : {"nfs", "nfs4"},
                  flags : One({"optionWarnings"})]),
   flags : Two({"retransmitting", "rpcbind", "statsUnreadable"})]
BriefNFS == {n \in NFSReadings : n.flags \in {{"rpcbind"}, {"rpcbind", "statsUnreadable"}}
                                 /\ \A m \in n.mounts : m.type = "nfs4" /\ m.flags = {}}

-------------------------------------------------------------------------------
(* Hardware *)

BatteryReadings ==
  Flags(One({"batteryUnread"}))
  \cup [health : {0, 50, 70, 95}, charge : {5, 15, 80},
        flags : {{"present"}, {"present", "discharging"}}]
ThermalReadings ==
  [temp : {0, 50, 80, 90, 97, 500}, flags : {{}}] \cup {[temp |-> 0, flags |-> {"sensorUnreadable"}]}
CPUFreqReadings ==
  [governor : {"", "powersave", "performance"}, below : {0, 50},
   flags : Two({"scalesItself", "battery"})]
NUMAReadings == Flags(One({"imbalanced"}))
GPUs ==
  Variants([temp |-> 50, junction |-> 60, power |-> 30, util |-> 10, memory |-> 50, vram |-> 20,
            flags |-> {}],
    {[temp |-> 0, junction |-> 0, power |-> 0, util |-> 0]}
    \cup [temp : {85, 95, 400}, junction : {60, 95}] \cup [util : {60, 90, 900}, power : {30, 90}]
    \cup [memory : {90, 99}, vram : {20, 95}, flags : One({"apu"})]
    \cup [flags : One({"fallenOffTheBus", "throttling", "lowPowerMode"})])
GPUReadings == [devices : Some(GPUs), flags : One({"noDriver"})]
BriefGPU == {g \in GPUReadings : g.flags = {} /\ \A d \in g.devices : d.temp \in {0, 50, 95}
                                                   /\ d.memory = 50 /\ d.util # 900}

HardwareDrives ==
  Variants([smart |-> "passed", type |-> "sata", temp |-> 35, wear |-> 5, reallocated |-> 0,
            pending |-> 0, uncorrectable |-> 0, media |-> 0],
    [type : {"nvme", "sata"}, temp : {55, 75, 85}, wear : {5, 90}]
    \cup [smart : {"noTool", "error", "unreported", "failed"}, reallocated : {0, 3}]
    \cup {[pending |-> 7], [uncorrectable |-> 1], [media |-> 3]})
HardwareReadings ==
  [drives : Some(HardwareDrives),
   flags : {{}, {"edacUnreadable"}}
           \cup {{"edac"} \cup f : f \in Two({"uncorrected", "corrected", "edacUnreadable"})}]
IPMIReadings ==
  Flags(One({"ipmiNeedsRoot", "sensorsUnread"}) \cup Two({"psuFailed", "tempCritical", "fanFailed"}))
HWRaidReadings ==
  [controllers : Some([members : {{}, {"optimal"}, {"optimal", "degraded"}, {"rebuilding"}},
                       flags : One({"batteryBad", "cacheBatteryUnread"})]), flags : {{}}]
  \cup [controllers : {{}}, flags : {{"toolNeedsRoot"}, {"outputUnreadable"}}]
FirmwareReadings == Flags(One({"updatesUnverified"}) \cup Two({"security", "other"}))
SnapperReadings ==
  [count : {0, 5}, age : {-1, 5, 30, 100}, space : {10, 30, 60}, flags : {{}}]
  \cup [count : {0}, age : {-1}, space : {0}, flags : {{"snapperNeedsRoot"}, {"error"}}]
SubscriptionReadings ==
  [platform : {"rhel"}, status : {"current", "unregistered", "expired"}, flags : {{}}]
  \cup [platform : {"rhel"}, status : {""}, flags : {{"statusUnverified"}}]
  \cup [platform : {"ubuntu"}, status : {"attached", "detached"}, flags : {{}}]
  \cup [platform : {"suse"}, status : {"", "queryFailed"}, days : {-1}, flags : {{}}]
  \cup [platform : {"suse"}, status : {"ACTIVE"}, days : {-1, 10, 25, 300}, flags : {{"registered"}}]
SteamOSReadings ==
  Variants([secureBoot |-> "off", readonly |-> "on", booted |-> "good", inactive |-> "good",
            channel |-> "stable", var |-> 20, home |-> 20, flags |-> {}],
    [secureBoot : {"on", "unknown", "n/a"}, readonly : {"off", "unknown"}]
    \cup [booted : {"bad", "", "unrecognised"}, inactive : {"good", "bad", "unrecognised"}]
    \cup [channel : {"missing", "other"}, var : {20, 75, 90}, home : {20, 90, 97}]
    \cup [booted : {""}, inactive : {""}, flags : {{"raucUnread"}}]
    \cup [flags : Two({"otherDevice", "gamescopeDown", "largeFlatpaks", "firewallBlocking"})])

-------------------------------------------------------------------------------
(* Security *)

QuietSecurity ==
  [failedLogins |-> 0, ports |-> {}, days |-> 100, flags |-> {"sshAudited", "aliveInterval"}]
SecurityFlags ==
  {"auditNeedsRoot", "shadowUnreadable", "failedLoginsUnreadable", "pamFailuresUnreadable",
   "sshConfigUnreadable", "selinuxEnforcing", "avcUnread", "aideUnreadable",
   "supportconfigUnreadable", "offensive", "permitRoot", "pve", "passwordAuth", "x11Forwarding",
   "protocol1", "laxModes", "graceTime", "sudoNopasswd", "suidBinaries", "uid0Users", "avcDenials",
   "pamFailures", "apparmorUnreadable", "apparmorDenials", "legacyCrypto", "aide", "aideDatabase",
   "supportconfigStale", "registered", "emptyPasswords", "stalePasswords", "firewallWithoutSSH"}
HardeningReadings ==
  Variants(QuietSecurity,
    [flags : {f \in {{g, h, "sshAudited"} : g, h \in SecurityFlags} \cup One(SecurityFlags) :
                ~({"avcDenials", "avcUnread"} \subseteq f)}]
    \cup [failedLogins : {10, 50}] \cup [days : {-1, 10, 25}, flags : {{"registered"}}]
    \cup [ports : {{p} : p \in [number : {8006, 9090, 4444}, exe : {"system", "other"},
                                flags : One({"expected"})]}, flags : One({"pve"})])
BriefHardening ==
  Variants(QuietSecurity, {[flags |-> {"avcDenials"}], [flags |-> {"avcDenials", "suidBinaries"}]})
FirewallReadings ==
  [state : {"filtering", "inactive", "empty"},
   flags : Two({"pveFirewall", "cloudGuest", "blockedListeners"})]
  \cup [state : {"none"}, flags : {f \cup g : f \in One({"pveFirewall"}),
                                            g \in One({"rulesNeedRoot", "stateUnverified"})}]
AuthReadings ==
  {[failed |-> 0, flags |-> {"logUnread"}]}
  \cup [failed : {0, 50, 500, 5000},
        flags : {f \cup g : f \in One({"rootAttempts"}),
                            g \in {{}, {"configChecked"}, {"configChecked", "passwords"},
                                   {"configChecked", "passwords", "rootPasswords"}}}]
BriefAuth == {a \in AuthReadings : a.failed \in {0, 5000} /\ a.flags \subseteq {"logUnread"}}
AuditdReadings ==
  Flags({r \cup f : r \in One({"running"}),
           f \in Two({"auditRulesUnreadable", "eventsUnreadable", "auditLogUnreadable", "largeLog"})})

-------------------------------------------------------------------------------
(* Upkeep *)

PackageReadings ==
  [manager : {"apt", "dnf", "brew"}, status : {""}, worst : {"none", "important", "critical"},
   flags : Two({"dbUnchecked", "updatesBlocked", "esmUpdates", "migrationRisks", "broken",
                "verifyTimedOut", "verifyLocked", "integrityUnread", "ldconfigUnread"})]
  \cup [manager : {"dnf"}, status : {"noSecurityRepo", "updatesUnread"}, worst : {"none"},
        flags : One({"updatesBlocked"})]
CVEReadings ==
  [manager : {"", "apt", "dnf"}, ratings : {{}, {"low"}, {"important", "low"}, {"critical"}},
   flags : Two({"exploited", "scanFailed", "kevUnread"})]
TLSReadings ==
  [certs : Some([days : {3, 20, 90}, flags : One({"notYetValid"})]),
   flags : One({"certsUncheckable"})]
BriefTLS == {t \in TLSReadings : \A c \in t.certs : c.days # 20 /\ c.flags = {}}

KdumpReadings ==
  Flags({{}, {"stateUnread"}} \cup {{"enabled"} \cup f :
           f \in One({"serviceFailed", "crashKernelMissing"})})
TunedReadings == Flags(One({"stateUnread"}) \cup Two({"active", "otherProfile"}))
KernelPatchReadings == Flags(One({"patchUnverified", "rebootNeeded"}))
KspliceReadings == Flags(One({"patchUnverified", "pendingUpdates"}))
RestartReadings == Flags(Two({"stale", "partialScan"}))
RetentionReadings ==
  [kernels : {1, 3, 6}, used : {50, 85, 95}, flags : Two({"smallBoot", "unbounded"})]
  \cup {[kernels |-> 0, used |-> 0, flags |-> {"bootUnreadable"}]}
LivePatchReadings ==
  [patches : {{}, {"enabled"}, {"enabled", "disabled"}, {"transitioning", "unverified"},
              {"unverified"}}, flags : {{}}]
TransactionalReadings == Flags(One({"snapshotUnverified", "rebootPending"}))
CronReadings ==
  [overdue : {{}, {5}, {-1}},
   flags : {{"daemonDown"} \cup f : f \in One({"anacron", "timers", "failuresUnread"})}
           \cup Two({"failures", "failuresUnread", "missingCommands", "noPath", "qualityUnread"})]
PostBootReadings ==
  [state : {"found"},
   flags : {j \cup f : j \in One({"journal"}),
              f \in Two({"panic", "oomKills", "uncleanShutdown", "oomUnread", "panicUnread"})}]
  \cup [state : {"absent", "noPersistentJournal", "noWtmp", "journalDenied", "journalUnread"},
        flags : {{}}]
FstabReadings == [drifts : {{}, {"boot"}, {"other"}, {"boot", "other"}}]
RootFSReadings == Flags(One({"unexpectedReadOnly"}))

-------------------------------------------------------------------------------
(* Virtualisation *)

KVMReadings ==
  [vms : Some([state : {"running", "paused", "crashed", "shutOff", "unreadable"},
               flags : Two({"diskMissing", "autostart", "emulatedNIC"})]),
   flags : Two({"diskErrors", "diskErrorsUnchecked", "poolsUnread", "poolsNearFull"})]
  \cup {[vms |-> {}, flags |-> {"enumFailed"}]}
DockerFlags ==
  {"crashLooping", "oomEvents", "unhealthy", "deviceMapper", "unboundedLogs", "logsUnverified",
   "danglingImages", "forwardingOff", "dnsTrap", "ownDNS", "firewalldNftables", "zoneTrusted",
   "socketMounted", "runsAsRoot"}
DockerReadings ==
  [status : {"denied", "unusable", "idle", "unlisted"}, failedStopped : {0}, quadlets : {{}},
   flags : {{}}]
  \cup [status : {"running"}, failedStopped : {0, 9},
        quadlets : {{}, {"active", "failed"}, {"activating", "unread"}}, flags : Two(DockerFlags)]
BriefDocker ==
  {d \in DockerReadings : d.failedStopped = 0 /\ d.quadlets = {}
                          /\ d.flags \in {{}, {"oomEvents"}, {"unhealthy"}, {"logsUnverified"}}}
ContainerdReadings ==
  [status : {"denied", "unusable"}, service : {""}, flags : {{}}]
  \cup [status : {"running"}, service : {"", "active", "failed", "unknown"},
        flags : Two({"namespacesUnread", "countsUnread", "noBinary"})]
NspawnReadings == Flags(Two({"failed", "queryFailed"}))

Layer(proxy, services, certState, flags) ==
  [proxy |-> proxy, services |-> services, certState |-> certState, flags |-> flags]
Layers ==
  {Layer("iptables", 12, "valid", f) :
     f \in Two({"kubeletDown", "forwardUnchecked", "cniUnchecked", "flannelUnread", "cniEmpty",
                "masqueradeMissing"})}
  \cup {Layer(proxy, 0, "valid", {}) : proxy \in {"iptables", "cilium"}}
  \cup {Layer("ipvs", -1, certs, {}) : certs \in {"expired", "soon", "unread", "valid"}}
K8sReadings ==
  [conditions : {{}, {"DiskPressure"}, {"Other"}}, events : {{}, {60}, {9000}, {-1}}, layers : {{}},
   flags : Two({"nodesNotReady", "crashLooping", "pending", "pvcsUnread", "workloadsUnread",
                "eventsUnread"})]
  \cup [conditions : {{}}, events : {{}}, layers : Some(Layers), flags : One({"apiUnreachable"})]
RancherReadings ==
  Flags(Two({"serverUnread", "webhookUnread", "serverDegraded", "webhookDegraded"}))

KVMGuestReadings ==
  [agent : {"running", "missing", "stopped", "noChannel"}, steal : {0, 20},
   flags : Two({"emulatedNICs", "otherClock", "driversUnread"})]
  \cup [agent : {"running", "missing"}, steal : {0}, flags : {{"stealUnread"}}]
ContainerGuestReadings ==
  [limit : {0, 100}, usage : {10, 95}, throttled : {0, 20},
   flags : Two({"root", "oomKills", "noQuota", "cgroupUnmeasured"})]
VMwareReadings ==
  [tools : {"running", "presumed", "missing", "stopped"}, ram : {0, 100}, memLimit : {0, 50, 99},
   cpus : {2}, mhz : {1000, 99999}, cpuLimit : {0, 1500, 1999},
   flags : One({"ballooned", "emulatedNICs"})]
  \cup [tools : {"running", "presumed", "missing", "stopped"}, ram : {0}, memLimit : {0},
        cpus : {0}, mhz : {0}, cpuLimit : {0}, flags : {{"statUnread"}, {"statUnread", "ringErrors"}}]

QuietPVE ==
  [subscription |-> "active", storages |-> {[state |-> "up", used |-> 40]}, age |-> 1,
   guests |-> {1}, flags |-> {}]
PVEReadings ==
  Variants(QuietPVE,
    [flags : {{"pveNeedsRoot"}, {"apiUnreachable"}}]
    \cup [subscription : {"", "notfound", "expired", "unrecognised"}]
    \cup [storages : {{[state |-> state, used |-> used]} :
                        state \in {"up", "down", "disabled"}, used \in {40, 85, 95}}]
    \cup [age : {-1, 1, 20}, guests : {{}, {-1}, {1, 20}},
          flags : One({"backupsUnread", "guestsUnread", "backupFailed"})]
    \cup [flags : Two({"noQuorum", "nodeOffline", "fencingFailed", "fencingUnread", "mixedVersions",
                       "storagesUnread", "tasksUnread", "taskErrors"})])

-------------------------------------------------------------------------------
(* Clouds *)

CloudMetaReadings ==
  Flags(One({"metadataUnread"}) \cup Two({"spotTermination", "spotUnchecked", "maintenance"}))
CloudInitReadings ==
  [status : {"done", "running", "error"}, flags : Two({"errors", "degraded"})]
  \cup {[status |-> "", flags |-> {"initUnverified"}]}
AWSReadings ==
  [nics : {{}, {"now"}, {"before"}}, ebs : {{}, {"now", "before"}},
   flags : Two({"ebsNeedsRoot", "ebsUnread", "ebsDeltaUnread", "imdsUnchecked", "imdsV1",
                "rebalanceUnchecked", "rebalance", "otherTimeSource", "agentStopped"})]
AzureReadings ==
  [functions : {{}, {"ok", "unbonded"}, {"down"}}, disks : {{}, {"None", "ReadWrite"}},
   timeout : {0, 30, 240},
   flags : Two({"agentStopped", "dataOnTempDisk", "otherTimeSource", "disksUnread"})]
GCPReadings ==
  Flags(Two({"agentStopped", "maintenanceUnchecked", "maintenance", "terminates", "preemptible",
             "otherTimeSource"}))
OCIReadings ==
  [checked : SUBSET {"imds", "agent", "time", "vnic"},
   flags : Two({"imdsV1", "agentStopped", "updaterStopped", "otherTimeSource", "notSynced",
                "ringDrops"})]

-------------------------------------------------------------------------------
(* Services *)

PostgresReadings ==
  [used : {10, 85, 97}, limit : {0, 100}, idle : {0, 9}, lag : {0, 900},
   flags : {{}, {"replica"}, {"replica", "caughtUp"}}]
  \cup [used : {0}, limit : {0}, idle : {0}, lag : {0}, flags : {{"refusing"}, {"metricsUnread"}}]
MySQLReadings ==
  [used : {10, 85, 97}, limit : {0, 100}, lag : {0, 900},
   flags : {c \cup r : c \in One({"connectionsUnread"}), r \in {{}, {"replica"}, {"replica", "stopped"}}}]
  \cup {[used |-> 0, limit |-> 0, lag |-> 0, flags |-> {"metricsUnread"}]}
RedisReadings ==
  [used : {10, 95}, limit : {100}, memory : {10, 90, 97}, memoryLimit : {0, 100},
   flags : Two({"noEviction", "replica", "stopped", "saveFailed"})]
  \cup [used : {10}, limit : {0}, memory : {10}, memoryLimit : {0}, flags : {{"limitUnread"}}]
  \cup [used : {0}, limit : {0}, memory : {0}, memoryLimit : {0}, flags : {{"metricsUnread"}}]
MemcachedReadings ==
  [used : {10, 95}, limit : {100}, flags : One({"evicting"})]
  \cup [used : {10}, limit : {0}, flags : {{"maxUnread"}, {"metricsUnread"}}]
MongoDBReadings ==
  [used : {10, 95}, limit : {0, 100}, flags : One({"replicaUnread", "noPrimary", "downMembers"})]
  \cup [used : {0}, limit : {0}, flags : {{"metricsUnread"}}]
KafkaReadings ==
  Flags(One({"metricsUnread"}) \cup Two({"offline", "replicationUnread", "underReplicated"}))
RabbitMQReadings == Flags(One({"metricsUnread", "alarmsUnread", "alarm"}))
ElasticsearchReadings ==
  [state : {"red", "yellow", "green", "unrecognised"}, flags : One({"identityUnverified"})]
  \cup [state : {""}, flags : {{"metricsUnread"}, {"metricsUnread", "identityUnverified"}}]
WebReadings == [state : {"valid", "invalid", "untested"}, flags : {{}}]
EnvoyReadings ==
  [clusters : {0, 2}, hosts : {4}, healthy : {3, 4, 5},
   flags : Two({"identityUnverified", "clusterDown", "metricsUnread"})]
TraefikReadings == Flags(One({"metricsUnread"}) \cup Two({"routerErrors", "serviceErrors"}))
PrometheusReadings ==
  [targets : {0, 3}, down : {0}, flags : One({"metricsUnread", "reloadFailed"})]
  \cup [targets : {3}, down : {1, 3}, flags : One({"reloadFailed"})]
AlertmanagerReadings ==
  Flags(Two({"identityUnverified", "metricsUnread", "reloadUnread", "reloadFailed"}))
GrafanaReadings == Flags(Two({"identityUnverified", "metricsUnread", "databaseDown"}))
VaultReadings ==
  [answer : {"none", "foreign"}, flags : {{}}]
  \cup [answer : {"vault"}, flags : {{"metricsUnread"}}
          \cup {{"initialized"} \cup f : f \in Two({"identityUnverified", "devMode", "sealed", "tls"})}]
HAReadings ==
  [fencing : {"on", "off", "noDevice"},
   flags : One({"stopped", "metricsUnread"})
           \cup Two({"noQuorum", "failedResources", "stoppedResources", "ambiguousResources"})]

===============================================================================
