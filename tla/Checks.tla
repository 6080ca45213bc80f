--------------------------------- MODULE Checks ---------------------------------
(***************************************************************************)
(* analysis.ApplyThresholds: which check scores the data of which          *)
(* collector, by which thresholds, and what one collector's data says to   *)
(* the check of another.                                                   *)
(*                                                                         *)
(* res maps the names of collectors to their results: [kind |-> "failed"], *)
(* [kind |-> "nothing"] or [kind |-> "data", data |-> ...].  A name stands *)
(* for the type of the data; spaces in names are left out.                 *)
(***************************************************************************)
EXTENDS Heuristics, HeuristicsHardware, HeuristicsNetwork, HeuristicsServices,
        HeuristicsStorage, HeuristicsSystem, HeuristicsVirt

-------------------------------------------------------------------------------
(* Thresholds *)

DefaultThresholds(env) ==
  [cpuWarn |-> 70, cpuCrit |-> 90, ramWarn |-> 80, ramCrit |-> 95, slabWarn |-> 20,
   diskWarn |-> 80, diskCrit |-> 90, fdWarn |-> 80, fdCrit |-> 90, fdProcWarn |-> 80,
   swapWarn |-> 20, swapCrit |-> 60, pagingWarn |-> 50, pagingCrit |-> 100,
   utilWarn |-> 60, utilCrit |-> 85, ntpWarn |-> 100, ntpCrit |-> 500,
   zombieWarn |-> 1, hungCrit |-> 5, journalWarn |-> 2, journalCrit |-> 5,
   awaitWarn |-> CASE env = "virtual" -> 5 [] env = "bare" -> 1 [] OTHER -> 2,
   awaitCrit |-> CASE env = "virtual" -> 20 [] env = "bare" -> 5 [] OTHER -> 10]

AtLeastOf(value, floor) == IF value < floor THEN floor ELSE value

\* ApplyContainerThresholds
ForContainers(t) ==
  [t EXCEPT !.awaitWarn = AtLeastOf(@, 5), !.awaitCrit = AtLeastOf(@, 20)]

PolicyFields ==
  {"cpuWarn", "cpuCrit", "ramWarn", "ramCrit", "slabWarn", "diskWarn", "diskCrit", "fdWarn",
   "fdCrit", "swapWarn", "swapCrit", "pagingWarn", "pagingCrit", "utilWarn", "utilCrit",
   "awaitWarn", "awaitCrit", "ntpWarn", "ntpCrit", "zombieWarn", "hungCrit"}

\* ApplyPolicy: nothing orders a policy's warn and crit.
ApplyPolicy(t, policy) ==
  [f \in DOMAIN t |-> IF f \in DOMAIN policy THEN policy[f] ELSE t[f]]

Thresholds(s) ==
  LET t == DefaultThresholds(s.env)
  IN ApplyPolicy(IF s.container = "no" THEN t ELSE ForContainers(t), s.policy)

-------------------------------------------------------------------------------
(* What one check's data says to another's *)

HasData(res, c) == c \in DOMAIN res /\ res[c].kind = "data"

\* swapInUse
SwapInUse(swap) == swap.used > 0 \/ swap.paging > 0

\* prescanContext: pools of its own that the host imports, whether it swaps, and its
\* CPU load, 0 where no one measured it.
Prescan(res) ==
  [zfsPools |-> \/ HasData(res, "ZFS") /\ res["ZFS"].data.pools # {}
                \/ HasData(res, "Disk") /\ "zfsPools" \in res["Disk"].data.flags,
   swapping |-> HasData(res, "Swap") /\ SwapInUse(res["Swap"].data),
   load |-> IF HasData(res, "CPULoad") THEN res["CPULoad"].data.load ELSE 0]

\* dedupeSELinuxDenials: the denials KernelSec scores are not scored again.
Deduplicated(res) ==
  IF /\ HasData(res, "KernelSec") /\ HasData(res, "Hardening")
     /\ res["KernelSec"].data.selinux # "absent"
     /\ \E level \in {"WARN", "CRIT"} :
          Found(level, "KernelSec") \in SELinuxDenials(res["KernelSec"].data)
  THEN [res EXCEPT !["Hardening"].data.flags = @ \ {"avcDenials"}] ELSE res

-------------------------------------------------------------------------------
(* applyOne and applyOneExtended.  said: what Prescan found.  A check that is *)
(* not listed gives no insight.                                               *)

SystemInsights(c, data, t, s, said) ==
  CASE c = "CPULoad" -> CheckCPU(data, t, s)
    [] c = "Memory" -> CheckMemory(data, t, s)
    [] c = "Disk" -> CheckDisk(data, t) \cup UNION {SteamOSDisk(d) : d \in data.steamos}
    [] c = "Swap" -> CheckSwap(data, t)
    [] c = "IO" -> CheckIO(data.stats, t)
    [] c = "Network" -> CheckNetwork(data) \cup UNION {SteamOSWifi(w) : w \in data.wifi}
    [] c = "NFS" -> CheckNFS(data)
    [] c = "BIND" -> CheckBIND(data)
    [] c = "Clock" -> CheckClock(data, t)
    [] c = "Networkd" -> CheckNetworkdConfig(data)
    [] c = "RootFS" -> CheckRootFS(data)
    [] c = "Fstab" -> CheckFstab(data)
    [] c = "FDLimits" -> CheckFD(data, t)
    [] c = "Systemd" -> CheckSystemd(data, said.zfsPools)
    [] c = "Sysctl" -> CheckSysctl(data, said.swapping)
    [] c = "KernelSec" -> CheckKernelSecurity(data, s)
    [] c = "Logs" -> CheckLogs(data, t, s)
    [] c = "Entropy" -> CheckEntropy(data.bits)
    [] OTHER -> {}

MachineInsights(c, data, t, s, said) ==
  CASE c = "Packages" -> CheckPackages(data)
    [] c = "CVE" -> CheckCVEHealth(data)
    [] c = "Drives" -> CheckNVMe(data)
    [] c = "RAID" -> CheckRAID(data)
    [] c = "ZFS" -> CheckZFS(data)
    [] c = "LVM" -> CheckLVM(data)
    [] c = "DRBD" -> CheckDRBD(data)
    [] c = "PVE" -> CheckPVE(data, s)
    [] c = "Battery" -> CheckBattery(data)
    [] c = "CPUThermal" -> CheckThermal(data, said.load)
    [] c = "CPUDeep" -> CheckHealthDeep(data)
    [] c = "Firmware" -> CheckFirmware(data)
    [] OTHER -> {}

ServiceInsights(c, data) ==
  CASE c = "Docker" -> CheckDocker(data)
    [] c = "Containerd" -> CheckContainerd(data)
    [] c = "Postgres" -> CheckPostgres(data)
    [] c = "MySQL" -> CheckMySQL(data)
    [] c = "Redis" -> CheckRedis(data)
    [] c = "Memcached" -> CheckMemcached(data)
    [] c = "Nginx" -> CheckNginx(data)
    [] c = "Apache" -> CheckApache(data)
    [] c = "HAProxy" -> CheckHAProxy(data)
    [] c = "RabbitMQ" -> CheckRabbitMQ(data)
    [] c = "Elasticsearch" -> CheckElasticsearch(data)
    [] c = "MongoDB" -> CheckMongoDB(data)
    [] c = "Kafka" -> CheckKafka(data)
    [] c = "Prometheus" -> CheckPrometheus(data)
    [] c = "Alertmanager" -> CheckAlertmanager(data)
    [] c = "Grafana" -> CheckGrafana(data)
    [] c = "Traefik" -> CheckTraefik(data)
    [] c = "Envoy" -> CheckEnvoy(data)
    [] c = "K8s" -> CheckK8s(data)
    [] c = "Rancher" -> CheckRancher(data)
    [] c = "HACluster" -> CheckHA(data)
    [] c = "KVM" -> CheckKVM(data)
    [] c = "SteamOS" -> CheckSteamOS(data)
    [] c = "TLS" -> CheckTLS(data)
    [] OTHER -> {}

DeviceInsights(c, data, t, s) ==
  CASE c = "GPU" -> CheckGPU(data)
    [] c = "Hardening" -> CheckSecurity(data, s)
    [] c = "Processes" -> CheckProcesses(data, t, s)
    [] c = "Snapshots" -> CheckSnapper(data)
    [] c = "Subscription" -> CheckSUSEConnect(data)
    [] c = "Hardware" -> CheckHardware(data)
    [] c = "Bonding" -> CheckBonding(data)
    [] c = "IPMI" -> CheckIPMI(data)
    [] c = "OOM" -> CheckOOM(data, s)
    [] c = "MTE" -> CheckMTE(data)
    [] c = "HBA" -> CheckHBA(data)
    [] c = "Pressure" -> CheckPressure(data)
    [] c = "Multipath" -> CheckMultipath(data)
    [] c = "HardwareRAID" -> CheckHWRaid(data)
    [] c = "Ceph" -> CheckCeph(data)
    [] c = "Firewall" -> CheckFirewall(data, s)
    [] c = "Auth" -> CheckAuth(data)
    [] OTHER -> {}

GuestInsights(c, data, s) ==
  CASE c = "CloudMeta" -> CheckCloudMeta(data)
    [] c = "CloudInit" -> CheckCloudInit(data)
    [] c = "VMware" -> CheckVMware(data)
    [] c = "KVMGuest" -> CheckKVMGuest(data)
    [] c = "ContainerGuest" -> CheckContainerGuest(data)
    [] c = "AWS" -> CheckAWS(data)
    [] c = "Azure" -> CheckAzure(data)
    [] c = "GCP" -> CheckGCP(data)
    [] c = "OCI" -> CheckOCI(data)
    [] c = "PostBoot" -> CheckPostBoot(data, s)
    [] c = "Auditd" -> CheckAuditd(data, s)
    [] c = "NUMA" -> CheckNUMA(data)
    [] c = "VLAN" -> CheckVLAN(data)
    [] c = "iSCSI" -> CheckISCSI(data)
    [] c = "InfiniBand" -> CheckInfiniBand(data)
    [] c = "Nspawn" -> CheckNspawn(data)
    [] OTHER -> {}

UpkeepInsights(c, data, s, said) ==
  CASE c = "HugePages" -> CheckHugePages(data)
    [] c = "CPUFreq" -> CheckCPUFreq(data, said.load)
    [] c = "Launchd" -> CheckLaunchd(data)
    [] c = "DBus" -> CheckDBus(data.status)
    [] c = "Sessions" -> CheckSessions(data)
    [] c = "Cron" -> CheckCron(data)
    [] c = "DNS" -> CheckDNS(data)
    [] c = "Kdump" -> CheckKdump(data)
    [] c = "Tuned" -> CheckTuned(data)
    [] c = "Kernel" -> CheckKernelPatch(data)
    [] c = "Ksplice" -> CheckKsplice(data)
    [] c = "ServiceRestart" -> CheckServiceRestart(data, s)
    [] c = "KernelRetention" -> CheckKernelRetention(data)
    [] c = "LivePatch" -> CheckLivePatch(data)
    [] c = "Transactional" -> CheckTransactional(data)
    [] c = "Services" -> CheckServices(data)
    [] c = "Vault" -> CheckVault(data)
    [] OTHER -> {}

ApplyOne(c, data, t, s, said) ==
  SystemInsights(c, data, t, s, said) \cup MachineInsights(c, data, t, s, said)
  \cup ServiceInsights(c, data) \cup DeviceInsights(c, data, t, s)
  \cup GuestInsights(c, data, s) \cup UpkeepInsights(c, data, s, said)

\* What the result of collector c comes to; a collector without data, or with
\* Available = false, says nothing.
InsightsOf(res, c, s) ==
  IF res[c].kind = "failed" THEN {Unread(c)}
  ELSE IF res[c].kind = "data"
  THEN ApplyOne(c, res[c].data, Thresholds(s), s, Prescan(res)) ELSE {}

ApplyThresholds(res, s) ==
  LET scored == Deduplicated(res) IN UNION {InsightsOf(scored, c, s) : c \in DOMAIN res}

===============================================================================
