------------------------------- MODULE Collection -------------------------------
(***************************************************************************)
(* One collector of one run, from the host to its insights: it reads what  *)
(* its user may read and what answers in time, and its check judges the    *)
(* data it returns.  What is wrong with a host is what a run by root that  *)
(* could read everything says of it.                                       *)
(***************************************************************************)
EXTENDS Checks, PlatformCollectors, StorageCollectors, SystemCollectors

CONSTANTS Collectors,   \* names of collectors
          HostsOf,      \* for each, hosts that differ in what it looks at
          LossesOf      \* for each, what a run may be unable to read

ASSUME CollectionAssumption ==
  /\ Collectors \subseteq STRING
  /\ \A c \in Collectors : HostsOf[c] # {} /\ LossesOf[c] # {}

VARIABLES
  collector,   \* the one that runs
  host,        \* what it has to say
  view,        \* what the run sees of it
  result,      \* of the collector
  insights,    \* of its check
  phase        \* "idle", "collected" or "judged"

vars == <<collector, host, view, result, insights, phase>>

-------------------------------------------------------------------------------
NotCollected == [kind |-> "nothing"]
Delivered(data) == [kind |-> "data", data |-> data]
Where(available, data) == IF available THEN Delivered(data) ELSE NotCollected
Unless(fails, r) == IF fails THEN [kind |-> "failed"] ELSE r

\* Host h as user sees it where the sources of lost could not be read; a source h
\* does not have cannot be lost.
View(h, user, lost) ==
  [says |-> h.says, num |-> h.num, absent |-> h.absent, user |-> user,
   lost |-> [s \in DOMAIN lost \ h.absent |-> lost[s]]]
NothingLost == [s \in {} |-> "ok"]

\* What the run knows without reading it, and what it may only be refused.
Certain == {"environment", "mode", "asked", "network policy"}
Refused == {"/boot"}
ASSUME LossesAssumption ==
  \A c \in Collectors : \A lost \in LossesOf[c] :
    /\ DOMAIN lost \cap Certain = {}
    /\ \A s \in DOMAIN lost : lost[s] = "denied" \/ (lost[s] = "failed" /\ s \notin Refused)

\* The multipath daemon and the maps tell of the same paths.
Coherent(v) ==
  Ok(v, "multipathd show paths") /\ Ok(v, "multipath -l") =>
    Says(v, "multipathd show paths") = Says(v, "multipath -l")
ASSUME PathsAssumption ==
  \A c \in Collectors : \A h \in HostsOf[c] : Coherent(View(h, "root", NothingLost))

\* What collector c returns of v; DRBD and the like are left out where a gate does
\* not find them (health.go).
StorageResultOf(c, v) ==
  CASE c = "Disk" -> Unless(DiskGivesUp(v), Delivered(DiskData(v)))
    [] c = "RootFS" ->
         Unless(~Ok(v, "/proc/mounts"), Where(RootFSFound(v), RootFSData))
    [] c = "Fstab" -> Where(Exists(v, "/etc/fstab"), FstabData(v))
    [] c = "Drives" -> Where(DrivesFound(v), DrivesData(v))
    [] c = "ZFS" -> Where(Exists(v, "zpool"), ZFSData(v))
    [] c = "LVM" -> Where(Exists(v, "lvs --version"), LVMData(v))
    [] c = "DRBD" -> Where(DRBDFound(v), DRBDData(v))
    [] c = "RAID" -> Where(RAIDPresent(v), RAIDData(v))
    [] c = "HardwareRAID" -> Where(HWRaidFound(v), HWRaidData(v))
    [] c = "Multipath" -> Where(MultipathFound(v), MultipathData(v))
    [] c = "HBA" -> Where(Says(v, "/sys/class/fc_host") # {}, HBAData(v))
    [] c = "Ceph" -> Where(Exists(v, "ceph"), CephData(v))
    [] c = "iSCSI" -> Where(ISCSIFound(v), ISCSIData(v))
    [] c = "Snapshots" -> Where(Exists(v, "snapper"), SnapperData(v))
    [] c = "Bonding" -> Where(Says(v, "/proc/net/bonding") # {}, BondingData(v))
    [] OTHER -> NotCollected

SystemResultOf(c, v) ==
  CASE c = "CPULoad" -> Unless(~Ok(v, "/proc/loadavg"), Delivered(CPUData(v)))
    [] c = "Memory" -> Delivered(MemoryData(v))
    [] c = "Swap" -> Unless(~Ok(v, "/proc/vmstat"), Delivered(SwapData(v)))
    [] c = "IO" -> Unless(~Ok(v, "/proc/diskstats"), Delivered(IOData(v)))
    [] c = "FDLimits" -> Unless(~Ok(v, "file-nr"), Delivered(FDData(v)))
    [] c = "Processes" -> Delivered(ProcessesData(v))
    [] c = "Sysctl" -> Delivered(SysctlData(v))
    [] c = "Pressure" -> Where(Exists(v, "pressure/memory"), PressureData(v))
    [] c = "HugePages" -> Delivered(HugePagesData(v))
    [] c = "DBus" -> Where(Exists(v, "systemd"), DBusData(v))
    [] c = "Entropy" -> Unless(~Ok(v, "entropy_avail"), Delivered(EntropyData(v)))
    [] c = "Clock" -> Delivered(ClockData(v))
    [] c = "OOM" -> Delivered(OOMData(v))
    [] c = "Sessions" -> Delivered(SessionsData(v))
    [] c = "Auth" -> Where(Exists(v, "sshd"), AuthData(v))
    [] c = "Network" -> Delivered(NetworkData(v))
    [] OTHER -> StorageResultOf(c, v)

ResultOf(c, v) ==
  CASE c = "Logs" -> Delivered(LogsData(v))
    [] c = "Packages" -> Delivered(PackagesData(v))
    [] c = "Docker" -> Delivered(DockerData(v))
    [] c = "K8s" -> Where(KubeBinary(v), K8sData(v))
    [] c = "PVE" -> Delivered(PVEData(v))
    [] c = "CVE" -> Delivered(CVEData(v))
    [] c = "CVELookup" -> Delivered(CheckCVE(v))
    [] c = "Firewall" -> Delivered(FirewallData(v))
    [] c = "Cron" -> Delivered(CronData(v))
    [] c = "Hardening" -> Delivered(HardeningData(v))
    [] c = "KernelSec" -> Delivered(KernelSecurityData(v))
    [] c = "Systemd" -> Where(Exists(v, "systemd"), SystemdData(v))
    [] c = "Hardware" -> Delivered(HardwareData(v))
    [] c = "Kdump" -> Where(Maintained(v, Exists(v, "kdump.service")), KdumpData(v))
    [] c = "Tuned" -> Where(Exists(v, "tuned"), TunedData(v))
    [] c = "Kernel" -> Where(Maintained(v, TRUE), KernelPatchData(v))
    [] c = "Ksplice" -> Where(Maintained(v, Exists(v, "ksplice")), KspliceData(v))
    [] c = "ServiceRestart" -> Delivered(ServiceRestartData(v))
    [] c = "KernelRetention" -> Where(Maintained(v, TRUE), KernelRetentionData(v))
    [] c = "LivePatch" -> Where(Maintained(v, TRUE), LivePatchData(v))
    [] c = "Transactional" ->
         Where(Maintained(v, Exists(v, "transactional-update")), TransactionalData(v))
    [] OTHER -> SystemResultOf(c, v)

\* dsd cve, which asks no check.
LookupInsights(r) ==
  CASE LookupVerdict(r) = "unknown" -> {Unread("CVELookup")}
    [] LookupVerdict(r) = "OK" -> {}
    [] OTHER -> {Found(LookupVerdict(r), "CVELookup")}

\* Without policy, on metal.
SettingOf(v) ==
  [user |-> v.user, env |-> "bare", policy |-> [f \in {} |-> 0],
   container |-> IF MemoryLimited(v) THEN "limited" ELSE IF InContainer(v) THEN "yes" ELSE "no"]
Judgement(c, r, v) ==
  IF c = "CVELookup" THEN LookupInsights(r.data)
  ELSE ApplyThresholds([n \in {c} |-> r], SettingOf(v))

Init ==
  /\ collector \in Collectors
  /\ host \in HostsOf[collector]
  /\ view = View(host, "root", NothingLost)
  /\ result = NotCollected
  /\ insights = {}
  /\ phase = "idle"

\* The run of one collector.
Collect ==
  /\ phase = "idle"
  /\ \E user \in {"root", "other"}, lost \in LossesOf[collector] :
       view' = View(host, user, lost)
  /\ result' = ResultOf(collector, view')
  /\ phase' = "collected"
  /\ UNCHANGED <<collector, host, insights>>

\* ApplyThresholds on what it returned.
Judge ==
  /\ phase = "collected"
  /\ insights' = Judgement(collector, result, view)
  /\ phase' = "judged"
  /\ UNCHANGED <<collector, host, view, result>>

Next == Collect \/ Judge
Spec == Init /\ [][Next]_vars

-------------------------------------------------------------------------------
(* Properties *)

Rank(level) == CASE level = "OK" -> 0 [] level = "INFO" -> 1 [] level = "WARN" -> 2 [] level = "CRIT" -> 3
Problems(found) == {i \in found : i.sight = "seen" /\ i.level \in {"WARN", "CRIT"}}

\* What is wrong with the host.
Truth ==
  LET everything == View(host, "root", NothingLost)
  IN Judgement(collector, ResultOf(collector, everything), everything)

Lost == DOMAIN view.lost

\* Losses the collector does not tell from an answer, known to hide a problem; dnf
\* updateinfo does with dnf advisory, for a feed or snapshot then answers.
Silent(c) ==
  CASE c = "Auth" -> {"journalctl _COMM=sshd"}
    [] c = "Bonding" -> {"/proc/net/bonding"}
    [] c = "CPULoad" -> {"cpu/online", "cpu/present"}
    [] c = "CVE" -> {"dnf updateinfo info", "tdnf updateinfo list"}
    [] c = "CVELookup" -> {"Red Hat API", "dnf updateinfo info --cve", "dpkg-query",
          "kev catalog", "oval feed", "os-release", "rpm -qa", "snapshot"}
    [] c = "Ceph" -> {"ceph health", "ceph osd stat"}
    [] c = "Clock" -> {"adjtimex"}
    [] c = "Cron" -> {"/var/log/cron", "/var/log/cron.log", "/var/log/syslog",
          "anacron daily", "anacron monthly", "journalctl -u cron",
          "systemctl is-active cron"}
    [] c = "DRBD" -> {"/proc/drbd"}
    [] c = "Disk" -> {"/proc/partitions", "/sys/class/block", "smartctl -A", "smartctl -H"}
    [] c = "Docker" -> {"/containers/ID/json", "/events", "/images/NAME/json", "/info",
          "/networks", "/sys/class/net", "/var/lib/docker/containers", "docker --version",
          "docker-compose", "firewalld.conf", "ip_forward", "journalctl -u docker",
          "resolv.conf", "socket", "systemctl is-active firewalld"}
    [] c = "Drives" -> {"/sys/class/nvme", "smartctl --scan-open"}
    [] c = "FDLimits" -> {"limits", "other fd", "own fd"}
    [] c = "Firewall" -> {"/proc/net/tcp", "iptables -nvL INPUT", "nft list ruleset"}
    [] c = "Fstab" -> {"/dev/disk/by-partuuid", "/dev/disk/by-uuid", "/etc/fstab"}
    [] c = "HBA" -> {"/sys/class/fc_host"}
    [] c = "Hardening" -> {"/dev/shm", "/etc/passwd", "/proc/net/tcp",
          "/sys/fs/selinux/enforce", "/tmp", "SUSEConnect --status", "audit.log",
          "auditctl -l", "crontabs", "crypto-policies/config", "firewall-cmd --state",
          "iptables -L", "journalctl -g pam_unix", "journalctl _COMM=sshd", "ls -dZ",
          "matchpathcon", "nft list ruleset", "semanage port", "sudoers", "sudoers.d",
          "ufw status", "update-crypto-policies --show"}
    [] c = "Hardware" -> {"/sys/devices/system/edac/mc", "smartctl --scan-open",
          "smartctl -a"}
    [] c = "K8s" -> {"*.crt", "/etc/kubernetes/pki", "conflist", "get nodes", "get pods",
          "ip_forward", "journalctl -u kubelet", "k3s/server/tls", "systemctl is-active"}
    [] c = "Kernel" -> {"osrelease", "rpm -q --last", "zypper needs-rebooting"}
    [] c = "KernelRetention" -> {"dnf.conf", "statfs /boot", "zypp.conf"}
    [] c = "KernelSec" -> {"/etc/selinux/config", "apparmor enabled", "audit.log"}
    [] c = "LVM" -> {"/proc/mounts"}
    [] c = "LivePatch" -> {"/sys/kernel/livepatch", "livepatch transition"}
    [] c = "Logs" -> {"/proc/uptime", "/var/log/syslog", "journalctl -p err", "journald.conf",
          "statfs /var/log"}
    [] c = "Memory" -> {"/sys/devices/system/edac/mc", "/sys/devices/system/memory",
          "memory.max", "memory/state",
          "overcommit_memory"}
    [] c = "Multipath" -> {"/sys/block"}
    [] c = "Network" -> {"/proc/net/route", "/proc/net/wireless", "/proc/uptime", "device",
          "iwconfig", "nf_conntrack_count", "nf_conntrack_max", "ping", "speed"}
    [] c = "OOM" -> {"dmesg --time-format", "journalctl --grep"}
    [] c = "PVE" -> {"pvesh subscription", "pvesh vzdump", "vzdump archives"}
    [] c = "Packages" -> {"/boot", "SUSEConnect", "dnf", "readelf", "zypper", "zypper search"}
    [] c = "Processes" -> {"/proc/PID/stat"}
    [] c = "RAID" -> {"/proc/mdstat"}
    [] c = "RootFS" -> {"/etc/fstab"}
    [] c = "ServiceRestart" -> {"other maps", "own maps"}
    [] c = "Sysctl" -> {"/proc/loadavg", "comm", "max_map_count", "max_user_watches",
          "pid_max", "rmem_max", "somaxconn", "swappiness", "tcp_tw_reuse"}
    [] c = "Systemd" -> {"systemctl is-system-running", "systemctl list-units --type=service",
          "systemctl show NeedDaemonReload", "systemd-analyze blame", "systemd-analyze time",
          "sysupdate.d"}
    [] c = "iSCSI" -> {"iscsiadm -m session"}
    [] OTHER -> {}

\* checks_never_silent_test.go:18 "could not check" must never render as nothing
\* found: a problem of the host that a run does not report, at its level, is one
\* whose check says that it could not see everything.
FailureNeverClears ==
  phase = "judged" /\ Lost \cap Silent(collector) = {} =>
    \A p \in Problems(Truth) : \E i \in insights :
      i.sight # "seen" \/ (i.check = p.check /\ Rank(i.level) >= Rank(p.level))

\* Losses that are taken for what the source would say of a faulty host; sshd -T
\* is with every configuration file, for sshd's defaults are then judged, and zypper lp
\* with a feed, which then speaks in its place.
Accusing(c) ==
  CASE c = "Auth" -> {"journalctl _COMM=sshd", "sshd -T"}
    [] c = "CPULoad" -> {"/proc/cmdline", "/proc/self/stat", "/proc/stat", "smt/control"}
    [] c = "CVELookup" -> {"oval feed", "zypper lp"}
    [] c = "Ceph" -> {"ceph health"}
    [] c = "Clock" -> {"/etc/adjtime", "adjtimex"}
    [] c = "Cron" -> {"/var/log/cron.log", "systemctl is-active cron"}
    [] c = "Disk" -> {"os-release"}
    [] c = "Docker" -> {"/info", "daemon.json", "firewall-cmd", "socket"}
    [] c = "Firewall" -> {"DMI", "systemctl is-active pve-firewall"}
    [] c = "Hardening" -> {"/proc fds", "aide.db", "apparmor profiles", "audit.log",
          "firewall-cmd --list-ports", "firewall-cmd --list-services",
          "journalctl _COMM=sshd", "nft list ruleset", "os-release",
          "semanage fcontext", "sshd -T", "ufw status"}
    [] c = "Hardware" -> {"smartctl -a"}
    [] c = "IO" -> {"queue/rotational"}
    [] c = "K8s" -> {"/opt/cni/bin", "iptables -L", "k3s/data/current/bin", "nft list tables",
          "systemctl is-active"}
    [] c = "Kdump" -> {"kexec_crash_loaded", "kexec_crash_size"}
    [] c = "Kernel" -> {"rpm -q --last", "zypper needs-rebooting"}
    [] c = "KernelSec" -> {"audit.log", "dmesg --since", "rpm -q policy"}
    [] c = "Logs" -> {"journald.conf", "systemd-detect-virt"}
    [] c = "Memory" -> {"auto_online_blocks", "memory.max"}
    [] c = "Network" -> {"/proc/net/route", "net interfaces", "ping"}
    [] c = "OOM" -> {"dmesg --time-format"}
    [] c = "PVE" -> {"pvesh subscription", "pvesh vzdump", "vzdump archives"}
    [] c = "Packages" -> {"/etc/apt/sources", "dnf", "rpm --verify", "rpm -q rpm", "zypper",
          "zypper repos"}
    [] c = "Processes" -> {"other exe", "own exe"}
    [] c = "RootFS" -> {"os-release"}
    [] c = "Swap" -> {"/sys/block"}
    [] c = "Systemd" -> {"systemctl show TriggeredBy"}
    [] OTHER -> {}

\* A run never reports as seen a problem, or a level, the host does not have.
FailureNeverAccuses ==
  phase = "judged" /\ Lost \cap Accusing(collector) = {} =>
    \A i \in Problems(insights) : \E p \in Problems(Truth) :
      p.check = i.check /\ Rank(p.level) >= Rank(i.level)

\* docs/CHECKS.md:162 "SMART self-assessment FAIL is CRIT": where root could read
\* everything, a drive that fails its own assessment is reported as critical.
FailedAssessmentIsCritical ==
  /\ phase = "judged" /\ collector = "Drives" /\ view.user = "root" /\ Lost = {}
  /\ \E drive \in Says(view, "smartctl --scan-open") :
       drive.assessment = "failed" /\ "openError" \notin drive.flags
  => Found("CRIT", "Drives") \in insights

===============================================================================
