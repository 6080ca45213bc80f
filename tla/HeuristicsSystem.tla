---------------------------- MODULE HeuristicsSystem ----------------------------
(***************************************************************************)
(* The other checks of heuristics_system.go: file descriptors, kernel      *)
(* settings, mandatory access control, endpoints, kernel memory events,    *)
(* pressure and sessions; and those of heuristics_packages.go,             *)
(* heuristics_maintenance.go, heuristics_cron.go, heuristics_postboot.go,  *)
(* heuristics_fstab.go and heuristics_rootfs.go: what keeps a host updated *)
(* and bootable.                                                           *)
(***************************************************************************)
EXTENDS Insights

\* hot: how much of its own limit each of the five busiest processes uses.
CheckFD(fd, t) ==
  LevelPct("FDLimits", fd.used, t.fdWarn, t.fdCrit)
  \cup When((\E used \in fd.hot : used >= t.fdProcWarn) \/ "deletedOpen" \in fd.flags,
            Found("WARN", "FDLimits"))

-------------------------------------------------------------------------------
(* Kernel settings *)

\* vm.swappiness above which a workload suffers; elsewhere only a host that is
\* swapping does.
Swappy(sys, swapping) ==
  IF sys.workload \in {"k8s", "database"} THEN sys.swappiness > 10
  ELSE IF sys.workload = "elasticsearch" THEN sys.swappiness > 1
  ELSE sys.workload = "default" /\ sys.swappiness > 30 /\ swapping

\* Fewer inotify watches than the workload needs; 0 is not known.
FewWatches(sys) ==
  /\ sys.watches > 0
  /\ \/ sys.workload = "k8s" /\ sys.watches < 524288
     \/ sys.workload = "container" /\ sys.watches < 131072

MapCount(sys) ==
  IF "mapCountLow" \notin sys.flags THEN {}
  ELSE IF sys.workload = "elasticsearch" THEN {Found("CRIT", "Sysctl")}
  ELSE When(sys.workload \in {"k8s", "container"}, Found("WARN", "Sysctl"))

\* Settings of a web server and of a database.
WorkloadTuning(sys) ==
  \/ sys.workload = "webserver" /\ ("twReuse" \notin sys.flags \/ "rmemLow" \in sys.flags)
  \/ sys.workload = "database" /\ "dirtyRatioHigh" \in sys.flags

CheckSysctl(sys, swapping) ==
  When("somaxconnLow" \in sys.flags, Found("WARN", "Sysctl"))
  \cup LevelPct("Sysctl", sys.pids, 80, 90)
  \cup MapCount(sys)
  \cup When(Swappy(sys, swapping) \/ FewWatches(sys) \/ WorkloadTuning(sys),
            Found("WARN", "Sysctl"))

-------------------------------------------------------------------------------
(* Mandatory access control *)

\* AppArmor is "profilesUnreadable" where its state is "unknown".
MACActive(mode) == mode \notin {"absent", "disabled", "unknown", "profilesUnreadable"}

\* The policy /etc/selinux/config names, which the next boot needs.
SELinuxPolicy(mac) ==
  IF mac.selinux = "absent" \/ mac.policy = "unset" THEN {}
  ELSE When(mac.policy \in {"invalid", "noDirectory", "noPackage"}, Found("CRIT", "KernelSec"))
       \cup When("relabelPending" \in mac.flags, Found("WARN", "KernelSec"))

\* checkAppArmorActive
AppArmor(mac) ==
  When("complain" \in mac.flags, Found("WARN", "KernelSec"))
  \cup (IF "denialsUnread" \in mac.flags THEN {Unread("KernelSec")}
        ELSE When("denials" \in mac.flags, Found("WARN", "KernelSec")))

\* checkSELinuxDenials: denials of the last hour.
SELinuxDenials(mac) ==
  IF "avcUnread" \in mac.flags
  THEN When(mac.selinux = "enforcing", Unread("KernelSec"))
  ELSE LevelPct("KernelSec", mac.avc, 1, 10)
       \cup When(mac.selinux = "enforcing" /\ mac.avc = 0, Found("INFO", "KernelSec"))

\* What is known before either module is looked into.
MACState(mac, host) ==
  SELinuxPolicy(mac)
  \cup When(mac.selinux = "permissive", Found("INFO", "KernelSec"))
  \cup When(mac.selinux = "unknown", Unread("KernelSec"))
  \cup When(mac.apparmor = "profilesUnreadable", NeedsRoot("KernelSec", host))

CheckKernelSecurity(mac, host) ==
  IF MACActive(mac.selinux) \/ MACActive(mac.apparmor)
  THEN MACState(mac, host)
       \cup (IF MACActive(mac.apparmor) THEN AppArmor(mac) ELSE {})
       \cup (IF mac.selinux = "absent" THEN {} ELSE SELinuxDenials(mac))
  ELSE IF MACState(mac, host) # {} THEN MACState(mac, host)
  ELSE {Found("INFO", "KernelSec")}

-------------------------------------------------------------------------------
(* Endpoints, memory events, pressure *)

\* endpoints: what probing each came to.
CheckServices(s) ==
  When("serverError" \in s.endpoints, Found("CRIT", "Services"))
  \cup When("unreachable" \in s.endpoints, Found("WARN", "Services"))

CheckOOM(oom, host) ==
  IF "kernelLogDenied" \in oom.flags THEN {NeedsRoot("OOM", host)}
  ELSE When("countUnverified" \in oom.flags, Unread("OOM"))
       \cup When("kills" \in oom.flags, Found("CRIT", "OOM"))

CheckMTE(mte) ==
  IF "faultsUnread" \in mte.flags THEN {Unread("MTE")}
  ELSE When("traceOff" \in mte.flags, Found("WARN", "MTE"))
       \cup When("faults" \in mte.flags, Found("CRIT", "MTE"))

\* Stall percentages over 60 seconds.
CheckPressure(p) ==
  When("metricsUnreadable" \in p.flags, Unread("Pressure"))
  \cup (IF p.memoryFull >= 10 THEN {Found("CRIT", "Pressure")}
        ELSE When(p.memorySome >= 20, Found("WARN", "Pressure")))
  \cup When(p.ioFull >= 5 \/ p.cpuSome >= 30, Found("WARN", "Pressure"))

\* used: percent of the pages configured.
CheckHugePages(h) ==
  IF "pagesUnread" \in h.flags THEN {Unread("HugePages")}
  ELSE When(/\ "configured" \in h.flags /\ "largeReserve" \in h.flags
            /\ h.used < 20, Found("WARN", "HugePages"))
       \cup When(\/ "configured" \in h.flags /\ h.used >= 100
                 \/ "transparentAlways" \in h.flags, Found("INFO", "HugePages"))

CheckLaunchd(l) ==
  IF "notListed" \in l.flags THEN {Unread("Launchd")}
  ELSE When("failedServices" \in l.flags, Found("WARN", "Launchd"))

\* Proxmox logs in as root over SSH by design.
CheckSessions(s) ==
  IF "notListed" \in s.flags THEN {Unread("Sessions")}
  ELSE IF s.total = 0 THEN {}
  ELSE When("rootSSH" \in s.flags, Found(IF "pve" \in s.flags THEN "INFO" ELSE "CRIT", "Sessions"))
       \cup When("longIdle" \in s.flags \/ s.total > 5, Found("WARN", "Sessions"))
       \cup When("severalAddresses" \in s.flags, Found("INFO", "Sessions"))

-------------------------------------------------------------------------------
(* Packages and vulnerabilities *)

\* checkPackageDBHealth
PackageDB(p) ==
  IF "dbUnchecked" \in p.flags THEN {Unread("Packages")}
  ELSE When("updatesBlocked" \in p.flags, Found("WARN", "Packages"))

\* securityUpdateInsight: apt and tdnf do not rate their updates, brew's are no
\* system packages.  worst: the rating of the worst pending update.
SecurityUpdates(p) ==
  IF p.manager = "brew" THEN {Found("INFO", "Packages")}
  ELSE {Found(IF p.worst = "critical" /\ p.manager \notin {"apt", "tdnf"} THEN "CRIT" ELSE "WARN",
              "Packages")}

\* checkPackageUpdates: a status that is not known has not verified anything.
PackageUpdates(p) ==
  IF p.status = "noSecurityRepo" THEN {Found("WARN", "Packages")}
  ELSE IF p.status # "" THEN {Unread("Packages")}
  ELSE (IF p.worst = "none" THEN {} ELSE SecurityUpdates(p))
       \cup When("esmUpdates" \in p.flags, Found("WARN", "Packages"))

\* checkPackageIntegrity, of dsd packages.  A verification that ran out of time is a
\* finding.
PackageIntegrity(p) ==
  When(p.flags \cap {"broken", "unmetDeps", "missingLibs"} # {}, Found("CRIT", "Packages"))
  \cup When(p.flags \cap {"verifyFailed", "verifyTimedOut"} # {}, Found("WARN", "Packages"))
  \cup When(p.flags \cap {"verifyLocked", "integrityUnread", "ldconfigUnread"} # {},
            Unread("Packages"))

CheckPackages(p) ==
  PackageDB(p) \cup PackageUpdates(p) \cup PackageIntegrity(p)
  \cup When("migrationRisks" \in p.flags, Found("WARN", "Packages"))

\* cveHealthSeverityInsights: a scan that failed is an answer only where nothing
\* severe was found before.  ratings: of the CVEs found.
CVESeverity(r) ==
  LET unrated == r.manager \in {"apt", "tdnf"}
  IN IF "exploited" \in r.flags THEN {Found("CRIT", "CVE")}
     ELSE IF "critical" \in r.ratings /\ ~unrated THEN {Found("CRIT", "CVE")}
     ELSE IF r.ratings \cap {"critical", "important"} # {} THEN {Found("WARN", "CVE")}
     ELSE When(r.manager = "" \/ "scanFailed" \in r.flags, Unread("CVE"))

CheckCVEHealth(r) ==
  CVESeverity(r)
  \cup When("kevUnread" \in r.flags /\ "exploited" \notin r.flags /\ r.ratings # {}, Unread("CVE"))

\* certs: days until each certificate expires, and flags.
Certificate(c) ==
  (IF c.days <= 7 THEN {Found("CRIT", "TLS")} ELSE When(c.days <= 30, Found("WARN", "TLS")))
  \cup When("notYetValid" \in c.flags, Found("CRIT", "TLS"))

CheckTLS(tls) ==
  When("certsUncheckable" \in tls.flags, UnreadAt("WARN", "TLS"))
  \cup UNION {Certificate(c) : c \in tls.certs}

-------------------------------------------------------------------------------
(* Maintenance *)

CheckKdump(d) ==
  IF "stateUnread" \in d.flags THEN {Unread("Kdump")}
  ELSE When(/\ "enabled" \in d.flags
            /\ d.flags \cap {"serviceFailed", "crashKernelMissing"} # {}, Found("WARN", "Kdump"))

CheckTuned(d) ==
  IF "stateUnread" \in d.flags THEN {Unread("Tuned")}
  ELSE When("active" \notin d.flags \/ "otherProfile" \in d.flags, Found("INFO", "Tuned"))

CheckKernelPatch(d) ==
  IF "patchUnverified" \in d.flags THEN {Unread("Kernel")}
  ELSE When("rebootNeeded" \in d.flags, Found("WARN", "Kernel"))

CheckKsplice(d) ==
  IF "patchUnverified" \in d.flags THEN {Unread("Ksplice")}
  ELSE When("pendingUpdates" \in d.flags, Found("WARN", "Ksplice"))

\* Stale processes found by a partial scan are reported with that reservation.
CheckServiceRestart(d, host) ==
  IF "stale" \in d.flags THEN {Found("WARN", "ServiceRestart")}
  ELSE When("partialScan" \in d.flags, NeedsRoot("ServiceRestart", host))

\* A small /boot that fills up goes before an unbounded retention.
CheckKernelRetention(d) ==
  IF "bootUnreadable" \in d.flags THEN {Unread("KernelRetention")}
  ELSE IF "smallBoot" \in d.flags /\ d.kernels >= 3 /\ d.used >= 80
  THEN {Found(IF d.used >= 90 THEN "CRIT" ELSE "WARN", "KernelRetention")}
  ELSE When("unbounded" \in d.flags /\ d.kernels >= 5, Found("WARN", "KernelRetention"))

\* patches: the state of each.
CheckLivePatch(d) ==
  When(d.patches \cap {"disabled", "transitioning"} # {}, Found("WARN", "LivePatch"))
  \cup When("unverified" \in d.patches, Unread("LivePatch"))

CheckTransactional(d) ==
  IF "snapshotUnverified" \in d.flags THEN {Unread("Transactional")}
  ELSE When("rebootPending" \in d.flags, Found("WARN", "Transactional"))

-------------------------------------------------------------------------------
(* Cron, the previous boot, mounts at boot *)

\* overdue: hours each anacron job is late, negative for one that never ran.
CronJobs(c) ==
  (IF "failures" \in c.flags THEN {Found("WARN", "Cron")}
   ELSE When("failuresUnread" \in c.flags, Unread("Cron")))
  \cup When("missingCommands" \in c.flags, Found("WARN", "Cron"))
  \cup When("noPath" \in c.flags, Found("INFO", "Cron"))
  \cup When("qualityUnread" \in c.flags, Unread("Cron"))
  \cup When(\E hours \in c.overdue : hours > 0, Found("WARN", "Cron"))
  \cup When(\E hours \in c.overdue : hours < 0, Found("INFO", "Cron"))

\* Nothing is asked about the jobs of a daemon that does not run.
CheckCron(c) ==
  IF "daemonDown" \notin c.flags THEN CronJobs(c)
  ELSE {Found(IF c.flags \cap {"anacron", "timers"} # {} THEN "INFO" ELSE "WARN", "Cron")}

\* postBootFindings; a log that goes back no further than this boot is silent on the
\* one before.
PreviousBoot(pb) ==
  LET findings ==
        When(pb.flags \cap {"panic", "oomKills", "uncleanShutdown"} # {}, Found("WARN", "PostBoot"))
        \cup When(/\ "journal" \in pb.flags
                  /\ pb.flags \cap {"oomUnread", "panicUnread"} # {}, Unread("PostBoot"))
  IN IF findings = {} THEN {Found("INFO", "PostBoot")} ELSE findings

\* state: "found", "absent", or why nothing could be read.
CheckPostBoot(pb, host) ==
  IF pb.state = "found" THEN PreviousBoot(pb)
  ELSE IF pb.state \in {"absent", "noPersistentJournal", "noWtmp"}
  THEN {Found("INFO", "PostBoot")}
  ELSE IF pb.state = "journalDenied" THEN {NeedsRoot("PostBoot", host)}
  ELSE {Unread("PostBoot")}

\* drifts: the mounts of fstab whose device is not there.
CheckFstab(info) ==
  When("boot" \in info.drifts, Found("CRIT", "Fstab"))
  \cup When("other" \in info.drifts, Found("WARN", "Fstab"))

CheckRootFS(info) == When("unexpectedReadOnly" \in info.flags, Found("CRIT", "RootFS"))

===============================================================================
