----------------------------- MODULE HostCollectors -----------------------------
(***************************************************************************)
(* Collectors, from what they read to the data the checks of analysis are  *)
(* given.  A view is a host as one run sees it:                            *)
(*   says    for a source, the things it has to say (those not named say   *)
(*           nothing out of the ordinary),                                 *)
(*   num     for a source, the number it gives,                            *)
(*   absent  the sources this host does not have,                          *)
(*   lost    for a source that could not be read, "denied" or "failed"; a  *)
(*           command that ran out of time has failed,                      *)
(*   user    "root" or "other".                                            *)
(* A source is a file, a directory, a command or a call to an API.         *)
(***************************************************************************)
EXTENDS Integers, FiniteSets

Got(v, source) ==
  IF source \in v.absent THEN "absent"
  ELSE IF source \in DOMAIN v.lost THEN v.lost[source] ELSE "ok"
Ok(v, source) == Got(v, source) = "ok"
Exists(v, source) == source \notin v.absent
Says(v, source) == IF Ok(v, source) /\ source \in DOMAIN v.says THEN v.says[source] ELSE {}
Num(v, source, otherwise) ==
  IF Ok(v, source) /\ source \in DOMAIN v.num THEN v.num[source] ELSE otherwise

\* detectContainerContextFromPaths: any of the marks a container leaves in its own
\* file system; a limit that cannot be read is none.
InContainer(v) == "container" \in Says(v, "environment")
MemoryLimited(v) == InContainer(v) /\ "limit" \in Says(v, "memory.max")

\* flag where condition holds.
Mark(condition, flag) == IF condition THEN {flag} ELSE {}

-------------------------------------------------------------------------------
(* Logs *)

\* parseKmsg: the events of the last hour, which cannot be told without the uptime.
KernelLog(v) ==
  Mark(~Ok(v, "/dev/kmsg"), "kmsgUnreadable")
  \cup IF Ok(v, "/proc/uptime") THEN Says(v, "/dev/kmsg") ELSE {}

\* detectCrashLoops: failed units that were restarted five times or more and went
\* down within the hour.
FailedLoops(v) ==
  IF Ok(v, "systemctl list-units")
  THEN IF Says(v, "systemctl list-units") = {} THEN {}
       ELSE IF Ok(v, "systemctl show")
       THEN Mark("looping" \in Says(v, "systemctl list-units"), "crashLoops")
       ELSE {"crashLoopsUnverified"}
  ELSE Mark(Exists(v, "systemd"), "crashLoopsUnverified")

\* detectVolatileJournal
VolatileJournal(v) ==
  /\ Exists(v, "systemd")
  /\ ~Exists(v, "/var/log/journal")
  /\ "persistent" \notin Says(v, "journald.conf")

\* detectNoTextFallback
JournaldOnly(v) == Says(v, "os-release") \cap {"nixos", "steamos"} # {}
NoTextFallback(v) ==
  \/ JournaldOnly(v)
  \/ ~Exists(v, "/var/log/syslog") /\ "syslogd" \notin Says(v, "systemctl is-active")

\* journalDiskUsage
JournalGB(v) == Num(v, "/run/log/journal", 0) + Num(v, "/var/log/journal", 0)

\* hasCorruptArchived
ArchivedJournals(v) ==
  Mark(Got(v, "/var/log/journal") = "denied", "corruptUnverified")
  \cup IF "archived" \notin Says(v, "/var/log/journal") THEN {}
       ELSE IF "FAIL" \in Says(v, "journalctl --verify") THEN {"journalCorrupt"}
       ELSE Mark(~Ok(v, "journalctl --verify"), "corruptUnverified")

\* checkJournalHealth
JournalHealth(v) ==
  IF ~Exists(v, "systemd") THEN {}
  ELSE LET set == Says(v, "journald.conf")
       IN ArchivedJournals(v)
          \cup Mark(VolatileJournal(v), "journalVolatile")
          \cup Mark("lowRateLimit" \in set, "rateLimited")
          \cup Mark(NoTextFallback(v), "noTextFallback")
          \cup Mark(JournalGB(v) >= 1 /\ "SystemMaxUse" \notin set, "journalUnbounded")
          \cup Mark(~VolatileJournal(v) /\ "SyncIntervalSec" \notin set, "syncRisk")

\* collectCrashFiles, countPstorePanics: nothing older than a month.
CrashFiles(v) ==
  Mark(\E d \in {"/var/crash", "/sys/fs/pstore"} : Got(v, d) = "denied", "crashFilesUnreadable")
  \cup Mark(Says(v, "/var/crash") \cup Says(v, "/sys/fs/pstore") # {}, "coreDumps")
  \cup Mark("panic" \in Says(v, "/sys/fs/pstore"), "kernelPanics")

\* shouldReadVarLogFallback: the journal says nothing and may not be the whole story.
JournalErrors(v) == Num(v, "journalctl -p err", 0)
SyslogOnly(v) ==
  /\ ~Exists(v, "/run/systemd/journal/socket")
  /\ Exists(v, "/var/log/syslog")
  /\ ~JournaldOnly(v)
FellBack(v) == JournalErrors(v) = 0 /\ (VolatileJournal(v) \/ SyslogOnly(v))

\* detectVirtualized
Virtualized(v) ==
  \/ "vm" \in Says(v, "systemd-detect-virt")
  \/ ~Ok(v, "systemd-detect-virt") /\ "vmware" \in Says(v, "DMI")

LogsData(v) ==
  [journal |-> JournalGB(v),
   diskUsed |-> IF Exists(v, "systemd") THEN Num(v, "statfs /var/log", 0) ELSE 0,
   errors |-> IF FellBack(v) THEN Num(v, "/var/log/syslog", 0) ELSE JournalErrors(v),
   flags |->
     Mark(v.user # "root", "needsRoot") \cup KernelLog(v) \cup FailedLoops(v)
     \cup JournalHealth(v) \cup CrashFiles(v)
     \cup Mark(\E d \in {"/run/log/journal", "/var/log/journal"} : Got(v, d) = "denied",
               "journalSizeUnreadable")
     \cup Mark(~Ok(v, "journalctl -p err") /\ ~FellBack(v), "errorsUnverified")
     \cup Mark(Virtualized(v), "virtualized")]

-------------------------------------------------------------------------------
(* Packages *)

\* detectPackageManager: the first that answers.
PackageManager(v) ==
  LET there == {m \in {"zypper", "dnf", "apt", "tdnf"} : Ok(v, m)}
  IN IF "zypper" \in there THEN "zypper" ELSE IF "dnf" \in there THEN "dnf"
     ELSE IF "apt" \in there THEN "apt" ELSE IF "tdnf" \in there THEN "tdnf" ELSE ""

\* pkgDBHealth: rpm is asked twice before its database counts as unreadable.
DBHealth(v, manager) ==
  IF manager = "apt"
  THEN IF ~Ok(v, "dpkg --audit") THEN {"dbUnchecked"}
       ELSE Mark("interrupted" \in Says(v, "dpkg --audit"), "updatesBlocked")
  ELSE IF ~Exists(v, "rpm -q rpm") THEN {"dbUnchecked"}
  ELSE Mark(~Ok(v, "rpm -q rpm"), "updatesBlocked")

\* The rating of the worst update a query lists.
Worst(ratings) ==
  IF "critical" \in ratings THEN "critical" ELSE IF "important" \in ratings THEN "important"
  ELSE IF ratings = {} THEN "none" ELSE "other"
Answer(status, worst) == [status |-> status, worst |-> worst]

\* collectDNF: the advisory command, or the older updateinfo.
DNFAnswer(v) ==
  IF ~Ok(v, "dnf repolist") THEN Answer("queryFailed", "none")
  ELSE IF "no repos" \in Says(v, "dnf repolist") THEN Answer("noSecurityRepo", "none")
  ELSE IF Ok(v, "dnf advisory") THEN Answer("", Worst(Says(v, "dnf advisory")))
  ELSE IF Ok(v, "dnf updateinfo") THEN Answer("", Worst(Says(v, "dnf updateinfo")))
  ELSE Answer("queryFailed", "none")

\* collectTDNF: text where the JSON did not parse.
TDNFAnswer(v) ==
  IF "repos" \notin Says(v, "tdnf repolist") THEN Answer("queryFailed", "none")
  ELSE LET listed == Says(v, "tdnf updateinfo")
       IN IF Ok(v, "tdnf updateinfo")
          THEN Answer("", IF listed = {} THEN "none" ELSE "important")
          ELSE Answer("queryFailed", "none")

\* aptHasSecurityRepo, collectAPT: a run that lists no security update has to say
\* that there are none.
APTAnswer(v) ==
  LET out == Says(v, "apt-get -s upgrade")
      kali == "kali" \in Says(v, "os-release")
  IN IF ~kali /\ "security" \notin Says(v, "/etc/apt/sources") THEN Answer("noSecurityRepo", "none")
     ELSE IF ~Ok(v, "apt-get -s upgrade") THEN Answer("queryFailed", "none")
     ELSE IF ~kali /\ out = {"others"} THEN Answer("queryFailed", "none")
     ELSE Answer("", Worst(out \ {"others"}))

\* collectZypper, zypperHasSecurityRepo: for want of a repository SUSEConnect will do,
\* whose "Not Registered" has the word that is looked for.
ZypperAnswer(v) ==
  IF ~Ok(v, "zypper list-patches") THEN Answer("queryFailed", "none")
  ELSE Answer(IF \/ "updates" \in Says(v, "zypper repos")
                 \/ Says(v, "SUSEConnect") \cap {"registered", "notRegistered"} # {}
              THEN "" ELSE "noSecurityRepo",
              Worst(Says(v, "zypper list-patches")))

Updates(v, manager) ==
  CASE manager = "dnf" -> DNFAnswer(v) [] manager = "tdnf" -> TDNFAnswer(v)
    [] manager = "apt" -> APTAnswer(v) [] manager = "zypper" -> ZypperAnswer(v)

\* markStaleMetadata: no pending updates counts only where the metadata is at most
\* a week old.
MarkedStale(v, answer) ==
  IF /\ answer.status = "" /\ answer.worst = "none"
     /\ ~Ok(v, "metadata") \/ "old" \in Says(v, "metadata")
  THEN Answer("stale", "none") ELSE answer

\* checkSUSEMigrationRisks: an unlocked grub, a registration that ended, a newer
\* kernel.  A list of locks that could not be read holds none.
MigrationRisks(v) ==
  \/ "grub" \in Says(v, "zypper search") /\ "grub locked" \notin Says(v, "zypper locks")
  \/ Says(v, "SUSEConnect") \cap {"notRegistered", "expired"} # {}
  \/ "newer kernel" \in Says(v, "/boot")

\* collectPackageIntegrity, with --deep; a command that ran and listed nothing found
\* nothing.
Verification(v, command) ==
  IF Ok(v, command) THEN Says(v, command) ELSE {"integrityUnread"}
Integrity(v, manager) ==
  (CASE manager = "dnf" ->
          Verification(v, "dnf check")
          \cup (IF Got(v, "rpm --verify") = "failed" THEN {"verifyTimedOut"}
                ELSE Verification(v, "rpm --verify"))
     [] manager = "apt" -> Verification(v, "dpkg --audit, deep") \cup Verification(v, "apt-get check")
     [] manager = "zypper" ->
          IF "locked" \in Says(v, "zypper verify") THEN {"verifyLocked"} ELSE Says(v, "zypper verify")
     [] OTHER -> {})
  \cup Mark(~Ok(v, "ldconfig -p"), "ldconfigUnread")
  \cup IF Ok(v, "ldconfig -p") THEN Says(v, "readelf") ELSE {}

PackagesData(v) ==
  LET manager == PackageManager(v)
      found == Updates(v, manager)
      answer == MarkedStale(v, found)
  IN IF manager = "" THEN [manager |-> "", status |-> "", worst |-> "none", flags |-> {}]
     ELSE [manager |-> manager, status |-> answer.status, worst |-> answer.worst,
           flags |-> DBHealth(v, manager)
             \cup Mark(manager = "apt" /\ "esm" \in Says(v, "pro security-status")
                       /\ found.status = "" /\ "kali" \notin Says(v, "os-release"), "esmUpdates")
             \cup Mark(manager = "zypper" /\ found.status # "queryFailed" /\ MigrationRisks(v),
                       "migrationRisks")
             \cup IF "deep" \in Says(v, "asked") THEN Integrity(v, manager) ELSE {}]

-------------------------------------------------------------------------------
(* Cron *)

\* A job j of a crontab: its command is "relative" or a path that is "there" or
\* "missing"; one written with a shorthand like @daily has too few fields to be looked
\* at.  "PATH" stands for the setting.

\* scanCrontabQualityChecked, parseCrontabFileChecked
Crontabs == {"/etc/cron.d", "crontabs"}
JobsOf(v, tab) == {j \in Says(v, tab) \ {[command |-> "PATH", shorthand |-> FALSE]} : ~j.shorthand}
SetsPath(v, tab) == [command |-> "PATH", shorthand |-> FALSE] \in Says(v, tab)
CrontabQuality(v) ==
  Mark(\E tab \in Crontabs : Got(v, tab) = "denied", "qualityUnread")
  \cup Mark(\E tab \in Crontabs : \E j \in JobsOf(v, tab) : j.command = "missing", "missingCommands")
  \cup Mark(\E tab \in Crontabs : ~SetsPath(v, tab) /\ \E j \in JobsOf(v, tab) : j.command = "relative",
            "noPath")

\* scanCronFailures: the journal, and the first of the logs that can be read.
CronLog(v) ==
  IF Ok(v, "/var/log/cron") THEN "/var/log/cron"
  ELSE IF Ok(v, "/var/log/cron.log") THEN "/var/log/cron.log" ELSE "/var/log/syslog"
CronFailures(v) ==
  IF ~Ok(v, "journalctl -u cron") /\ ~Ok(v, CronLog(v)) THEN {"failuresUnread"}
  ELSE Mark("failed" \in Says(v, "journalctl -u cron") \cup Says(v, CronLog(v)), "failures")

\* checkAnacronStaleness: hours since the last run of each period, and what it may be.
AnacronPeriods == {<<"anacron daily", 48>>, <<"anacron weekly", 216>>, <<"anacron monthly", 840>>}
Overdue(v) ==
  {LET hours == Num(v, p[1], 0) - p[2]
   IN IF ~Ok(v, p[1]) THEN -1 ELSE IF hours > 0 THEN hours ELSE 0 : p \in AnacronPeriods}

\* detectCronDaemon: a unit that is active, or a process of that name.
CronRuns(v) == "active" \in Says(v, "systemctl is-active cron") \/ "cron" \in Says(v, "/proc")

CronData(v) ==
  [overdue |-> IF Exists(v, "anacron") THEN Overdue(v) ELSE {},
   flags |-> CrontabQuality(v) \cup CronFailures(v)
     \cup Mark(Exists(v, "anacron"), "anacron")
     \cup Mark(~CronRuns(v), "daemonDown")
     \cup Mark(~CronRuns(v) /\ "timers" \in Says(v, "systemctl list-timers"), "timers")]

-------------------------------------------------------------------------------
(* Maintenance: none of it in a container, but tuned and restarts *)

\* maintenanceSkip
Maintained(v, available) == available /\ ~InContainer(v)

\* systemctl answers in words, whatever its exit code; no word is no answer.
KdumpData(v) ==
  LET enabled == Says(v, "systemctl is-enabled kdump")
      active == Says(v, "systemctl is-active kdump")
      armed == /\ "1" \in Says(v, "kexec_crash_loaded")
               /\ Num(v, "kexec_crash_size", 0) > 0
  IN [flags |-> Mark({} \in {enabled, active}, "stateUnread")
        \cup Mark(enabled \cap {"enabled", "static", "enabled-runtime"} # {}, "enabled")
        \cup Mark("failed" \in active, "serviceFailed")
        \cup Mark(~armed, "crashKernelMissing")]

TunedData(v) ==
  LET state == Says(v, "systemctl is-active tuned")
      profile == Says(v, "tuned-adm active")
      advised == Says(v, "tuned-adm recommend")
  IN [flags |-> (state \cap {"active"})
        \cup Mark(\/ state = {}
                  \/ /\ "active" \in state
                     /\ ~Ok(v, "tuned-adm active") \/ ~Ok(v, "tuned-adm recommend"),
                  "stateUnread")
        \cup Mark(profile # {} /\ advised # {} /\ profile # advised, "otherProfile")]

\* suseRebootSignal: "none" is an error that another source may make good.
SUSEReboot(v) ==
  IF ~Exists(v, "zypper needs-rebooting") \/ ~Ok(v, "zypper needs-rebooting") THEN {"none"}
  ELSE IF "locked" \in Says(v, "zypper needs-rebooting") THEN {"patchUnverified"}
  ELSE Mark("reboot" \in Says(v, "zypper needs-rebooting"), "rebootNeeded")

\* debianRebootMechanism
DebianReboot(v) ==
  Exists(v, "notify-reboot-required") \/ Exists(v, "/run/reboot-required")

\* The newest kernel of rpm is compared with the one that runs, where that is known.
KernelFlags(v) ==
  IF Says(v, "rpm -q --last") # {}
  THEN Mark("newer" \in Says(v, "rpm -q --last") /\ Ok(v, "osrelease"), "rebootNeeded")
  ELSE IF Exists(v, "rpm -q --last") /\ SUSEReboot(v) # {"none"} THEN SUSEReboot(v)
  ELSE IF DebianReboot(v) THEN Mark(Exists(v, "/run/reboot-required"), "rebootNeeded")
  ELSE Mark(Exists(v, "rpm -q --last") /\ ~Ok(v, "rpm -q --last"), "patchUnverified")
KernelPatchData(v) == [flags |-> KernelFlags(v)]

KspliceData(v) ==
  [flags |-> Mark(~Ok(v, "uptrack-upgrade -n"), "patchUnverified")
     \cup Mark("installing" \in Says(v, "uptrack-upgrade -n"), "pendingUpdates")]

\* Another user's maps are refused, or its processes not even listed, to all but root.
ServiceRestartData(v) ==
  LET maps == Says(v, "own maps") \cup IF v.user = "root" THEN Says(v, "other maps") ELSE {}
  IN [flags |-> Mark("deleted" \in maps, "stale") \cup Mark(v.user # "root", "partialScan")]

\* parseMultiversionKernels, parseInstallonlyLimit: what each manager's file keeps.
RetentionFile(v) ==
  IF Exists(v, "zypper needs-rebooting") THEN "zypp.conf"
  ELSE IF Exists(v, "dnf") THEN "dnf.conf" ELSE "dpkg"

KernelRetentionData(v) ==
  [kernels |-> IF RetentionFile(v) = "dpkg" /\ ~Exists(v, "dpkg") THEN 0 ELSE Num(v, "/boot", 0),
   used |-> Num(v, "statfs /boot", 0),
   flags |-> Mark(Got(v, "/boot") = "denied", "bootUnreadable")
     \cup Mark("small" \in Says(v, "statfs /boot"), "smallBoot")
     \cup Mark(RetentionFile(v) # "dpkg" /\ "all" \in Says(v, RetentionFile(v)), "unbounded")]

\* classifyLivePatchEnabled: a patch is the set of what its files say 1 to.
LivePatchData(v) ==
  LET loaded == Says(v, "/sys/kernel/livepatch")
  IN [patches |->
        {IF ~Ok(v, "livepatch enabled") THEN "unverified"
         ELSE IF "enabled" \in p THEN "enabled" ELSE "disabled" : p \in loaded}
        \cup Mark(Ok(v, "livepatch transition") /\ \E p \in loaded : "transition" \in p,
                  "transitioning")]

\* snapshotNumberFromPath: 0 for a path that names no snapshot.
TransactionalData(v) ==
  LET booted == Num(v, "findmnt", 0)
      next == Num(v, "btrfs get-default", 0)
  IN [flags |-> Mark(0 \in {booted, next}, "snapshotUnverified")
        \cup Mark(0 \notin {booted, next} /\ booted # next, "rebootPending")]

-------------------------------------------------------------------------------
(* Systemd *)

\* Failed units are "unit" and "zfsImport", or of a kind that the collector knows:
\* "cloudInit", "noise" of an install, "sysupdate", or the "sshd" of a connection.
NoiseUnits(v) ==
  {"noise", "sshd"} \cup Mark(InContainer(v), "cloudInit")
  \cup Mark(Says(v, "sysupdate.d") = {}, "sysupdate")

\* filterNonBenignSSHD: which connections' exit status, in the order of the list, is
\* neither a clean end nor one of the client's doing.
sshdMaxInspect == 20
FailedConnections(v) == "sshd" \in Says(v, "systemctl list-units --state=failed")
BrokenConnections(v) ==
  IF FailedConnections(v)
  THEN {n \in Says(v, "systemctl show ExecMainStatus") : n <= sshdMaxInspect} ELSE {}
SSHDUnverified(v) == FailedConnections(v) /\ ~Ok(v, "systemctl show ExecMainStatus")

FailedUnits(v) ==
  (Says(v, "systemctl list-units --state=failed") \ NoiseUnits(v))
  \cup Mark(BrokenConnections(v) # {}, "unit")

\* parseBlameSlowUnits: seconds of the services that a timer does not start by itself;
\* where that cannot be asked they are taken to be of the boot.
SlowUnits(v) ==
  {u.seconds : u \in {u \in Says(v, "systemd-analyze blame") :
     /\ u.seconds >= 5
     /\ u.kind # "device"
     /\ u.kind = "timed" => ~Ok(v, "systemctl show TriggeredBy")}}

\* collectNeedsDaemonReload asks of every service that is loaded, in one call.
NeedsReload(v) ==
  /\ Ok(v, "systemctl list-units --type=service")
  /\ "NeedDaemonReload" \in Says(v, "systemctl show NeedDaemonReload")

SystemdData(v) ==
  [failed |-> FailedUnits(v),
   slow |-> IF Ok(v, "systemd-analyze time") THEN SlowUnits(v) ELSE {},
   boot |-> Num(v, "systemd-analyze time", 0),
   flags |-> Mark(~Ok(v, "systemctl list-units --state=failed"), "failedUnitsUnknown")
     \cup Mark(SSHDUnverified(v), "sshdUnverified")
     \cup Mark(NeedsReload(v), "needsReload")
     \cup (Says(v, "systemctl is-system-running") \cap {"maintenance"})]

-------------------------------------------------------------------------------
(* Hardware: the drives as smartctl has them, and the ECC counters *)

\* A drive is what it would answer: its protocol, health, temperature, its used life
\* in percent (NVMe) or the normalized life left (ATA), and its counts of faults.
Wear(d) == IF d.type = "nvme" THEN d.life ELSE IF d.life \in 1..100 THEN 100 - d.life ELSE 0
DriveAnswer(d) ==
  [type |-> d.type, smart |-> d.health, temp |-> d.temp, wear |-> Wear(d), media |-> d.media,
   reallocated |-> d.reallocated, pending |-> d.pending, uncorrectable |-> d.uncorrectable]
DriveWithout(smart) ==
  [type |-> "", smart |-> smart, temp |-> 0, wear |-> 0, media |-> 0, reallocated |-> 0,
   pending |-> 0, uncorrectable |-> 0]

\* collectSMARTDrives: a scan that finds nothing is an error, and so is a drive that
\* answers nothing.
SMARTDrives(v) ==
  IF ~Exists(v, "smartctl") \/ ~Ok(v, "smartctl --scan-open") THEN {DriveWithout("noTool")}
  ELSE IF Says(v, "smartctl --scan-open") = {} THEN {DriveWithout("error")}
  ELSE {IF Ok(v, "smartctl -a") THEN DriveAnswer(d) ELSE DriveWithout("error") :
          d \in Says(v, "smartctl --scan-open")}

\* readEDACCounts
EDACCounts(v) ==
  IF ~Ok(v, "/sys/devices/system/edac/mc") \/ ~Exists(v, "ce_count") THEN {}
  ELSE IF ~Ok(v, "ce_count") \/ ~Ok(v, "ue_count") THEN {"edac", "edacUnreadable"}
  ELSE {"edac"} \cup Mark(Num(v, "ce_count", 0) > 0, "corrected")
       \cup Mark(Num(v, "ue_count", 0) > 0, "uncorrected")

HardwareData(v) == [drives |-> SMARTDrives(v), flags |-> EDACCounts(v)]

===============================================================================
