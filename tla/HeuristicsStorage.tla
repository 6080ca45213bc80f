--------------------------- MODULE HeuristicsStorage ---------------------------
(***************************************************************************)
(* The checks of heuristics_storage.go: drives, volumes, arrays, pools,    *)
(* file systems and the paths to them.                                     *)
(***************************************************************************)
EXTENDS Insights

-------------------------------------------------------------------------------
(* Drives *)

\* TempPlausible with TempCeilNVMe
Plausible(celsius) == celsius \in -40..125

\* -273 is what a device without a sensor reports.
NoSensor(celsius) == celsius <= -273

NVMeCounters == {"spare", "threshold", "used", "warning", "media", "unsafe", "hours", "cycles"}

\* A log that parses may still be impossible (nvmeSmartPlausible) ...
NVMePlausible(d) ==
  /\ NoSensor(d.temp) \/ Plausible(d.temp)
  /\ d.spare \in 0..100 /\ d.threshold \in 0..100 /\ d.used \in 0..1000
  /\ d.warning \in 0..255 /\ d.hours \in 0..1000000
  /\ \A f \in {"media", "unsafe", "cycles"} : d[f] \in 0..1000000000

\* ... or empty (NVMeNoRealData).
NVMeNoRealData(d) == NoSensor(d.temp) /\ \A f \in NVMeCounters : d[f] = 0

NVMeScores(d) ==
  When(d.warning > 0 \/ d.media > 0, Found("CRIT", "Drives"))
  \cup (IF d.threshold > 0 /\ d.spare <= d.threshold THEN {Found("CRIT", "Drives")}
        ELSE When(d.spare > 0 /\ d.spare < 20, Found("WARN", "Drives")))
  \cup When(d.used >= 90 \/ d.temp >= 70 \/ d.unsafe > 100, Found("WARN", "Drives"))
  \cup When(d.hours > 35000, Found("INFO", "Drives"))

NVMe(d) ==
  IF "smartUnread" \in d.flags THEN NVMeScores(d) \cup {Unread("Drives")}
  ELSE IF ~NVMePlausible(d) THEN {UnreadAt("WARN", "Drives")}
  ELSE IF NVMeNoRealData(d) THEN {Unread("Drives")}
  ELSE NVMeScores(d) \cup When("dangerousFieldsUnread" \in d.flags, Unread("Drives"))

\* sataSmartPlausible
SATAPlausible(d) ==
  /\ Plausible(d.temp)
  /\ d.hours \in 0..1000000
  /\ \A f \in {"reallocated", "pending", "uncorrectable"} : d[f] \in 0..100000000

SATA(d) ==
  IF "smartUnread" \in d.flags THEN {Unread("Drives")}
  ELSE IF ~SATAPlausible(d) THEN {UnreadAt("WARN", "Drives")}
  ELSE When("smartFailed" \in d.flags \/ d.uncorrectable > 0, Found("CRIT", "Drives"))
       \cup When(d.reallocated > 0 \/ d.pending > 0 \/ d.temp >= 55, Found("WARN", "Drives"))
       \cup When(d.hours > 43800, Found("INFO", "Drives"))

CheckNVMe(n) ==
  IF "drivesListUnreadable" \in n.flags THEN {Unread("Drives")}
  ELSE (UNION {NVMe(d) : d \in n.nvme}) \cup UNION {SATA(d) : d \in n.sata}

-------------------------------------------------------------------------------
(* ZFS, LVM, DRBD, RAID *)

\* The counters persist until they are cleared, repaired errors included.
VdevErrors(pool) ==
  IF "vdevErrors" \notin pool.flags THEN {}
  ELSE {Found(IF pool.state \notin {"", "ONLINE"} \/ "scrubErrors" \in pool.flags
              THEN "CRIT" ELSE "WARN", "ZFS")}

\* scrub: days since the last one, -1 for never.
ZFSScrub(pool) ==
  IF pool.scrub < 0 THEN {Found("WARN", "ZFS")}
  ELSE When(pool.scrub > 30, Found("INFO", "ZFS"))

\* checkZFSPool; what zpool status did not say matters only where zpool list says
\* that the pool is online.
ZFSPool(pool) ==
  ByState("ZFS", pool.state,
          {"DEGRADED", "FAULTED", "SUSPENDED", "REMOVED", "UNAVAIL", "OFFLINE"},
          {}, {}, {"ONLINE"})
  \cup LevelPct("ZFS", pool.used, 80, 90)
  \cup (IF pool.frag >= 70 THEN {Found("WARN", "ZFS")}
        ELSE When(pool.frag >= 50, Found("INFO", "ZFS")))
  \cup VdevErrors(pool)
  \cup When("scrubErrors" \in pool.flags, Found("CRIT", "ZFS"))
  \cup (IF "statusReadFailed" \in pool.flags
        THEN When(pool.state \in {"", "ONLINE"}, Unread("ZFS")) ELSE ZFSScrub(pool))

CheckZFS(z) ==
  When("listReadFailed" \in z.flags, Unread("ZFS")) \cup UNION {ZFSPool(p) : p \in z.pools}

\* A group that backs a thin pool, and any group of a default installation, is
\* fully allocated by design.
VolumeGroup(vg, thinPools) ==
  IF "mounted" \notin vg.flags THEN {Found("INFO", "LVM")}
  ELSE When(vg.full >= 90 /\ \A pool \in thinPools : pool.vg # vg.name, Found("INFO", "LVM"))
       \cup When("missingPVs" \in vg.flags, Found("CRIT", "LVM"))

ThinPool(pool) == LevelPct("LVM", pool.data, 80, 90) \cup LevelPct("LVM", pool.meta, 50, 75)

\* checkLVMRaid: raid is the state of each mirrored volume.
LVMRaid(l) ==
  When("degraded" \in l.raid, Found("CRIT", "LVM"))
  \cup When("resyncing" \in l.raid, Found("INFO", "LVM"))
  \cup When("raidReadFailed" \in l.flags /\ l.groups # {}, Unread("LVM"))
  \cup When(l.flags \cap {"pvReadFailed", "vgReadFailed"} # {}, Unread("LVM"))
  \cup When("lvReadFailed" \in l.flags,
            UnreadAt(IF l.groups # {} THEN "WARN" ELSE "INFO", "LVM"))

\* snapshots: how full each is.
CheckLVM(l) ==
  IF "presenceReadFailed" \in l.flags THEN {Unread("LVM")}
  ELSE (UNION {ThinPool(p) : p \in l.thinPools})
       \cup (UNION {VolumeGroup(vg, l.thinPools) : vg \in l.groups})
       \cup (UNION {LevelPct("LVM", full, 80, 95) : full \in l.snapshots})
       \cup LVMRaid(l)

\* checkDRBDResource: connection and local disk of a resource.
DRBDResource(r) ==
  ByState("DRBD", r.connection, {"SplitBrain", "StandAlone"},
          {"WFConnection", "Connecting", "Disconnecting", "Unconnected", "Timeout",
           "BrokenPipe", "NetworkFailure", "ProtocolError", "TearDown"},
          {"SyncSource", "SyncTarget"},
          {"Connected", "VerifyS", "VerifyT", "Ahead", "Behind", "PausedSync"})
  \cup ByState("DRBD", r.disk,
          {"Failed", "Detached"}
            \cup (IF r.connection \in {"SyncSource", "SyncTarget"} THEN {} ELSE {"Inconsistent"}),
          {"Outdated", "Diskless", "DUnknown"}, {},
          {"UpToDate", "Consistent", "Attaching", "Negotiating", "Inconsistent"})

\* What was parsed before the read broke off is scored all the same.
CheckDRBD(d) ==
  (UNION {DRBDResource(r) : r \in d.resources}) \cup When("unverified" \in d.flags, Unread("DRBD"))

\* arrays: the state of each.
CheckRAID(r) ==
  When("readFailed" \in r.flags, Unread("RAID"))
  \cup UNION {ByState("RAID", a.state, {"degraded", "failed"}, {"recovering"}, {}, {"active"}) :
                a \in r.arrays}

-------------------------------------------------------------------------------
(* File systems *)

\* isImmutableInfraMount, isWritableOnDiskFS and IsInherentlyReadOnlyFS
InfraMounts == {"/", "/sysroot", "/usr", "/boot", "/boot/efi", "/efi"}
WritableTypes == {"ext2", "ext3", "ext4", "xfs", "btrfs", "f2fs", "jfs", "reiserfs"}
ImageTypes == {"iso9660", "squashfs", "erofs", "cramfs"}

\* A read-only mount stands for an I/O error unless the system is built that way
\* or the device is mounted read-write elsewhere.
ReadOnlyRemount(fs, disk) ==
  /\ "readOnly" \in fs.flags
  /\ fs.type \in WritableTypes
  /\ ~("immutableRoot" \in disk.flags /\ fs.mount \in InfraMounts)
  /\ \A other \in disk.filesystems :
       other.device = fs.device => "readOnly" \in other.flags \/ other.type \notin WritableTypes

\* checkDiskGrowth: the device has at least 1 GB and a tenth more than is used.
DeviceGrown(fs) ==
  /\ fs.device_gb > 0 /\ fs.total_gb > 0
  /\ fs.type \in WritableTypes
  /\ fs.device_gb - fs.total_gb >= 1
  /\ 10 * (fs.device_gb - fs.total_gb) >= fs.device_gb

FileSystem(fs, disk, t) ==
  (IF fs.type \in ImageTypes THEN {}
   ELSE LevelPct("Disk", fs.used, t.diskWarn, t.diskCrit)
        \cup LevelPct("Disk", fs.inodes, t.diskWarn, t.diskCrit))
  \cup When(ReadOnlyRemount(fs, disk) \/ DeviceGrown(fs), Found("WARN", "Disk"))

\* checkBtrfsVolume: the first that applies.
BtrfsVolume(v) ==
  IF "showUnread" \in v.flags THEN {Unread("Disk")}
  ELSE IF "missingDevs" \in v.flags THEN {Found("CRIT", "Disk")}
  ELSE IF v.flags \cap {"devReadUnverified", "statsUnread"} # {} THEN {Unread("Disk")}
  ELSE IF "errors" \notin v.flags THEN {}
  ELSE {Found(IF "ioErrors" \in v.flags THEN "CRIT" ELSE "WARN", "Disk")}

\* A drive whose SMART data could not be read is left to the check of the drives.
DiskDrive(d) ==
  IF "smartUnreadable" \in d.flags THEN {}
  ELSE IF "unhealthy" \in d.flags THEN {Found("CRIT", "Disk")}
  ELSE When(d.flags \cap {"worn", "mediaErrors"} # {}, Found("WARN", "Disk"))

\* checkDiskExtras, without SteamOS; ZFS pools are left to the check of ZFS.
DiskExtras(disk) ==
  When(disk.flags \cap {"drivesListUnreadable", "zfsListReadFailed"} # {}, Unread("Disk"))
  \cup When("unreachableMount" \in disk.flags, UnreadAt("WARN", "Disk"))
  \cup (UNION {DiskDrive(d) : d \in disk.drives})
  \cup UNION {BtrfsVolume(v) : v \in disk.volumes}

CheckDisk(disk, t) ==
  (UNION {FileSystem(fs, disk, t) : fs \in disk.filesystems}) \cup DiskExtras(disk)

-------------------------------------------------------------------------------
(* Paths to storage *)

\* A port: its state and two sets of counters.
HBAPort(p) ==
  (IF p.state = "unread" THEN {UnreadAt("WARN", "HBA")}
   ELSE When(p.state \notin {"online", "linkup"}, Found("CRIT", "HBA")))
  \cup (IF p.failures > 10 \/ p.lossOfSync > 100 THEN {Found("WARN", "HBA")}
        ELSE When("countersUnreadable" \in p.flags, Unread("HBA")))

CheckHBA(hba) == UNION {HBAPort(p) : p \in hba.ports}

MultipathDevice(d) ==
  IF d.failed = 0 THEN {} ELSE {Found(IF d.active = 0 THEN "CRIT" ELSE "WARN", "Multipath")}

CheckMultipath(m) ==
  IF "pathsUnreadable" \in m.flags THEN {UnreadAt("WARN", "Multipath")}
  ELSE UNION {MultipathDevice(d) : d \in m.devices}

\* A cluster that does not answer is an outage only where one is configured and the
\* run was allowed to ask.
CheckCeph(c) ==
  IF "unavailable" \in c.flags
  THEN IF "cephNeedsRoot" \in c.flags THEN {Unread("Ceph")}
       ELSE When("configured" \in c.flags, Found("CRIT", "Ceph"))
  ELSE IF c.state = "HEALTH_ERR" THEN {Found("CRIT", "Ceph")}
  ELSE IF c.state = "HEALTH_UNKNOWN" THEN {UnreadAt("WARN", "Ceph")}
  ELSE When(c.state = "HEALTH_WARN" \/ "osdsDown" \in c.flags, Found("WARN", "Ceph"))

CheckISCSI(i) ==
  IF i.flags \cap {"sessionsNeedRoot", "sessionsParseFailed"} # {} THEN {Unread("iSCSI")}
  ELSE When("sessionsFailed" \in i.flags, Found("CRIT", "iSCSI"))

===============================================================================
