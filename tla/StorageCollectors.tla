---------------------------- MODULE StorageCollectors ----------------------------
(***************************************************************************)
(* Collectors of drives, volumes, arrays and file systems.  In            *)
(* /proc/mounts a mount is its file system as Disk reports it; its mount   *)
(* point is the source that statfs asks, and a lost one does not answer.   *)
(***************************************************************************)
EXTENDS HostCollectors, Sequences

Mounts(v) == Says(v, "/proc/mounts")

-------------------------------------------------------------------------------
(* Disk *)

skipFSTypes == {"tmpfs", "devtmpfs", "overlay", "squashfs"}
DiskTimeout == 5     \* seconds
statfsTimeout == 2

Statted(v) == {m \in Mounts(v) : m.type \notin skipFSTypes}
Unreachable(v) == {m \in Statted(v) : ~Ok(v, m.mount)}

\* One mount after the other is waited for.
DiskGivesUp(v) ==
  ~Ok(v, "/proc/mounts") \/ statfsTimeout * Cardinality(Unreachable(v)) >= DiskTimeout

\* enrichDeviceSizes
FileSystems(v) ==
  {[m EXCEPT !.device_gb = IF Ok(v, "/sys/class/block") THEN @ ELSE 0] :
     m \in Statted(v) \ Unreachable(v)}

\* collectPhysicalDrives, collectSMART.  An NVMe drive none of whose partitions is
\* mounted is taken for another system's and not asked; the attributes of a drive
\* are read, or not, after its health.
Asked(v, drive) ==
  /\ drive.kind # "virtual" /\ ~(drive.kind = "nvme" /\ ~drive.mounted)
  /\ ~InContainer(v)
DriveFlags(v, drive) ==
  IF ~Asked(v, drive) THEN {}
  ELSE IF ~Exists(v, "smartctl") \/ ~Ok(v, "smartctl -H") \/ drive.health = "none"
  THEN {"smartUnreadable"}
  ELSE Mark(drive.health = "failed", "unhealthy")
       \cup IF Ok(v, "smartctl -A") THEN drive.flags ELSE {}

\* zfsGate, collectZFSPools
ZFSFlags(v) ==
  IF ~Exists(v, "zpool") \/ \A m \in Mounts(v) : m.type # "zfs" THEN {}
  ELSE IF Ok(v, "zpool list") THEN Mark(Says(v, "zpool list") # {}, "zfsPools")
  ELSE {"zfsListReadFailed"}

\* applyBtrfsShow: a placeholder stands for a device that is gone; MISSING is also
\* what a user who may not open a device is told of it.
BtrfsDevices(v) ==
  LET shown == Says(v, "btrfs filesystem show")
      missing == "placeholder" \in shown \/ ("MISSING" \in shown /\ v.user = "root")
  IN IF missing THEN {"missingDevs"}
     ELSE Mark("MISSING" \in shown, "devReadUnverified")

\* applyBtrfsDevStats: counters speak for a volume that has its devices.
BtrfsStats(v) ==
  IF ~Ok(v, "btrfs device stats") THEN {"statsUnread"}
  ELSE IF BtrfsDevices(v) # {} THEN {} ELSE Says(v, "btrfs device stats")

\* collectBtrfsVolumes, of one volume.
BtrfsVolumes(v) ==
  IF \A fs \in FileSystems(v) : fs.type # "btrfs" THEN {}
  ELSE {[flags |-> IF Ok(v, "btrfs filesystem show") THEN BtrfsDevices(v) \cup BtrfsStats(v)
                   ELSE {"showUnread"}]}

\* rootImmutableByDesign
RootImmutable(v) ==
  \/ Exists(v, "/run/ostree-booted")
  \/ Exists(v, "transactional-update")
  \/ "steamos" \in Says(v, "os-release")

DiskData(v) ==
  [filesystems |-> FileSystems(v),
   volumes |-> BtrfsVolumes(v),
   drives |-> {[flags |-> DriveFlags(v, d)] : d \in Says(v, "/proc/partitions")},
   steamos |-> {},
   flags |-> ZFSFlags(v) \cup Mark(RootImmutable(v), "immutableRoot")
     \cup Mark(Unreachable(v) # {}, "unreachableMount")]

-------------------------------------------------------------------------------
(* RootFS and Fstab.  An entry of fstab names its device by the link it has   *)
(* in a directory of /dev/disk, or otherwise.                                 *)

writableRootFstypes ==
  {"ext2", "ext3", "ext4", "xfs", "btrfs", "f2fs", "jfs", "reiserfs", "nilfs2"}

\* fstabIntendsRootRW
RootMeantWritable(v) ==
  \E entry \in Says(v, "/etc/fstab") : entry.mount = "/" /\ "ro" \notin entry.options

\* rootROIsUnexpected
RootFSFound(v) ==
  /\ \E m \in Mounts(v) :
       m.mount = "/" /\ "readOnly" \in m.flags /\ m.type \in writableRootFstypes
  /\ RootMeantWritable(v)
  /\ ~RootImmutable(v)
RootFSData == [flags |-> {"unexpectedReadOnly"}]

\* parseFstabDrifts: a directory without a link tells nothing.
Drifted(v, entry) ==
  /\ entry.by \in {"/dev/disk/by-uuid", "/dev/disk/by-partuuid"}
  /\ entry.options \cap {"noauto", "nofail"} = {}
  /\ Says(v, entry.by) # {}
  /\ entry.link \notin Says(v, entry.by)
FstabData(v) ==
  [drifts |-> {IF entry.mount \in {"/", "/boot", "/boot/efi"} THEN "boot" ELSE "other" :
                 entry \in {e \in Says(v, "/etc/fstab") : Drifted(v, e)}}]
-------------------------------------------------------------------------------
(* Drives *)

NVMeFields ==
  {"temp", "spare", "threshold", "used", "warning", "media", "unsafe", "hours", "cycles"}
DangerousFields == {"warning", "media", "used"}

\* parseNVMeSmartLog: a log is the fields it has; one it does not have stays 0.
NVMeDevice(v, log) ==
  LET given == IF Ok(v, "nvme smart-log") THEN DOMAIN log ELSE {}
  IN [f \in NVMeFields \cup {"flags"} |->
        IF f = "flags"
        THEN Mark(given = {}, "smartUnread")
             \cup Mark(~(DangerousFields \subseteq given), "dangerousFieldsUnread")
        ELSE IF f \in given THEN log[f] ELSE 0]

\* smartctl tells in its exit code, too, what it found: a drive that fails its own
\* assessment, or has logged errors; runCmd keeps nothing of a command that does
\* not exit with 0.
SmartctlExitsZero(drive) == drive.assessment # "failed" /\ "errorLog" \notin drive.flags

\* collectSATADrives, applySATASmartJSON
SATADevice(v, drive) ==
  LET read == /\ "openError" \notin drive.flags
              /\ Ok(v, "smartctl -a") /\ SmartctlExitsZero(drive)
      Value(n) == IF read THEN n ELSE 0
  IN [temp |-> Value(drive.temp), hours |-> Value(drive.hours),
      reallocated |-> Value(drive.reallocated), pending |-> Value(drive.pending),
      uncorrectable |-> Value(drive.uncorrectable),
      flags |-> Mark(~read \/ drive.assessment = "none", "smartUnread")
        \cup Mark(read /\ drive.assessment = "failed", "smartFailed")]

DrivesData(v) ==
  [nvme |-> {NVMeDevice(v, log) : log \in Says(v, "/sys/class/nvme")},
   sata |-> {SATADevice(v, d) : d \in Says(v, "smartctl --scan-open")},
   flags |-> {}]
DrivesFound(v) == DrivesData(v).nvme # {} \/ DrivesData(v).sata # {}

-------------------------------------------------------------------------------
(* ZFS, LVM *)

\* mergeZpoolStatus: what the list does not say of a pool.
ZFSPoolRead(v, pool) ==
  IF Ok(v, "zpool status") THEN pool
  ELSE [state |-> pool.state, used |-> pool.used, frag |-> pool.frag, scrub |-> -1,
        flags |-> {"statusReadFailed"}]

ZFSData(v) ==
  [pools |-> {ZFSPoolRead(v, pool) : pool \in Says(v, "zpool list")},
   flags |-> Mark(~Ok(v, "zpool list"), "listReadFailed")]

\* mergeMountedLVs: groups of which a volume is mounted.
MountedGroups(v) == {m.device : m \in Mounts(v)}

\* parseVGs, mergeMissingPVs
VolumeGroups(v) ==
  {[name |-> vg.name, full |-> vg.full,
    flags |-> Mark(vg.name \in MountedGroups(v), "mounted")
              \cup Mark(vg.name \in Says(v, "pvs"), "missingPVs")] : vg \in Says(v, "vgs")}

\* parseLVs: thin pools, and snapshots, of which only the fill is kept.
OfKind(kind, volumes) == {volume.data : volume \in {w \in volumes : w.kind = kind}}

\* lvmPresenceCheck: lvs that runs and fails is there.
LVMData(v) ==
  IF ~Ok(v, "lvs --version")
  THEN [groups |-> {}, thinPools |-> {}, snapshots |-> {}, raid |-> {},
        flags |-> {"presenceReadFailed"}]
  ELSE [groups |-> VolumeGroups(v),
        thinPools |-> OfKind("thin", Says(v, "lvs")),
        snapshots |-> OfKind("snapshot", Says(v, "lvs")),
        raid |-> Says(v, "lvs raid"),
        flags |-> Mark(~Ok(v, "vgs"), "vgReadFailed") \cup Mark(~Ok(v, "pvs"), "pvReadFailed")
          \cup Mark(~Ok(v, "lvs"), "lvReadFailed")
          \cup Mark(~Ok(v, "lvs raid"), "raidReadFailed")]

-------------------------------------------------------------------------------
(* DRBD.  /proc/drbd has the resources of version 8, the number of the        *)
(* version, and of version 9 nothing else.                                    *)

\* applyDRBD9Connection: connections are a sequence.  One that synchronizes hides
\* one that is broken.
DRBD9Connection(connections) ==
  LET Syncs(c) == c.replication \in {"SyncSource", "SyncTarget"}
      Broken(c) == c.state # "Connected"
      syncing == SelectSeq(connections, Syncs)
      broken == SelectSeq(connections, Broken)
  IN IF syncing # <<>> THEN syncing[Len(syncing)].replication
     ELSE IF broken # <<>> THEN broken[1].state ELSE "Connected"

\* collectDRBD9
DRBD9Resources(v) ==
  {[connection |-> DRBD9Connection(r.connections), disk |-> r.disk] :
     r \in Says(v, "drbdsetup status")}

DRBDVersion9(v) == Says(v, "/proc/drbd") = {} /\ Num(v, "/proc/drbd", 8) = 9
DRBDData(v) ==
  [resources |-> IF DRBDVersion9(v) THEN DRBD9Resources(v) ELSE Says(v, "/proc/drbd"),
   flags |-> Mark(DRBDVersion9(v) /\ ~Ok(v, "drbdsetup status"), "unverified")]
DRBDFound(v) == DRBDData(v).resources # {} \/ DRBDData(v).flags # {}

-------------------------------------------------------------------------------
(* RAID, of the kernel and of a controller *)

\* parseMDStat: an array that is rebuilt is taken for no worse than that.
ArrayState(array) ==
  IF "rebuilding" \in array THEN "recovering"
  ELSE IF "missing" \in array THEN "degraded"
  ELSE IF "inactive" \in array THEN "failed" ELSE "active"
\* IsRAIDPresent: where mdstat cannot be read the collector, which would say so, is
\* not run.
RAIDPresent(v) == Says(v, "/proc/mdstat") # {}
RAIDData(v) ==
  [arrays |-> {[state |-> ArrayState(array)] : array \in Says(v, "/proc/mdstat")}, flags |-> {}]

\* hwRaidTool, parseStorcli: a controller that did not answer and has no drives is
\* left out.  That of HP has none left out, and no battery.
RaidTool(v) == IF Exists(v, "storcli") THEN "storcli" ELSE "ssacli"
Controllers(v) ==
  LET said == Says(v, RaidTool(v))
  IN IF RaidTool(v) = "ssacli" THEN {[members |-> c.members, flags |-> {}] : c \in said}
     ELSE {[members |-> c.members, flags |-> c.flags] :
             c \in {c \in said : c.success \/ c.members # {}}}

HWRaidData(v) ==
  [controllers |-> Controllers(v),
   flags |-> IF ~Ok(v, RaidTool(v))
             THEN {IF v.user = "root" THEN "outputUnreadable" ELSE "toolNeedsRoot"}
             ELSE Mark(Controllers(v) = {}, "outputUnreadable")]
HWRaidFound(v) == ~Ok(v, RaidTool(v)) \/ Says(v, RaidTool(v)) # {}

-------------------------------------------------------------------------------
(* Paths: Multipath, HBA, Ceph, iSCSI *)

\* IsMultipathPresent
MultipathPresent(v) ==
  /\ Exists(v, "multipathd")
  /\ Exists(v, "/run/multipathd.sock") \/ "mpath" \in Says(v, "/sys/block")

\* The daemon is asked, then the maps.
PathSource(v) ==
  IF Ok(v, "multipathd show paths") THEN "multipathd show paths" ELSE "multipath -l"
MultipathData(v) ==
  [devices |-> Says(v, PathSource(v)), flags |-> Mark(~Ok(v, PathSource(v)), "pathsUnreadable")]
MultipathFound(v) ==
  MultipathPresent(v) /\ (~Ok(v, PathSource(v)) \/ Says(v, PathSource(v)) # {})

\* readHBAPort
HBAData(v) ==
  LET counted == Ok(v, "fc_host statistics")
  IN [ports |->
        {[state |-> IF Ok(v, "port_state") THEN p.state ELSE "unread",
          failures |-> IF counted THEN p.failures ELSE 0,
          lossOfSync |-> IF counted THEN p.lossOfSync ELSE 0,
          flags |-> Mark(~counted, "countersUnreadable")] : p \in Says(v, "/sys/class/fc_host")}]

CephState(said) == IF said = {} THEN "HEALTH_UNKNOWN" ELSE CHOOSE s \in said : TRUE
CephData(v) ==
  IF Ok(v, "ceph health")
  THEN [state |-> CephState(Says(v, "ceph health")),
        flags |-> Says(v, "ceph osd stat") \cap {"osdsDown"}]
  ELSE [state |-> "",
        flags |-> {"unavailable"} \cup Mark(Exists(v, "/etc/ceph/ceph.conf"), "configured")
                  \cup Mark(v.user # "root", "cephNeedsRoot")]

\* Sessions that the kernel has and iscsiadm did not tell of.
ISCSIFound(v) == Says(v, "iscsiadm -m session") # {} \/ Exists(v, "/sys/class/iscsi_session")
ISCSIData(v) ==
  [flags |->
     IF ~Ok(v, "iscsiadm -m session") THEN {"sessionsNeedRoot"}
     ELSE IF Says(v, "iscsiadm -m session") = {} THEN {"sessionsParseFailed"}
     ELSE Mark(Says(v, "iscsiadm -m session") # {"LOGGED_IN"}, "sessionsFailed")]

-------------------------------------------------------------------------------
(* Snapshots, Bonding *)

\* parseSnapperPlain: a snapshot is the hours since it was taken, -1 where its date
\* is written otherwise, and its space in GB, the same for all.
Dated(v) == Says(v, "snapper list") \ {-1}
SnapperData(v) ==
  IF ~Ok(v, "snapper list") THEN [count |-> 0, age |-> -1, space |-> 0, flags |-> {"snapperNeedsRoot"}]
  ELSE [count |-> Cardinality(Says(v, "snapper list")),
        age |-> IF Dated(v) = {} THEN -1 ELSE CHOOSE n \in Dated(v) : \A m \in Dated(v) : n <= m,
        space |-> Num(v, "snapper list", 0),
        flags |-> {}]

\* lacpNotAggregating: links that are up and carry nothing: no partner, fewer ports
\* than links, or several aggregators.
NotAggregating(bond) ==
  LET up == {s \in bond.slaves : s.state = "up"}
  IN /\ bond.mode = "802.3ad"
     /\ up # {}
     /\ \/ bond.partner = "zero"
        \/ bond.ports > 0 /\ bond.ports < Cardinality(up)
        \/ Cardinality({s.aggregator : s \in up} \ {0}) > 1

\* parseBondFileContent; a bond whose file cannot be read is left out.
Links(bond) == Cardinality(bond.slaves)
LinksDown(bond) == Cardinality({s \in bond.slaves : s.state = "down"})
LinkFailures(bond) == \E s \in bond.slaves : s.failures > 10
USBSlave(v, bond) == \E s \in bond.slaves : s.name \in Says(v, "/sys/class/net")
BondRead(v, bond) ==
  [slaves |-> Links(bond), down |-> LinksDown(bond),
   flags |-> Mark(NotAggregating(bond), "notAggregating")
     \cup Mark(USBSlave(v, bond), "usbSlave") \cup Mark(LinkFailures(bond), "linkFailures")]
BondingData(v) == [bonds |-> {BondRead(v, bond) : bond \in Says(v, "/proc/net/bonding")}]

===============================================================================
