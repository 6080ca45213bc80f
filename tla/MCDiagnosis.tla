------------------------------ MODULE MCDiagnosis ------------------------------
(* Every collector alone, and panels of two to four that bear on each other. *)
EXTENDS Diagnosis, Readings

CPU ==
  [usage : {0, 75, 95}, load : {0, 80, 250}, average : {0, 100}, queue : {0, 2, 4},
   steal : {0, 10, 20}, iowait : {0, 20, 40}, flags : {{}, {"offline"}}]
  \cup [usage : {0}, load : {0, 80}, average : {0}, queue : {0}, steal : {0}, iowait : {0},
        flags : {{"sampleFailed"}, {"offline", "smtOff"}, {"offline", "isolated"}}]
BusyCPU == {c \in CPU : c.load # 80 /\ c.average = 0 /\ c.queue \in {0, 4} /\ c.steal # 20}

Mem ==
  [used : {50, 85, 97}, slab : {0, 25},
   flags : {{}, {"meminfoUnreadable"}, {"overCommitted"}, {"overCommitted", "strict"},
            {"edac", "uncorrected"}, {"edac", "corrected"}, {"edac", "eccUnreadable"},
            {"offlineBlocks"}, {"offlineBlocks", "autoOnline"}, {"cgroupMeasured"}}]
BriefMem == {m \in Mem : m.slab = 0 /\ m.flags \subseteq {"meminfoUnreadable"}}

SwapReadings ==
  [used : {0, 30, 70}, paging : {-1, 0, 10, 70, 200}, pressure : {0},
   flags : {{}, {"zram"}, {"zram", "zramUnreadable"}, {"swapsUnreadable"}}]
  \cup [used : {50, 80, 95}, paging : {-1}, pressure : {1, 2}, flags : {{}}]
BriefSwap == {s \in SwapReadings : s.used # 30 /\ s.paging # 10 /\ s.pressure = 0}

Stats ==
  [type : {"ssd", "nvme", "hdd"}, util : {10, 70, 99}, await : {0, 3, 12, 60}]
IOReadings ==
  {[stats |-> <<d>>, flags |-> {}] : d \in Stats}
  \cup {[stats |-> [i \in 1..n |-> [type |-> t, util |-> 99, await |-> 0]], flags |-> {}] :
          n \in {2, 3}, t \in {"ssd", "hdd"}}
BriefIO == {r \in IOReadings : Len(r.stats) = 1 /\ r.stats[1].type = "ssd"}

Procs ==
  [zombies : {0, 1, 10}, hung : {0, 1, 5},
   flags : {{}, {"listRestricted"}}]
  \cup [zombies : {0}, hung : {0}, flags : {{"listUnreadable"}}]

LogFlags ==
  {"needsRoot", "kmsgUnreadable", "crashLoopsUnverified", "crashFilesUnreadable",
   "journalSizeUnreadable", "corruptUnverified", "oomKills", "crashLoops", "kernelPanics",
   "segfaults", "nvmeTimeouts", "nvmeResets", "virtualized", "journalCorrupt",
   "journalVolatile", "noTextFallback", "syncRisk", "coreDumps"}
LogReadings ==
  [journal : {0}, diskUsed : {0}, errors : {0}, flags : {{f, g} : f, g \in LogFlags}]
  \cup [journal : {0}, diskUsed : {0}, errors : {0},
        flags : {{"errorsUnverified"}, {"errorsUnverified", "needsRoot"}}]
  \cup [journal : {0, 2, 5}, diskUsed : {0, 85, 95}, errors : {0, 20, 60}, flags : {{}}]
BriefLogs ==
  {l \in LogReadings : l.journal = 0 /\ l.diskUsed = 0 /\ l.errors = 0
     /\ l.flags \in {{"oomKills"}, {"segfaults"}, {"kmsgUnreadable"}}}

Units ==
  [failed : {{}, {"zfsImport"}, {"other"}, {"bootFilesystem", "zfsImport"}},
   slow : {{}, {4}, {12}}, boot : {5, 40},
   flags : {{}, {"failedUnitsUnknown"}, {"sshdUnverified"}, {"maintenance"}, {"needsReload"}}]
Bus ==
  [status : {"n/a", "active", "failed", "inactive"}, flags : {{}}]
  \cup [status : {"unknown"}, flags : {{"statusUnknown"}}]
Bits == [bits : {30, 200, 4000}, flags : {{}}]
Clocks == [offset : {-1, -300, 0, 600}, flags : {{}, {"synced"}, {"rtcLocal"}}]

Cgroups ==
  [flags : {{}, {"oomKills"}},
   parts : {{}} \cup {{p} : p \in [throttled : {0, 6, 30}, limited : {"yes", "no"},
                                   used : {50, 80, 95}]}]
Deep ==
  [maxCore : {50, 96}, imbalance : {0, 85}, load : {30, 90}, tasks : {0, 2},
   flags : {{}, {"memUnreadable"}, {"dirtyPages"}}, cgroup : Cgroups]
BriefDeep == {d \in Deep : d.maxCore = 50 /\ d.imbalance = 0 /\ d.load = 30 /\ d.tasks = 0}

Alone ==
  [CPULoad |-> CPU, IO |-> IOReadings, Logs |-> LogReadings, CPUDeep |-> Deep,
   Drives |-> Drives, ZFS |-> ZFSReadings, LVM |-> LVMReadings, DRBD |-> DRBDReadings,
   RAID |-> RAIDReadings, Disk |-> DiskReadings, HBA |-> HBAReadings,
   Multipath |-> MultipathReadings, Ceph |-> CephReadings, iSCSI |-> ISCSIReadings,
   FDLimits |-> FDReadings, KernelSec |-> MACReadings, Services |-> ServicesReadings,
   OOM |-> OOMReadings, MTE |-> MTEReadings, Pressure |-> PressureReadings,
   HugePages |-> HugePagesReadings, Launchd |-> LaunchdReadings, Sessions |-> SessionsReadings,
   Network |-> NetworkReadings, Bonding |-> BondingReadings, VLAN |-> VLANReadings,
   InfiniBand |-> InfiniBandReadings, DNS |-> DNSReadings, Networkd |-> NetworkdReadings,
   BIND |-> BINDReadings, NFS |-> NFSReadings, Battery |-> BatteryReadings,
   NUMA |-> NUMAReadings, GPU |-> GPUReadings, Hardware |-> HardwareReadings,
   IPMI |-> IPMIReadings, HardwareRAID |-> HWRaidReadings, Firmware |-> FirmwareReadings,
   Snapshots |-> SnapperReadings, Subscription |-> SubscriptionReadings,
   SteamOS |-> SteamOSReadings, Hardening |-> HardeningReadings, Firewall |-> FirewallReadings,
   Auth |-> AuthReadings, Auditd |-> AuditdReadings, Packages |-> PackageReadings,
   CVE |-> CVEReadings, TLS |-> TLSReadings, Kdump |-> KdumpReadings, Tuned |-> TunedReadings,
   Kernel |-> KernelPatchReadings, Ksplice |-> KspliceReadings,
   ServiceRestart |-> RestartReadings, KernelRetention |-> RetentionReadings,
   LivePatch |-> LivePatchReadings, Transactional |-> TransactionalReadings,
   Cron |-> CronReadings, PostBoot |-> PostBootReadings, Fstab |-> FstabReadings,
   RootFS |-> RootFSReadings, KVM |-> KVMReadings, Docker |-> DockerReadings,
   Containerd |-> ContainerdReadings, Nspawn |-> NspawnReadings, K8s |-> K8sReadings,
   Rancher |-> RancherReadings, KVMGuest |-> KVMGuestReadings,
   ContainerGuest |-> ContainerGuestReadings, VMware |-> VMwareReadings, PVE |-> PVEReadings,
   CloudMeta |-> CloudMetaReadings, CloudInit |-> CloudInitReadings, AWS |-> AWSReadings,
   Azure |-> AzureReadings, GCP |-> GCPReadings, OCI |-> OCIReadings,
   Postgres |-> PostgresReadings, MySQL |-> MySQLReadings, Redis |-> RedisReadings,
   Memcached |-> MemcachedReadings, MongoDB |-> MongoDBReadings, Kafka |-> KafkaReadings,
   RabbitMQ |-> RabbitMQReadings, Elasticsearch |-> ElasticsearchReadings, Nginx |-> WebReadings,
   Apache |-> WebReadings, HAProxy |-> WebReadings, Envoy |-> EnvoyReadings,
   Traefik |-> TraefikReadings, Prometheus |-> PrometheusReadings,
   Alertmanager |-> AlertmanagerReadings, Grafana |-> GrafanaReadings, Vault |-> VaultReadings,
   HACluster |-> HAReadings]

\* A process is judged by the load, sysctl by swapping, units by ZFS, and the
\* correlation rules by what they name.
Together ==
  [memory |-> [Memory |-> Mem, Swap |-> SwapReadings],
   swappiness |-> [Swap |-> BriefSwap, Sysctl |-> BriefSysctl],
   heat |-> [CPULoad |-> BusyCPU, CPUThermal |-> ThermalReadings],
   frequency |-> [CPULoad |-> BusyCPU, CPUFreq |-> CPUFreqReadings],
   network |-> [CPULoad |-> {b \in BusyCPU : b.steal = 0 /\ b.iowait = 0}, Network |-> BriefNetwork,
    DNS |-> BriefDNS],
   pressure |-> [Memory |-> BriefMem, Swap |-> BriefSwap, Logs |-> BriefLogs, IO |-> BriefIO],
   stall |-> [Memory |-> BriefMem, Swap |-> BriefSwap, Processes |-> Procs],
   containers |-> [Memory |-> BriefMem, Docker |-> BriefDocker, CPUDeep |-> BriefDeep],
   gpu |-> [Memory |-> BriefMem, GPU |-> BriefGPU, CPUThermal |-> ThermalReadings],
   units |-> [Systemd |-> Units, Disk |-> BriefDisk, DBus |-> Bus],
   clock |-> [Entropy |-> Bits, Clock |-> Clocks, TLS |-> BriefTLS, Auth |-> BriefAuth],
   nfs |-> [NFS |-> BriefNFS, Processes |-> Procs],
   selinux |-> [KernelSec |-> BriefMAC, Hardening |-> BriefHardening]]

MCPanels == Together @@ [name \in DOMAIN Alone |-> [c \in {name} |-> Alone[name]]]

NoPolicy == [f \in {} |-> 0]
\* Warning above critical, and tolerance of what the defaults call critical.
Inverted == [f \in {"ramWarn", "swapWarn", "cpuWarn"} |-> 96]
Lax == [f \in {"hungCrit", "zombieWarn"} |-> 20]

Setting(user, container, env, policy) ==
  [user |-> user, container |-> container, env |-> env, policy |-> policy]
MCSettings ==
  {Setting("root", "no", "bare", NoPolicy), Setting("other", "no", "virtual", Inverted),
   Setting("other", "limited", "other", NoPolicy), Setting("root", "yes", "bare", Lax)}
===============================================================================
