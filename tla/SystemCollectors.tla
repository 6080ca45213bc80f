---------------------------- MODULE SystemCollectors -----------------------------
(***************************************************************************)
(* The collectors of every run, on Linux: processor, memory, swap, input   *)
(* and output, descriptors, processes, kernel settings, pressure, the      *)
(* clock, sessions, logins and the network.  A counter that is read twice  *)
(* is one source that gives the difference.                                *)
(***************************************************************************)
EXTENDS SecurityCollectors, StorageCollectors, Sequences
LOCAL INSTANCE FiniteSetsExt
LOCAL INSTANCE SequencesExt

-------------------------------------------------------------------------------
(* CPU.  usage, own (what dsd itself used), steal and iowait are percent of   *)
(* all CPUs.                                                                  *)

NoSample == [usage |-> 0, steal |-> 0, iowait |-> 0, queue |-> 0]

\* sampleCPUUsage: the run's own time is not the host's.
CPUSample(v) ==
  IF ~Ok(v, "/proc/stat") THEN NoSample
  ELSE LET s == CHOOSE s \in Says(v, "/proc/stat") : TRUE
           own == Num(v, "/proc/self/stat", 0)
       IN [s EXCEPT !.usage = IF own < @ THEN @ - own ELSE 0]

\* readCPUAvailability: what cannot be read counts 0, or says nothing.
CPUAvailability(v) ==
  LET online == Num(v, "cpu/online", 0)
  IN Mark(online > 0 /\ Num(v, "cpu/present", 0) > online, "offline")
     \cup Mark("off" \in Says(v, "smt/control"), "smtOff")
     \cup Mark("isolcpus" \in Says(v, "/proc/cmdline"), "isolated")

\* The load is divided by the CPUs of the host: a container's limit of its own would
\* only count where there is no load to divide.
CPUData(v) ==
  LET load == Num(v, "/proc/loadavg", 0)
      sample == CPUSample(v)
  IN [usage |-> sample.usage, steal |-> sample.steal, iowait |-> sample.iowait,
      queue |-> sample.queue, load |-> load, average |-> load,
      flags |-> CPUAvailability(v) \cup Mark(~Ok(v, "/proc/stat"), "sampleFailed")]

-------------------------------------------------------------------------------
(* Memory and swap *)

\* readEDACCounts, as EDACCounts reads them for Hardware.
ECCFlags(v) ==
  {IF f = "edacUnreadable" THEN "eccUnreadable" ELSE f : f \in EDACCounts(v)}

\* readMemHotplug: a block whose state cannot be read is not offline.
HotplugFlags(v) ==
  IF ~Ok(v, "/sys/devices/system/memory") THEN {}
  ELSE Mark("offline" \in Says(v, "memory/state"), "offlineBlocks")
       \cup Mark("online" \in Says(v, "auto_online_blocks"), "autoOnline")

\* Without MemAvailable, from kernels before 3.14, it is estimated.
MemoryUsed(info) ==
  IF "estimated" \in info.flags THEN info.estimate ELSE info.used

\* cgroupMemoryUsageBytes: what a container with a limit of its own uses of it.
CgroupMeasured(v) == MemoryLimited(v) /\ Ok(v, "memory.current")

\* The kernel's overcommit mode is 0 where it cannot be read.
MemoryData(v) ==
  LET read == Ok(v, "/proc/meminfo")
      info == CHOOSE i \in Says(v, "/proc/meminfo") : TRUE
  IN [used |-> IF CgroupMeasured(v) THEN Num(v, "memory.current", 0)
               ELSE IF read THEN MemoryUsed(info) ELSE 0,
      slab |-> IF read THEN info.slab ELSE 0,
      flags |-> ECCFlags(v) \cup HotplugFlags(v)
        \cup Mark(CgroupMeasured(v), "cgroupMeasured")
        \cup (IF read
              THEN (info.flags \cap {"overCommitted"})
                   \cup Mark("strict" \in Says(v, "overcommit_memory"), "strict")
              ELSE {"meminfoUnreadable"})]

\* A device of compressed memory: what it holds is not judged.
ZramFlags(v) ==
  LET found == "zram" \in Says(v, "/sys/block")
  IN Mark(found, "zram")
     \cup Mark(\/ ~Ok(v, "/sys/block")
               \/ found /\ (~Ok(v, "zram/disksize") \/ ~Ok(v, "zram/mm_stat")),
               "zramUnreadable")

SwapData(v) ==
  [used |-> Num(v, "/proc/swaps", 0), paging |-> Num(v, "/proc/vmstat", 0), pressure |-> 0,
   flags |-> ZramFlags(v) \cup Mark(~Ok(v, "/proc/swaps"), "swapsUnreadable")]

-------------------------------------------------------------------------------
(* Input and output, descriptors, processes *)

\* driveType: what does not say that it rotates is an SSD.
DriveType(v, device) ==
  IF device.kind = "hdd" /\ ~Ok(v, "queue/rotational") THEN "ssd" ELSE device.kind

\* A device of the second sample alone has nothing to be compared with.
IOData(v) ==
  LET both == {d \in Says(v, "/proc/diskstats") : "appeared" \notin d.flags}
  IN [stats |-> [i \in 1..Cardinality(both) |->
        LET d == SetToSeq(both)[i]
        IN [type |-> DriveType(v, d), util |-> d.util, await |-> d.await]]]

\* A process whose descriptors cannot be listed is passed over.
Scanned(v) ==
  {p \in Says(v, "processes") : Ok(v, IF p.own THEN "own fd" ELSE "other fd")}

\* hotProcInfo: "unlimited" is a process without a limit that has 10000 files open,
\* "helper" one whose limit its unit has set very low.
Hot(v) ==
  {p \in Scanned(v) : /\ Ok(v, "limits")
                      /\ "unlimited" \in p.flags \/ (p.used > 70 /\ "helper" \notin p.flags)}

\* scanProcesses keeps five, those without a limit first; of a limit that is none,
\* whatever is open is next to nothing.
Ahead(p, q) ==
  "unlimited" \notin q.flags /\ ("unlimited" \in p.flags \/ p.used > q.used)
Busiest(v) ==
  {q \in Hot(v) : MapThenSumSet(LAMBDA p : p.count, {p \in Hot(v) : Ahead(p, q)}) < 5}
HotProcesses(v) ==
  {IF "unlimited" \in p.flags THEN 0 ELSE p.used : p \in Busiest(v)}
FDData(v) ==
  [used |-> Num(v, "file-nr", 0), hot |-> HotProcesses(v),
   flags |-> Mark(\E p \in Scanned(v) : "deletedOpen" \in p.flags, "deletedOpen")]

\* glob of /proc: with hidepid a user sees no process of another's, init included.
Restricted(v) == "hidepid" \in Says(v, "mount options") /\ v.user # "root"
Visible(v) == {p \in Says(v, "/proc") : p.own \/ ~Restricted(v)}

\* A kernel thread, a child of dsd, or one of a shell proven by its executable.
Excused(v, p) ==
  \/ p.parent \in {"kthreadd", "dsd"}
  \/ p.parent = "shell" /\ Ok(v, IF p.own THEN "own exe" ELSE "other exe")
InState(v, state) ==
  MapThenSumSet(LAMBDA p : p.count,
    {p \in Visible(v) : p.state = state /\ Ok(v, "/proc/PID/stat") /\ ~Excused(v, p)})
ProcessesData(v) ==
  [zombies |-> InState(v, "Z"), hung |-> InState(v, "D"),
   flags |-> Mark(Restricted(v), "listRestricted")]

-------------------------------------------------------------------------------
(* Kernel settings, pressure, huge pages, the message bus, the clock *)

\* detectWorkload, by the names of the processes.
Workload(v) ==
  LET names == Says(v, "comm")
  IN IF "kubelet" \in names THEN "k8s"
     ELSE IF "nginx" \in names THEN "webserver"
     ELSE IF "postgres" \in names THEN "database"
     ELSE IF {"java", "elasticsearch"} \subseteq names THEN "elasticsearch"
     ELSE IF "dockerd" \in names THEN "container" ELSE "default"

\* readTaskCount: tasks, or the processes alone, in percent of pid_max.
TaskShare(v) ==
  IF ~Ok(v, "pid_max") THEN 0
  ELSE Num(v, IF Ok(v, "/proc/loadavg") THEN "/proc/loadavg" ELSE "/proc", 0)

\* A setting that cannot be read takes a value no rule objects to.
SysctlData(v) ==
  [workload |-> Workload(v), swappiness |-> Num(v, "swappiness", -1),
   watches |-> Num(v, "max_user_watches", 0), pids |-> TaskShare(v),
   flags |-> Says(v, "somaxconn") \cup Says(v, "max_map_count") \cup Says(v, "rmem_max")
     \cup Says(v, "dirty_ratio")
     \cup Mark("off" \notin Says(v, "tcp_tw_reuse"), "twReuse")]

\* Each of the three files is read on its own.
PSIFiles == {"pressure/memory", "pressure/cpu", "pressure/io"}
StallIn(v, file, part) ==
  IF Says(v, file) = {} THEN 0 ELSE (CHOOSE line \in Says(v, file) : TRUE)[part]
PressureData(v) ==
  [memorySome |-> StallIn(v, "pressure/memory", "some"),
   memoryFull |-> StallIn(v, "pressure/memory", "full"),
   cpuSome |-> StallIn(v, "pressure/cpu", "some"), ioFull |-> StallIn(v, "pressure/io", "full"),
   flags |-> Mark(\E file \in PSIFiles : ~Ok(v, file), "metricsUnreadable")]

HugePagesData(v) ==
  IF ~Ok(v, "/proc/meminfo") THEN [used |-> 0, flags |-> {"pagesUnread"}]
  ELSE [used |-> Num(v, "/proc/meminfo", 0),
        flags |-> Says(v, "/proc/meminfo")
          \cup Mark("always" \in Says(v, "transparent_hugepage"), "transparentAlways")]

\* What systemctl prints is taken whatever it exits with.
DBusData(v) ==
  [status |-> IF Says(v, "systemctl is-active dbus") = {} THEN "unknown"
              ELSE CHOOSE status \in Says(v, "systemctl is-active dbus") : TRUE]

EntropyData(v) == [bits |-> Num(v, "entropy_avail", 256)]

\* adjtimexSync: a call that fails has not said that the clock is set.
ClockData(v) ==
  [offset |-> Num(v, "adjtimex", -1),
   flags |-> Says(v, "adjtimex") \cup Mark("LOCAL" \in Says(v, "/etc/adjtime"), "rtcLocal")]

-------------------------------------------------------------------------------
(* Out-of-memory kills, sessions, logins *)

\* journalctl --grep that matches nothing exits as one that fails; dmesg gives what
\* is left in the kernel's buffer, and without a time nothing is too old.
KernelLogSource(v) ==
  IF Says(v, "journalctl --grep") # {} THEN "journalctl --grep"
  ELSE IF Ok(v, "dmesg --time-format") THEN "dmesg --time-format"
  ELSE IF Ok(v, "dmesg") THEN "dmesg" ELSE "none"
OOMData(v) ==
  LET source == KernelLogSource(v)
  IN [flags |-> IF source = "none" THEN {"kernelLogDenied"}
                ELSE Says(v, source)
                     \cup Mark(source = "dmesg" /\ "oldKills" \in Says(v, source), "kills")]

\* parseSessions: a session from an address is one over the network.
SessionsData(v) ==
  LET sessions == Says(v, "w")
      remote == {s \in sessions : s.from # ""}
  IN [total |-> Cardinality(sessions),
      flags |-> Mark(~Ok(v, "w"), "notListed")
        \cup Mark(Exists(v, "/etc/pve"), "pve")
        \cup Mark(\E s \in remote : s.user = "root", "rootSSH")
        \cup Mark(\E s \in sessions : s.idle > 8, "longIdle")
        \cup Mark(\E s, t \in remote : s.from # t.from, "severalAddresses")]

\* readAuthLog: the first that can be opened, and the whole of it.
AuthLogs == <<"/var/log/auth.log", "/var/log/secure", "/var/log/messages">>
ReadableLogs(v) == {i \in DOMAIN AuthLogs : Ok(v, AuthLogs[i])}

\* The day's journal is believed where sshd wrote to it; where neither it nor a log
\* exists, that is no failure.
JournalOfSSH == "journalctl _COMM=sshd"
AuthSourceOf(v) ==
  IF Says(v, JournalOfSSH) # {} THEN JournalOfSSH
  ELSE IF ReadableLogs(v) # {} THEN AuthLogs[Min(ReadableLogs(v))]
  ELSE IF \E i \in DOMAIN AuthLogs : Got(v, AuthLogs[i]) = "denied" THEN "denied" ELSE "none"

\* Only what sshd itself prints of its settings counts here.
GuessFlags(v) ==
  IF ~SSHDAnswers(v) THEN {}
  ELSE {"configChecked"} \cup Mark("passwordAuth" \in SSHFlags(v), "passwords")
       \cup Mark(SSHWord(v, "permitrootlogin", "no") = "yes", "rootPasswords")

AuthData(v) ==
  LET log == AuthSourceOf(v)
      answers == log = JournalOfSSH \/ Ok(v, "grep")
  IN IF log = "denied" THEN [failed |-> 0, flags |-> {"logUnread"}]
     ELSE [failed |-> IF answers THEN Num(v, log, 0) ELSE 0,
           flags |-> GuessFlags(v)
             \cup Mark(answers /\ "rootAttempts" \in Says(v, log), "rootAttempts")]

-------------------------------------------------------------------------------
(* Network, without the wireless settings of SteamOS; no check reads the      *)
(* jitter, or the quality of a signal that nmcli gives.                       *)

\* What a source says of each of several interfaces is pairs of its name and a value.
OfInterface(pairs, name) ==
  LET of == {p \in pairs : p[1] = name} IN IF of = {} THEN 0 ELSE (CHOOSE p \in of : TRUE)[2]

\* collectWiFiInfo: the signal in dBm, of iwconfig before that of the kernel; a value
\* that is not negative is none.
Signal(v, name) ==
  LET told == OfInterface(Says(v, "iwconfig"), name)
      kernel == OfInterface(Says(v, "/proc/net/wireless"), name)
  IN IF told < 0 THEN told ELSE IF kernel < 0 THEN kernel ELSE 0

\* readIfaceSpeed: what the file has for a link that is down is no speed.
NoSpeeds == {-1, 65535}
LinkSpeed(v, name) ==
  LET mbps == OfInterface(Says(v, "speed"), name) IN IF mbps \in NoSpeeds THEN 0 ELSE mbps

\* nicErrorRateHigh: more than a hundred, and than one packet of 10000.
ErrorRateHigh(errors, packets) == errors > 100 /\ packets # 0 /\ errors * 10000 > packets

\* An interface i has a name and flags; the counters are by name, and one without has
\* seen nothing.
InterfaceData(v, i) ==
  [name |-> i.name,
   signal |-> IF "wireless" \in i.flags THEN Signal(v, i.name) ELSE 0,
   speed |-> LinkSpeed(v, i.name),
   flags |-> (i.flags \cap {"up"})
     \cup Mark(i.name \in Says(v, "device"), "usb")
     \cup Mark(\E c \in Says(v, "net counters") :
                 c.name = i.name /\ ErrorRateHigh(c.errors, c.packets), "errorRateHigh")]

\* shouldSkipIface: the loopback, docker's bridge, and what virtual networks make.
NetInterfaces(v) ==
  {InterfaceData(v, i) : i \in {j \in Says(v, "net interfaces") : "virtual" \notin j.flags}}

\* parseGatewayLinux: of the table of default routes the first with a gateway, or the
\* first on the link.
NoRoute == [interface |-> "", gateway |-> FALSE]
DefaultRoute(v) ==
  LET table == IF Says(v, "/proc/net/route") = {} THEN <<>>
               ELSE CHOOSE t \in Says(v, "/proc/net/route") : TRUE
      ViaGateway(r) == r.gateway
      first == SelectSeq(table, ViaGateway) \o table \o <<NoRoute>>
  IN first[1]

\* An interface that is not among those listed is taken for one that is down.
PrimaryDown(v) ==
  /\ DefaultRoute(v).interface # ""
  /\ \A i \in Says(v, "net interfaces") : i.name = DefaultRoute(v).interface => "up" \notin i.flags

\* detectICMPAvailability, tryOnePing: packets of its own need the capability, which
\* root has unless it was dropped, or the group.
MayPing(v) ==
  \/ v.user = "root" /\ Ok(v, "/proc/self/status") /\ "dropped" \notin Says(v, "/proc/self/status")
  \/ "group" \in Says(v, "ping_group_range")

\* pingRTT, sysPing, tcpProbe: ping, then packets of its own, then a connection to port
\* 53 or 80, made or refused, which knows of no loss.  A target says how it answers.
NoAnswer == [ms |-> -1, loss |-> 100]
Pinged(v, target) ==
  LET answer == CHOOSE a \in Says(v, target) : TRUE
  IN IF Says(v, target) = {} THEN NoAnswer
     ELSE IF answer.loss < 100 /\ (Ok(v, "ping") \/ MayPing(v))
     THEN [ms |-> answer.ms, loss |-> answer.loss]
     ELSE IF answer.ports \cap {53, 80} # {} THEN [ms |-> answer.ms, loss |-> 0] ELSE NoAnswer

\* probeConnectivity: without leave to use the network, which has to be given, nothing
\* is asked, and nothing has failed.
Probing(v) == "on" \in Says(v, "network policy")
NotAsked == [ms |-> 0, loss |-> 0]

\* runConnectivityProbes: the gateway, an address of the internet and a name.
GatewayPinged(v) ==
  IF ~Probing(v) THEN NotAsked
  ELSE IF DefaultRoute(v).gateway THEN Pinged(v, "gateway") ELSE NoAnswer
InternetPinged(v) == IF Probing(v) THEN Pinged(v, "internet") ELSE NotAsked
Resolved(v) ==
  IF ~Probing(v) THEN 0 ELSE IF "failed" \in Says(v, "resolver") THEN -1 ELSE Num(v, "resolver", 0)

\* collectBonds: those of the Bonding collector.
NetworkBonds(v) ==
  {[flags |-> (bond.flags \cap {"usbSlave"}) \cup Mark(bond.down > 0, "degraded")
              \cup Mark(bond.down > 0 /\ bond.down = bond.slaves, "allDown")] :
     bond \in BondingData(v).bonds}

\* NetworkDeepCollector.Collect, parseTCPCounters: a deep run has the counters; what
\* stands behind netstat is not read where netstat has no line of them.
Deep(v) == "quick" \notin Says(v, "mode")
NoCounters == [synRetrans |-> 0, listenOverflows |-> 0, retransFails |-> 0]
NetstatRead(v) == Deep(v) /\ Says(v, "/proc/net/netstat") # {}
TCPCountersRead(v) ==
  IF NetstatRead(v) THEN CHOOSE c \in Says(v, "/proc/net/netstat") : TRUE ELSE NoCounters
\* Percent of the limit; both are read.
ConntrackUsed(v) ==
  LET limit == Num(v, "nf_conntrack_max", 0)
  IN IF NetstatRead(v) /\ limit > 0 THEN (Num(v, "nf_conntrack_count", 0) * 100) \div limit ELSE 0

NetworkFlags(v) ==
  Mark(Deep(v) /\ ~NetstatRead(v), "netstatUnreadable")
  \cup Mark(Deep(v) /\ ~Ok(v, "/proc/net/sockstat"), "sockstatUnreadable")
  \cup Mark(~Ok(v, "net interfaces") \/ ~Ok(v, "net counters"), "interfacesUnreadable")
  \cup Mark(~Ok(v, "net connections"), "connectionsUnreadable")
  \cup Mark(PrimaryDown(v), "primaryDown")
  \cup Mark(~Probing(v), "probeDisabled")
  \cup Mark(Resolved(v) < 0, "dnsFailed")

NetworkData(v) ==
  [interfaces |-> NetInterfaces(v), primary |-> DefaultRoute(v).interface,
   bonds |-> NetworkBonds(v), wifi |-> {},
   gateway |-> GatewayPinged(v).ms, loss |-> GatewayPinged(v).loss,
   internet |-> InternetPinged(v).ms, resolve |-> Resolved(v),
   closeWait |-> Num(v, "net connections", 0),
   timeWait |-> IF Deep(v) THEN Num(v, "/proc/net/sockstat", 0) ELSE 0,
   conntrack |-> ConntrackUsed(v),
   hours |-> IF NetstatRead(v) THEN Num(v, "/proc/uptime", 0) ELSE 0,
   synRetrans |-> TCPCountersRead(v).synRetrans,
   listenOverflows |-> TCPCountersRead(v).listenOverflows,
   retransFails |-> TCPCountersRead(v).retransFails, flags |-> NetworkFlags(v)]

===============================================================================
