--------------------------- MODULE PlatformCollectors ---------------------------
(***************************************************************************)
(* The collectors of container runtimes, orchestrators, hypervisors and    *)
(* clouds, over the views of HostCollectors.                               *)
(***************************************************************************)
EXTENDS HostCollectors

-------------------------------------------------------------------------------
(* Docker and Podman *)

\* detectContainerSocket: one that does not answer is passed over.
Socket(v) == Got(v, "socket")
Podman(v) == Exists(v, "podman")
Runtime(v) == IF "podman" \in Says(v, "socket") THEN "podman" ELSE "docker"

\* scanQuadletFiles, quadletUnitState
QuadletFiles(v) ==
  \E d \in {"/etc/containers/systemd", "/root/.config/containers"} : "unit" \in Says(v, d)
Quadlets(v) ==
  IF ~QuadletFiles(v) THEN {}
  ELSE IF Ok(v, "systemctl show") THEN Says(v, "systemctl show") ELSE {"unread"}

\* containerDetail: a container that could not be inspected has nothing wrong.
ContainerDetails(v) == Says(v, "/containers/ID/json")

\* collectDaemonHealth, collectDaemonJournalErrors
DaemonHealth(v) ==
  Mark("devicemapper" \in Says(v, "/info"), "deviceMapper")
  \cup Mark(Ok(v, "docker-compose") /\ Exists(v, "docker-compose"), "composeStandalone")
  \cup Mark(Runtime(v) = "docker" /\ "error" \in Says(v, "journalctl -u docker"), "daemonErrors")

\* collectFirewalldCheck: a zone that could not be asked for is not trusted.
FirewalldCheck(v) ==
  IF "active" \notin Says(v, "systemctl is-active firewalld") THEN {}
  ELSE Mark(Ok(v, "firewalld.conf") /\ "iptables" \notin Says(v, "firewalld.conf"),
            "firewalldNftables")
       \cup Mark("docker0" \in Says(v, "firewall-cmd"), "zoneTrusted")

\* collectNetworkHealth, collectDNSTrap
DockerNetwork(v) ==
  FirewalldCheck(v)
  \cup Mark("off" \in Says(v, "ip_forward"), "forwardingOff")
  \cup Mark("largeMTU" \in Says(v, "/networks") /\ Ok(v, "/sys/class/net"), "mtuMismatch")
  \cup IF "loopback" \notin Says(v, "resolv.conf") THEN {}
       ELSE {"dnsTrap"} \cup Mark("ownDNS" \in Says(v, "/info"), "ownDNS")

\* collectArchMismatch needs both architectures.
ArchMismatch(v) == Ok(v, "/info") /\ "otherArch" \in Says(v, "/images/NAME/json")

\* collectLogDriverHealth, with --deep: a container that could not be inspected may
\* have a driver of its own.  Sizes are looked up for the json-file driver only.
LogDriverHealth(v) ==
  IF "containers" \notin Says(v, "/containers/json") THEN {}
  ELSE IF Ok(v, "/containers/ID/json")
       THEN Mark("noMaxSize" \in ContainerDetails(v), "unboundedLogs") ELSE {"logsUnverified"}
LargeLogs(v) ==
  Mark("otherDriver" \notin Says(v, "daemon.json") /\ "large" \in Says(v, "/var/lib/docker/containers"),
       "largeLogs")

DockerFacts(v) ==
  (ContainerDetails(v) \cap {"crashLooping", "unhealthy", "plaintextSecrets", "socketMounted",
                             "runsAsRoot"})
  \cup Mark("oom" \in Says(v, "/events"), "oomEvents")
  \cup Mark("dangling" \in Says(v, "/images/json"), "danglingImages")
  \cup Mark(ArchMismatch(v), "archMismatch")
  \cup DaemonHealth(v) \cup DockerNetwork(v)
  \cup IF Runtime(v) = "docker" THEN LogDriverHealth(v) \cup LargeLogs(v) ELSE {}

DockerStatus(status, quadlets) ==
  [status |-> status, failedStopped |-> 0, quadlets |-> quadlets, flags |-> {}]

DockerData(v) ==
  IF Socket(v) = "denied" THEN DockerStatus("denied", {})
  ELSE IF Socket(v) # "ok"
  THEN IF Podman(v) /\ QuadletFiles(v) THEN DockerStatus("running", Quadlets(v))
       ELSE DockerStatus(IF Ok(v, "docker --version") THEN "unusable" ELSE "idle", {})
  ELSE IF ~Ok(v, "/containers/json") THEN DockerStatus("unlisted", {})
  ELSE [status |-> "running",
        failedStopped |-> Num(v, "/containers/ID/json", 0),
        quadlets |-> IF Runtime(v) = "podman" \/ Podman(v) THEN Quadlets(v) ELSE {},
        flags |-> DockerFacts(v)]

-------------------------------------------------------------------------------
(* Kubernetes.  A node is [ready, conditions]: the status of its condition     *)
(* Ready, "" where it has none, and those of the others that are true.  A pod  *)
(* is [phase, waiting, containers, ready, restarts, initWaiting, terminating]. *)

\* k8sDetectBin: any of the binaries it knows.
KubeBinary(v) == Exists(v, "kubectl")

\* parseK8sNodes
Nodes(v) == Says(v, "get nodes")
NodeFlags(v) == Mark(\E n \in Nodes(v) : n.ready \notin {"True", ""}, "nodesNotReady")

\* summarizeContainerStatuses: what a container waits for stands for the phase.
PodStatus(p) == IF p.waiting # "" THEN p.waiting ELSE p.phase
FullyReady(p) == p.containers > 0 /\ p.ready = p.containers

\* updatePodCounts, parseInitError; a pod that is crash looping is not said to have
\* failed in its init containers.
Crashed == {"CrashLoopBackOff", "Error"}
PodFlags(p) ==
  (CASE PodStatus(p) \in Crashed -> {"crashLooping"}
     [] PodStatus(p) = "Pending" -> {"pending"}
     [] PodStatus(p) = "Unknown" -> {"unknownStatus"}
     [] OTHER -> Mark(p.ready = 0 /\ PodStatus(p) = "Running", "podsNotReady"))
  \cup Mark(p.restarts >= 10 /\ ~FullyReady(p), "highRestarts")
  \cup Mark(p.terminating, "terminating")
  \cup Mark(p.initWaiting \in Crashed /\ PodStatus(p) # "CrashLoopBackOff", "initErrors")
Pods(v) == UNION {PodFlags(p) : p \in Says(v, "get pods")}

\* collectK8sPVCs: claims are listed by their status.
Claims(v) ==
  IF ~Ok(v, "get pvc") THEN {"pvcsUnread"}
  ELSE Mark(Says(v, "get pvc") \ {"Bound"} # {}, "pvcsNotBound")

WorkloadKinds == {"get deploy", "get statefulset"}

\* Faulty: a kind that could not be listed has no workloads.
WorkloadsUnmarked(v) ==
  Mark(\E kind \in WorkloadKinds : \E w \in Says(v, kind) : w.ready < w.desired, "workloadsDown")

\* collectK8sWorkloads goes on where one kind cannot be listed.
Workloads(v) ==
  Mark(\E kind \in WorkloadKinds : ~Ok(v, kind), "workloadsUnread")
  \cup Mark(\E kind \in WorkloadKinds : \E w \in Says(v, kind) : w.ready < w.desired, "workloadsDown")

\* k8sUnitActive: a unit that could not be asked for is not running.
KubeletUnits == {"kubelet", "k3s", "k3s-agent", "rke2-server", "rke2-agent", "k0scontroller",
                 "k0sworker", "snap.microk8s.daemon-kubelite"}
ContainerdUnits == {"containerd", "snap.microk8s.daemon-containerd"}
UnitActive(v, units) == Says(v, "systemctl is-active") \cap units # {}

\* The log is asked of the servers alone.
LoggedUnits == KubeletUnits \ {"k3s-agent", "rke2-agent", "k0sworker"}
KubeletErrors(v) ==
  UnitActive(v, KubeletUnits) /\ Says(v, "journalctl -u kubelet") \cap LoggedUnits # {}

\* Units of the node, only where one of the distributions is installed.
NodeDaemons(v) ==
  Mark(Exists(v, "distribution") /\ ~UnitActive(v, KubeletUnits), "kubeletDown")
  \cup Mark(/\ Exists(v, "distribution") /\ ~UnitActive(v, ContainerdUnits)
            /\ ~Exists(v, "containerd.sock"), "containerdDown")
  \cup Mark(KubeletErrors(v), "kubeletErrors")

\* flannelCNIConfigured: by the name of a file or by what is in it; a file that
\* cannot be read says nothing.
ConfDirs == {"/etc/cni/net.d", "k3s/agent/etc/cni/net.d"}
FlannelInUse(v) ==
  \E d \in ConfDirs : \/ "flannel" \in Says(v, d)
                      \/ "flannel inside" \in Says(v, d) /\ Ok(v, "conflist")
FlannelFlags(v) ==
  Mark(~FlannelInUse(v) /\ \E d \in ConfDirs : Got(v, d) = "denied", "flannelUnread")
  \cup Mark(FlannelInUse(v) /\ ~Exists(v, "subnet.env"), "flannelSubnetMissing")

\* cniBinsPresentIn: a directory that does not exist has been looked at.
PluginDirs == {"/opt/cni/bin", "k3s/data/current/bin"}
PluginFlags(v) ==
  LET checked == \E d \in PluginDirs : Got(v, d) \in {"ok", "absent"}
      present == \E d \in PluginDirs : Ok(v, d) /\ "empty" \notin Says(v, d)
  IN Mark(~checked, "cniUnchecked") \cup Mark(checked /\ ~present, "cniEmpty")

\* detectKubeForward: iptables fails where it has no such chain.
ForwardChain(v) ==
  IF "kube" \in Says(v, "nft list tables") \/ "KUBE-FORWARD" \in Says(v, "iptables -L") THEN {}
  ELSE IF Ok(v, "nft list tables") THEN {"noForwardChain"} ELSE {"forwardUnchecked"}

\* detectKubeServices
Proxy(v) ==
  IF "kube" \in Says(v, "nft list tables") THEN "nft"
  ELSE IF "proxy" \notin Says(v, "get kube-proxy") \/ ~Ok(v, "iptables-save") THEN ""
  ELSE IF Num(v, "iptables-save", 0) = 0 /\ "ipvs" \in Says(v, "logs kube-proxy")
  THEN "ipvs" ELSE "iptables"
ServiceRules(v) ==
  CASE Proxy(v) = "iptables" -> Num(v, "iptables-save", 0)
    [] Proxy(v) = "ipvs" -> Num(v, "ipvsadm", -1)
    [] OTHER -> -1

\* A firewalld that does not answer does not masquerade.
Masquerade(v) ==
  Mark(/\ FlannelInUse(v) /\ UnitActive(v, {"firewalld"})
       /\ "yes" \notin Says(v, "firewall-cmd"), "masqueradeMissing")

\* checkCertExpiry.  Certificates are the hours that are left to them, whose days are
\* cut off towards zero: one that expired today is one that soon will.
CertDirs == {"/etc/kubernetes/pki", "k3s/server/tls"}
DaysLeft(hours) == IF hours < 0 THEN -((-hours) \div 24) ELSE hours \div 24
CertDays(v) ==
  IF Ok(v, "*.crt") THEN {DaysLeft(hours) : hours \in UNION {Says(v, d) : d \in CertDirs}} ELSE {}
CertState(v) ==
  IF \E days \in CertDays(v) : days < 0 THEN "expired"
  ELSE IF /\ \A d \in CertDirs : ~Ok(v, d)
          /\ \E d \in CertDirs : Got(v, d) # "absent" THEN "unread"
  ELSE IF \E days \in CertDays(v) : days < 30 THEN "soon" ELSE "valid"

\* collectK8sOSLayer, with --deep.
OSLayer(v) ==
  [services |-> ServiceRules(v), proxy |-> Proxy(v), certState |-> CertState(v),
   flags |-> NodeDaemons(v) \cup FlannelFlags(v) \cup PluginFlags(v) \cup ForwardChain(v)
             \cup Masquerade(v) \cup Mark("off" \in Says(v, "ip_forward"), "forwardingOff")]

\* Of the ten latest warnings only the latest counts, so all are kept.
K8sData(v) ==
  [conditions |-> UNION {n.conditions : n \in Nodes(v)},
   events |-> Says(v, "get events"), layers |-> {OSLayer(v)},
   flags |-> NodeFlags(v) \cup Pods(v) \cup Claims(v) \cup Workloads(v)
             \cup Mark(~Ok(v, "get events"), "eventsUnread")
             \cup Mark(~Ok(v, "get nodes") /\ ~Ok(v, "get pods"), "apiUnreachable")]

-------------------------------------------------------------------------------
(* Proxmox *)

\* collectPVESubscription: the file knows only of a login.
Subscription(v) ==
  IF Ok(v, "pvesh subscription")
  THEN IF "expired" \in Says(v, "pvesh subscription") THEN "expired"
       ELSE IF "none" \in Says(v, "pvesh subscription") THEN "notfound" ELSE "active"
  ELSE IF ~Ok(v, "pve.conf") THEN "notfound"
  ELSE IF "login" \in Says(v, "pve.conf") THEN "unverified" ELSE "unknown"

\* Faulty: an HA manager that does not answer has failed to fence.
FencingUnansweredFailed(v) ==
  Mark((Exists(v, "pvesh ha") /\ ~Ok(v, "pvesh ha")) \/ "fence" \in Says(v, "pvesh ha"),
       "fencingFailed")

\* collectPVEHAFencing: a cluster that implements no HA has nothing to fence.
Fencing(v) ==
  IF Exists(v, "pvesh ha") /\ ~Ok(v, "pvesh ha") THEN {"fencingUnread"}
  ELSE Mark("fence" \in Says(v, "pvesh ha"), "fencingFailed")

\* collectPVECluster
Cluster(v) ==
  IF Ok(v, "pvesh cluster") THEN Says(v, "pvesh cluster") ELSE {"apiUnreachable"}

\* collectPVEStorages
Storages(v) ==
  IF ~Ok(v, "pvesh storage") THEN {}
  ELSE IF "down" \in Says(v, "pvesh storage") THEN {[state |-> "down", used |-> 0]}
  ELSE {[state |-> "active", used |-> Num(v, "pvesh storage", 10)]}

\* collectPVEBackups: the days since the archives, the log of a job and the listed
\* tasks were last good, -1 for never.
Archived(v) == Num(v, "vzdump archives", -1)
TasksAge(v) == Num(v, "pvesh vzdump", -1)
FirstKnown(days, otherwise) == IF days >= 0 THEN days ELSE otherwise
BackupAge(v) ==
  FirstKnown(IF Ok(v, "pvesh vzdump") THEN TasksAge(v) ELSE Num(v, "vzdump logs", -1), Archived(v))

\* backupAudit; archives speak for each guest before tasks do.
BackupAudit(v) ==
  IF "guest" \in Says(v, "pvesh guests") THEN {FirstKnown(Archived(v), TasksAge(v))} ELSE {}

PVEData(v) ==
  IF v.user # "root"
  THEN [subscription |-> "", storages |-> {}, age |-> -1, guests |-> {}, flags |-> {"pveNeedsRoot"}]
  ELSE [subscription |-> Subscription(v), storages |-> Storages(v), age |-> BackupAge(v),
        guests |-> BackupAudit(v),
        flags |-> Cluster(v) \cup Fencing(v)
          \cup Mark(~Ok(v, "pvesh storage"), "storagesUnread")
          \cup Mark(~Ok(v, "pvesh guests"), "guestsUnread")
          \cup Mark(~Ok(v, "pvesh vzdump") /\ BackupAge(v) < 0, "backupsUnread")
          \cup Mark("failed" \in Says(v, "pvesh vzdump"), "backupFailed")
          \cup (IF Ok(v, "pvesh tasks") THEN Mark("error" \in Says(v, "pvesh tasks"), "taskErrors")
                ELSE {"tasksUnread"})]

===============================================================================
