----------------------------- MODULE HeuristicsVirt -----------------------------
(***************************************************************************)
(* The checks of heuristics_virt.go, heuristics_kvmguest.go,               *)
(* heuristics_containerguest.go, heuristics_vmware.go and                  *)
(* heuristics_pve.go: hypervisors, container runtimes and orchestrators,   *)
(* and what a guest sees of its host.                                      *)
(***************************************************************************)
EXTENDS Insights

-------------------------------------------------------------------------------
(* KVM host *)

\* vms: for each machine its state and flags.
CheckKVMVMs(kvm) ==
  When(\E vm \in kvm.vms : vm.state = "crashed" \/ "diskMissing" \in vm.flags, Found("CRIT", "KVM"))
  \cup When(\E vm \in kvm.vms :
              \/ vm.state \in {"pmSuspended", "inShutdown", "idle", "blocked", "paused"}
              \/ vm.state \in {"shutOff", "shutDown"} /\ "autostart" \in vm.flags
              \/ vm.flags \cap {"emulatedNIC", "emulatedDisk"} # {}, Found("WARN", "KVM"))
  \cup When(\E vm \in kvm.vms : vm.state = "unreadable", UnreadAt("WARN", "KVM"))
  \cup When("diskErrors" \in kvm.flags, Found("CRIT", "KVM"))
  \cup When("diskErrorsUnchecked" \in kvm.flags, UnreadAt("WARN", "KVM"))

CheckKVM(kvm) ==
  IF "enumFailed" \in kvm.flags THEN {Found("WARN", "KVM")}
  ELSE CheckKVMVMs(kvm)
       \cup When(kvm.flags \cap {"networksInactive", "poolsInactive", "poolsNearFull"} # {},
                 Found("WARN", "KVM"))
       \cup When("poolsUnread" \in kvm.flags, UnreadAt("WARN", "KVM"))

-------------------------------------------------------------------------------
(* Docker, Podman, containerd, nspawn *)

\* failedStopped: how many containers stopped with an error.
DockerContainers(d) ==
  When(d.flags \cap {"crashLooping", "oomEvents"} # {}, Found("CRIT", "Docker"))
  \cup When(d.flags \cap {"unhealthy", "archMismatch"} # {} \/ d.failedStopped > 5,
            Found("WARN", "Docker"))

\* Another resolver than the one of the trap has to be configured.
DockerResources(d) ==
  When(\/ d.flags \cap {"deviceMapper", "composeStandalone", "daemonErrors", "unboundedLogs",
                        "largeLogs", "mtuMismatch"} # {}
       \/ "firewalldNftables" \in d.flags /\ "zoneTrusted" \notin d.flags, Found("WARN", "Docker"))
  \cup When("logsUnverified" \in d.flags, Unread("Docker"))
  \cup When("danglingImages" \in d.flags, Found("INFO", "Docker"))
  \cup When("forwardingOff" \in d.flags, Found("CRIT", "Docker"))
  \cup When("dnsTrap" \in d.flags,
            Found(IF "ownDNS" \in d.flags THEN "INFO" ELSE "WARN", "Docker"))

DockerSecurity(d) ==
  When("socketMounted" \in d.flags, Found("CRIT", "Docker"))
  \cup When(d.flags \cap {"runsAsRoot", "plaintextSecrets"} # {}, Found("WARN", "Docker"))

\* Units on their way up or down are left alone.
PodmanQuadlets(d) ==
  When({"failed", "inactive"} \cap d.quadlets # {}, Found("WARN", "Docker"))
  \cup When("unread" \in d.quadlets, Unread("Docker"))

\* A daemonless runtime without a socket is "idle", an installed daemon without one
\* "unusable".
CheckDocker(d) ==
  IF d.status = "denied" THEN {Found("INFO", "Docker")}
  ELSE IF d.status = "unusable" THEN {Found("WARN", "Docker")}
  ELSE IF d.status = "idle" THEN {}
  ELSE IF d.status = "unlisted" THEN {UnreadAt("WARN", "Docker")}
  ELSE DockerContainers(d) \cup DockerResources(d) \cup DockerSecurity(d) \cup PodmanQuadlets(d)

CheckContainerd(d) ==
  IF d.status = "denied" THEN {Found("INFO", "Containerd")}
  ELSE IF d.status = "unusable" THEN {Found("WARN", "Containerd")}
  ELSE When(d.service \notin {"", "active", "unknown"}, Found("CRIT", "Containerd"))
       \cup When(d.flags \cap {"namespacesUnread", "countsUnread", "noBinary"} # {},
                 Unread("Containerd"))

CheckNspawn(n) ==
  IF "failed" \in n.flags THEN {Found("WARN", "Nspawn")}
  ELSE When("queryFailed" \in n.flags, Unread("Nspawn"))

-------------------------------------------------------------------------------
(* Kubernetes *)

\* nodeProblemConditions; conditions: those that are true of some node.
ProblemConditions == {"MemoryPressure", "DiskPressure", "PIDPressure", "NetworkUnavailable"}

\* events: the age in seconds of each warning, negative where it was not parsed; a
\* warning that has not been repeated for five minutes has quiesced.
K8sEvents(events) ==
  IF \E age \in events : age <= 300 THEN {Found("WARN", "K8s")}
  ELSE When(events # {}, Found("INFO", "K8s"))

K8sNodes(k) ==
  When("nodesNotReady" \in k.flags \/ k.conditions \cap ProblemConditions # {}, Found("CRIT", "K8s"))

K8sPodHealth(k) ==
  When("crashLooping" \in k.flags, Found("CRIT", "K8s"))
  \cup When(k.flags \cap {"initErrors", "podsNotReady", "pending", "highRestarts", "terminating",
                          "unknownStatus"} # {}, Found("WARN", "K8s"))

K8sWorkloads(k) ==
  When(k.flags \cap {"pvcsNotBound", "workloadsDown"} # {}, Found("WARN", "K8s"))
  \cup K8sEvents(k.events)
  \cup When(k.flags \cap {"pvcsUnread", "workloadsUnread", "eventsUnread"} # {}, Unread("K8s"))

K8sCluster(k) == K8sNodes(k) \cup K8sPodHealth(k) \cup K8sWorkloads(k)

\* checkK8sServicesChain; services: rules of the KUBE-SERVICES chain, -1 where it was
\* not read or does not apply.
K8sServicesChain(l) == l.services = 0 /\ l.proxy \in {"iptables", "ipvs"}

\* What the node's system provides for the pods.
CheckK8sOSLayer(l) ==
  When(l.flags \cap {"forwardUnchecked", "cniUnchecked", "flannelUnread"} # {}, Unread("K8s"))
  \cup When(l.flags \cap {"kubeletDown", "containerdDown", "forwardingOff", "flannelSubnetMissing",
                          "cniEmpty"} # {}, Found("CRIT", "K8s"))
  \cup When(\/ l.flags \cap {"masqueradeMissing", "noForwardChain", "kubeletErrors"} # {}
            \/ K8sServicesChain(l), Found("WARN", "K8s"))
  \cup (IF l.certState = "expired" THEN {Found("CRIT", "K8s")}
        ELSE IF l.certState = "unread" THEN {Unread("K8s")}
        ELSE When(l.certState = "soon", Found("WARN", "K8s")))

\* layers: at most one, of a node that dsd runs on.
CheckK8s(k) ==
  (IF "apiUnreachable" \in k.flags THEN {Unread("K8s")} ELSE K8sCluster(k))
  \cup UNION {CheckK8sOSLayer(l) : l \in k.layers}

CheckRancher(d) ==
  When(d.flags \cap {"serverUnread", "webhookUnread"} # {}, Unread("Rancher"))
  \cup When(d.flags \cap {"serverDegraded", "webhookDegraded"} # {}, Found("WARN", "Rancher"))

-------------------------------------------------------------------------------
(* Guests.  One without anything to report is recognised as such. *)

Recognised(found, check) == IF found = {} THEN {Found("INFO", check)} ELSE found

\* kvmguestQGAInsight; agent: of the hypervisor, "noChannel" where it has none.
GuestAgent(v) ==
  IF v.agent = "noChannel" THEN {Found("INFO", "KVMGuest")}
  ELSE When(v.agent \in {"missing", "stopped"}, Found("WARN", "KVMGuest"))

\* Drivers that could not be listed matter only where nothing else was found: the
\* guest would be called fully paravirtual.
CheckKVMGuest(v) ==
  LET found == GuestAgent(v)
               \cup When(v.flags \cap {"emulatedNICs", "emulatedDisks"} # {},
                         Found("WARN", "KVMGuest"))
               \cup When("otherClock" \in v.flags, Found("INFO", "KVMGuest"))
               \cup (IF "stealUnread" \in v.flags THEN {Unread("KVMGuest")}
                     ELSE When(v.steal >= 10, Found("WARN", "KVMGuest")))
  IN IF found = {} /\ "driversUnread" \in v.flags THEN {Unread("KVMGuest")}
     ELSE Recognised(found, "KVMGuest")

\* limit: of memory, 0 for none; usage in the same unit.
CheckContainerGuest(v) ==
  Recognised(
    When(\/ v.limit <= 0 \/ "root" \in v.flags \/ v.throttled >= 10 \/ "oomKills" \in v.flags
         \/ v.limit > 0 /\ 10 * v.usage >= 9 * v.limit, Found("WARN", "ContainerGuest"))
    \cup When("noQuota" \in v.flags \/ "writableRoot" \in v.flags, Found("INFO", "ContainerGuest"))
    \cup When("cgroupUnmeasured" \in v.flags, Unread("ContainerGuest")),
    "ContainerGuest")

\* A limit of the host binds below 98% of what the guest has.
Binding(limit, capacity) == limit < (98 * capacity) \div 100

LimitInsight(known, limit, capacity) ==
  IF known THEN Found(IF Binding(limit, capacity) THEN "WARN" ELSE "INFO", "VMware")
  ELSE UnreadAt("WARN", "VMware")

\* A clock rate outside 500..10000 MHz does not size anything.
VMwareResources(v) ==
  IF "statUnread" \in v.flags THEN {}
  ELSE When(v.flags \cap {"ballooned", "hostSwapped"} # {}, Found("WARN", "VMware"))
       \cup When(v.memLimit > 0, LimitInsight(v.ram > 0, v.memLimit, v.ram))
       \cup When(v.cpuLimit > 0,
                 LimitInsight(v.cpus > 0 /\ v.mhz \in 500..10000, v.cpuLimit, v.cpus * v.mhz))

\* tools: "presumed" where they run as far as is known.
CheckVMware(v) ==
  Recognised(
    When(v.tools \in {"missing", "stopped"}, Found("WARN", "VMware"))
    \cup When(v.tools = "presumed", Unread("VMware"))
    \cup When(v.flags \cap {"emulatedNICs", "lowSCSITimeouts", "noStableIDs", "ringErrors"} # {},
              Found("WARN", "VMware"))
    \cup VMwareResources(v)
    \cup When(v.tools \in {"running", "presumed"} /\ "statUnread" \in v.flags, Unread("VMware")),
    "VMware")

-------------------------------------------------------------------------------
(* Proxmox *)

PVECluster(p) ==
  When("noQuorum" \in p.flags \/ "nodeOffline" \in p.flags, Found("CRIT", "PVE"))
  \cup (IF "fencingFailed" \in p.flags THEN {Found("CRIT", "PVE")}
        ELSE When("fencingUnread" \in p.flags, Unread("PVE")))
  \cup When("mixedVersions" \in p.flags, Found("WARN", "PVE"))

\* storages: disabled, down, or how full.
PVEStorage(p) ==
  When("storagesUnread" \in p.flags, Unread("PVE"))
  \cup UNION {IF s.state = "disabled" THEN {Found("INFO", "PVE")}
              ELSE IF s.state = "down" THEN {Found("CRIT", "PVE")}
              ELSE LevelPct("PVE", s.used, 80, 90) : s \in p.storages}

\* age: days since the last good backup of any guest, and guests the same for each;
\* negative for never.  The archives on disk answer for tasks that could not be
\* listed.
PVEBackups(p) ==
  IF "backupsUnread" \in p.flags /\ p.age < 0 /\ p.guests = {} THEN {Unread("PVE")}
  ELSE When("guestsUnread" \in p.flags, Unread("PVE"))
       \cup When(p.age < 0 /\ p.guests # {}, Found("CRIT", "PVE"))
       \cup When(\/ p.age > 7 \/ "backupFailed" \in p.flags
                 \/ p.age >= 0 /\ \E days \in p.guests : days < 0 \/ days > 7,
                 Found("WARN", "PVE"))

PVETasks(p) ==
  IF "taskErrors" \in p.flags THEN {Found("WARN", "PVE")}
  ELSE When("tasksUnread" \in p.flags, Unread("PVE"))

PVESubscription(status) ==
  IF status \in {"notfound", ""} THEN {Found("WARN", "PVE")}
  ELSE IF status = "expired" THEN {Found("CRIT", "PVE")}
  ELSE When(status \notin {"active", "New"}, Unread("PVE"))

CheckPVE(p, host) ==
  IF "pveNeedsRoot" \in p.flags THEN {NeedsRoot("PVE", host)}
  ELSE IF "apiUnreachable" \in p.flags THEN {UnreadAt("WARN", "PVE")}
  ELSE PVESubscription(p.subscription) \cup PVECluster(p) \cup PVEStorage(p)
       \cup PVEBackups(p) \cup PVETasks(p)

===============================================================================
