---------------------------- MODULE HeuristicsNetwork ----------------------------
(***************************************************************************)
(* The checks of heuristics_network.go, heuristics_dns.go and              *)
(* heuristics_networkd.go: interfaces, reachability, name resolution, TCP  *)
(* counters, bonds, NFS mounts and the name server; and those of           *)
(* heuristics_security.go and heuristics_ssh.go: hardening, the firewall,  *)
(* failed logins and the audit daemon.                                     *)
(***************************************************************************)
EXTENDS Insights

-------------------------------------------------------------------------------
(* TCP counters since boot.  hours: uptime, 0 where unknown. *)

\* tcpCounterLevel: the rate decides, and without an uptime there is none.
RateLevel(count, hours, warn, crit) ==
  IF crit > 0 /\ hours > 0 /\ count >= crit * hours THEN "CRIT"
  ELSE IF hours > 0 /\ count >= warn * hours THEN "WARN" ELSE "INFO"

\* DeepTCPCounterLevel
Counter(count, floor, hours, warn, crit) ==
  When(count > floor, Found(RateLevel(count, hours, warn, crit), "Network"))

TCPCounters(net) ==
  Counter(net.synRetrans, 100, net.hours, 60, 0)
  \cup Counter(net.listenOverflows, 0, net.hours, 1, 10)
  \cup Counter(net.retransFails, 10, net.hours, 6, 0)

-------------------------------------------------------------------------------
(* Interfaces and reachability *)

\* signal: of a wireless interface in dBm, 0 where there is none; speed in Mbps,
\* 0 where unknown.
Interface(i, primary) ==
  (IF i.signal < -80 THEN {Found("CRIT", "Network")}
   ELSE When(i.signal < -70, Found("WARN", "Network")))
  \cup When(\/ i.name = primary /\ (i.speed \in 1..999 \/ "usb" \in i.flags)
            \/ "errorRateHigh" \in i.flags, Found("WARN", "Network"))

\* A bond that is not whole is left to the check of the bonds.
USBBond(bond) == "usbSlave" \in bond.flags /\ bond.flags \cap {"degraded", "allDown"} = {}

\* gateway, internet: ping in ms, negative when there was no answer.
Reachability(net) ==
  IF "primaryDown" \in net.flags THEN {Found("CRIT", "Network")}
  ELSE IF "probeDisabled" \in net.flags THEN {Found("INFO", "Network")}
  ELSE IF net.gateway < 0
  THEN {Found(IF net.internet < 0 THEN "CRIT" ELSE "INFO", "Network")}
  ELSE LevelPct("Network", net.gateway, 51, 201) \cup LevelPct("Network", net.loss, 10, 50)

Resolution(net) ==
  IF "probeDisabled" \in net.flags THEN {}
  ELSE IF "dnsFailed" \in net.flags THEN {Found("CRIT", "Network/DNS")}
  ELSE LevelPct("Network/DNS", net.resolve, 250, 500)

\* Without SteamOS's wireless settings.
CheckNetwork(net) ==
  (UNION {Interface(i, net.primary) : i \in net.interfaces})
  \cup When(\E bond \in net.bonds : USBBond(bond), Found("INFO", "Network"))
  \cup Reachability(net) \cup Resolution(net)
  \cup LevelPct("Network", net.closeWait, 101, 501)
  \cup LevelPct("Network", net.timeWait, 1000, 5000)
  \cup When(net.flags \cap {"interfacesUnreadable", "connectionsUnreadable",
                            "sockstatUnreadable", "netstatUnreadable"} # {}, Unread("Network"))
  \cup TCPCounters(net)
  \cup LevelPct("Network", net.conntrack, 60, 80)

\* checkBond.  slaves, down: how many interfaces it has, and how many are down.
Bond(bond) ==
  When(bond.slaves < 2 \/ "notAggregating" \in bond.flags, Found("WARN", "Bonding"))
  \cup (IF bond.down = 0 THEN When("usbSlave" \in bond.flags, Found("INFO", "Bonding"))
        ELSE {Found(IF bond.down = bond.slaves THEN "CRIT" ELSE "WARN", "Bonding"),
              Found("INFO", "Bonding")}
             \cup When("linkFailures" \in bond.flags, Found("WARN", "Bonding")))

CheckBonding(b) == UNION {Bond(bond) : bond \in b.bonds}

CheckVLAN(v) == When("down" \in v.states, Found("WARN", "VLAN"))

\* links: the state of each port.
CheckInfiniBand(ib) ==
  IF "portsUnread" \in ib.flags THEN {Unread("InfiniBand")}
  ELSE When(ib.links \ {"ACTIVE"} # {}, Found("WARN", "InfiniBand"))

-------------------------------------------------------------------------------
(* Name resolution *)

\* checkDNSConfigOnly
DNSConfig(d) ==
  When(d.flags \cap {"tooManyNameservers", "ipv6Only"} # {} \/ d.ndots > 3, Found("WARN", "DNS"))
  \cup When("duplicateNameserver" \in d.flags, Found("INFO", "DNS"))

\* checkDNSQuality: a loopback resolver is a fault only where nothing outside resolves.
DNSQuality(d) ==
  DNSConfig(d)
  \cup When("loopback" \in d.flags /\ "external" \notin d.flags, Found("WARN", "DNS"))

\* external, internal: such names resolve.
CheckDNS(d) ==
  LET external == "external" \in d.flags
      internal == "internal" \in d.flags
  IN IF "probeSkipped" \in d.flags THEN {Unread("DNS")} \cup DNSConfig(d)
     ELSE IF ~external /\ ~internal /\ "nameservers" \notin d.flags THEN {Found("CRIT", "DNS")}
     ELSE IF ~external /\ "managed" \in d.flags
     THEN IF internal THEN {Found("WARN", "DNS")} \cup DNSQuality(d) ELSE {Found("CRIT", "DNS")}
     ELSE DNSQuality(d)
          \cup (IF ~external THEN {}
                ELSE IF d.latency > 500 THEN {Found("WARN", "DNS")}
                ELSE When(d.latency > 200, Found("INFO", "DNS")))
          \cup When("publicFallback" \in d.flags, Found("INFO", "DNS"))

CheckNetworkdConfig(n) ==
  When("configDirUnreadable" \in n.flags, Unread("Networkd"))
  \cup When(n.flags \cap {"filesNotForNetworkd", "failedLinks", "stuckLinks"} # {},
            Found("WARN", "Networkd"))

\* A server that does not run answers for everything else about it.
CheckBIND(b) ==
  IF "active" \notin b.flags THEN {Found("CRIT", "BIND")}
  ELSE (IF "portsUnchecked" \in b.flags
             \/ {"ownersUnverified", "port53Missing"} \subseteq b.flags
        THEN {Unread("BIND")}
        ELSE When("port53Missing" \in b.flags, Found("WARN", "BIND")))
       \cup When(b.flags \cap {"configError", "zonesFailed"} # {}, Found("CRIT", "BIND"))
       \cup (IF "queryUntested" \in b.flags THEN {Unread("BIND")}
             ELSE When("noAnswer" \in b.flags, Found("CRIT", "BIND")))

-------------------------------------------------------------------------------
(* NFS *)

NFSMount(m) ==
  (IF m.state = "stale" THEN {Found("CRIT", "NFS")}
   ELSE When(m.state = "unhealthy", Found("WARN", "NFS")))
  \cup When("optionWarnings" \in m.flags, Found("WARN", "NFS"))

\* NFSRetransConcern and NFSHasV3Mount: a stale mount retransmits by itself, and
\* only protocol 3 needs rpcbind.
CheckNFS(nfs) ==
  (UNION {NFSMount(m) : m \in nfs.mounts})
  \cup When(\/ "retransmitting" \in nfs.flags /\ \A m \in nfs.mounts : m.state # "stale"
            \/ "rpcbind" \notin nfs.flags /\ \E m \in nfs.mounts : m.type # "nfs4",
            Found("WARN", "NFS"))
  \cup When("statsUnreadable" \in nfs.flags, Unread("NFS"))

-------------------------------------------------------------------------------
(* Hardening *)

\* What only root reads, and what could not be read at all
\* (checkSecurityAuditGaps).  sshd -T stands in for a configuration file that is
\* not readable.
AuditGaps(sec, host) ==
  When(sec.flags \cap {"auditNeedsRoot", "shadowUnreadable", "failedLoginsUnreadable",
                       "pamFailuresUnreadable"} # {}, NeedsRoot("Hardening", host))
  \cup When(\/ "sshConfigUnreadable" \in sec.flags /\ "sshAudited" \notin sec.flags
            \/ "selinuxEnforcing" \in sec.flags /\ "avcUnread" \in sec.flags
            \/ sec.flags \cap {"aideUnreadable", "supportconfigUnreadable"} # {},
            Unread("Hardening"))

\* A tester's distribution accepts what is a fault elsewhere.
SSHAccess(sec) ==
  LET tester == "offensive" \in sec.flags
  IN When("permitRoot" \in sec.flags,
          Found(IF tester \/ "pve" \in sec.flags THEN "INFO" ELSE "CRIT", "Hardening"))
     \cup When("passwordAuth" \in sec.flags,
               Found(IF tester THEN "INFO" ELSE "WARN", "Hardening"))
     \cup When(/\ ~tester
               /\ \/ sec.flags \cap {"x11Forwarding", "agentForwarding"} # {}
                  \/ "sshAudited" \in sec.flags /\ "aliveInterval" \notin sec.flags,
               Found("INFO", "Hardening"))

\* With checkSSHWeakCiphers, checkSSHWeakMACs, checkSSHWeakKEX; graceTime: more than
\* 60 seconds to log in.
SSHHardening(sec) ==
  SSHAccess(sec)
  \cup When(sec.flags \cap {"protocol1", "permitEmptyPasswords"} # {}, Found("CRIT", "Hardening"))
  \cup When(sec.flags \cap {"laxModes", "manyAuthTries", "weakCiphers", "weakMACs", "weakKEX"} # {},
            Found("WARN", "Hardening"))
  \cup When("graceTime" \in sec.flags, Found("INFO", "Hardening"))

\* exe: "system" for a known service started from a system directory; a process of
\* such a name from elsewhere is not one.
PortLevel(p, sec) ==
  IF "expected" \in p.flags THEN {}
  ELSE IF \/ "pve" \in sec.flags /\ p.number \in {8006, 3128, 111}
          \/ p.exe = "system"
  THEN {Found("INFO", "Hardening")}
  ELSE {Found("WARN", "Hardening")}

NetworkExposure(sec) ==
  (UNION {PortLevel(p, sec) : p \in sec.ports})
  \cup When(\E p \in sec.ports : p.number = 9090, Found("INFO", "Hardening"))
  \cup When("firewallWithoutSSH" \in sec.flags, Found("CRIT", "Hardening"))

PrivilegeVectors(sec) ==
  When("sudoNopasswd" \in sec.flags,
       Found(IF "offensive" \in sec.flags THEN "INFO" ELSE "WARN", "Hardening"))
  \cup When(sec.flags \cap {"suidBinaries", "suspectCrons"} # {}, Found("WARN", "Hardening"))
  \cup When("uid0Users" \in sec.flags, Found("CRIT", "Hardening"))

\* Denials and failures of SELinux, AppArmor and PAM.
AccessDenials(sec, host) ==
  When(sec.flags \cap {"avcDenials", "unlabeledPorts", "contextIssues", "pamFailures"} # {},
       Found("WARN", "Hardening"))
  \cup (IF "apparmorUnreadable" \in sec.flags THEN {NeedsRoot("Hardening", host)}
        ELSE When("apparmorDenials" \in sec.flags, Found("WARN", "Hardening")))

\* checkRHELSecurityHardening
RHELHardening(sec) ==
  When(\/ sec.flags \cap {"legacyCrypto", "noAuditRules"} # {}
       \/ /\ "aide" \in sec.flags
          /\ "aideDatabase" \notin sec.flags \/ "aideStale" \in sec.flags,
       Found("WARN", "Hardening"))

\* checkSUSESecurityHardening; days until the subscription expires, negative where
\* unknown.
SUSEHardening(sec) ==
  When("supportconfigStale" \in sec.flags, Found("INFO", "Hardening"))
  \cup (IF "registered" \notin sec.flags THEN {}
        ELSE IF sec.days < 0 THEN {Unread("Hardening")}
        ELSE IF sec.days <= 14 THEN {Found("CRIT", "Hardening")}
        ELSE When(sec.days <= 30, Found("WARN", "Hardening")))

\* checkMacOSHardening
MacOSHardening(sec) ==
  When("sipDisabled" \in sec.flags, Found("CRIT", "Hardening"))
  \cup When(sec.flags \cap {"noFileVault", "noGatekeeper"} # {}, Found("WARN", "Hardening"))

\* checkSecurity
CheckSecurity(sec, host) ==
  AuditGaps(sec, host) \cup SSHHardening(sec)
  \cup LevelPct("Hardening", sec.failedLogins, 5, 20)
  \cup NetworkExposure(sec) \cup PrivilegeVectors(sec) \cup AccessDenials(sec, host)
  \cup RHELHardening(sec) \cup SUSEHardening(sec) \cup MacOSHardening(sec)
  \cup When(sec.flags \cap {"emptyPasswords", "worldWritable"} # {}, Found("CRIT", "Hardening"))
  \cup When("stalePasswords" \in sec.flags, Found("WARN", "Hardening"))

-------------------------------------------------------------------------------
(* Firewall, logins, audit *)

\* state: of the host's own firewall, "none" where the tool is not available.
CheckFirewall(f, host) ==
  IF "pveFirewall" \in f.flags /\ f.state # "filtering" THEN {Found("INFO", "Firewall")}
  ELSE IF f.state = "none"
  THEN IF "rulesNeedRoot" \in f.flags THEN {NeedsRoot("Firewall", host)}
       ELSE When("stateUnverified" \in f.flags, Unread("Firewall"))
  ELSE IF f.state \in {"inactive", "empty"}
  THEN {Found(IF "cloudGuest" \in f.flags THEN "INFO" ELSE "WARN", "Firewall")}
  ELSE When("blockedListeners" \in f.flags, Found("WARN", "Firewall"))

\* A key-only server cannot be broken into by guessing.
CheckAuth(a) ==
  LET noGuess == "configChecked" \in a.flags /\ "passwords" \notin a.flags
      noRootGuess == "configChecked" \in a.flags /\ ~({"passwords", "rootPasswords"} \subseteq a.flags)
  IN IF "logUnread" \in a.flags THEN {Unread("Auth")}
     ELSE IF a.failed = 0 THEN {}
     ELSE (IF a.failed > 1000 THEN {Found(IF noGuess THEN "INFO" ELSE "WARN", "Auth")}
           ELSE When(a.failed > 100, Found("INFO", "Auth")))
          \cup When("rootAttempts" \in a.flags,
                    Found(IF noRootGuess THEN "INFO" ELSE "WARN", "Auth"))

CheckAuditd(a, host) ==
  When("running" \notin a.flags, Found("WARN", "Auditd"))
  \cup When(a.flags \cap {"auditRulesUnreadable", "eventsUnreadable", "auditLogUnreadable"} # {},
            NeedsRoot("Auditd", host))
  \cup When("largeLog" \in a.flags /\ "auditLogUnreadable" \notin a.flags, Found("WARN", "Auditd"))

===============================================================================
