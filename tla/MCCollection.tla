------------------------------ MODULE MCCollection ------------------------------
(* For every collector a healthy host, each thing that may be otherwise on its *)
(* own and any two of them; nothing lost, one source, or every one whose loss is *)
(* told.  A file is lost when it is refused, a command when it fails.          *)
EXTENDS Collection, TLC

None == [s \in {} |-> {}]
Tells(source, words) == [says |-> source :> words, num |-> None, absent |-> {}]
Counts(source, n) == [says |-> None, num |-> source :> n, absent |-> {}]
Lacks(sources) == [says |-> None, num |-> None, absent |-> sources]

\* h with another thing said of it, which a source it did not have now says.
With(h, c) ==
  [says |-> c.says @@ h.says, num |-> c.num @@ h.num,
   absent |-> (h.absent \ (DOMAIN c.says \cup DOMAIN c.num)) \cup c.absent]
RECURSIVE HostWith(_)
HostWith(changes) ==
  IF changes = {} THEN [says |-> None, num |-> None, absent |-> {}]
  ELSE LET c == CHOOSE c \in changes : TRUE IN With(HostWith(changes \ {c}), c)

\* A base and its changes; files that may be refused, and what may only fail.
Subject(base, changes, files, commands) ==
  [base |-> HostWith(base), changes |-> changes, files |-> files, commands |-> commands]
EachOf(source, sayings) == {Tells(source, words) : words \in sayings}

-------------------------------------------------------------------------------
Logs ==
  Subject({Tells("journald.conf", {"persistent", "SystemMaxUse", "SyncIntervalSec"})},
    EachOf("/dev/kmsg", {{"oomKills"}, {"segfaults"}, {"nvmeTimeouts"}, {"softLockups"}})
    \cup EachOf("systemctl list-units", {{"failed"}, {"failed", "looping"}})
    \cup EachOf("journald.conf", {{}, {"lowRateLimit", "persistent"}})
    \cup EachOf("os-release", {{"nixos"}})
    \cup EachOf("systemctl is-active", {{"syslogd"}})
    \cup EachOf("/var/log/journal", {{"archived"}})
    \cup EachOf("journalctl --verify", {{"FAIL"}})
    \cup EachOf("/var/crash", {{"core"}}) \cup EachOf("/sys/fs/pstore", {{"panic"}})
    \cup EachOf("systemd-detect-virt", {{"vm"}})
    \cup {Counts("/run/log/journal", 3), Counts("/var/log/journal", 6),
          Counts("statfs /var/log", 95), Counts("journalctl -p err", 60),
          Counts("/var/log/syslog", 60),
          Lacks({"systemd", "systemctl list-units", "systemctl show", "systemctl is-active"})}
    \cup {Lacks({s}) : s \in {"/var/log/journal", "/var/log/syslog",
                              "/run/systemd/journal/socket"}},
    {"/dev/kmsg", "/var/log/journal", "/run/log/journal", "/var/crash", "/sys/fs/pstore",
     "journald.conf", "/var/log/syslog"},
    {"/proc/uptime", "systemctl list-units", "systemctl show", "os-release",
     "systemctl is-active", "journalctl --verify", "systemd-detect-virt", "statfs /var/log",
     "journalctl -p err"})

Packages ==
  Subject({Tells("tdnf repolist", {"repos"}), Tells("/etc/apt/sources", {"security"}),
           Tells("zypper repos", {"updates"}), Tells("asked", {"deep"}),
           Lacks({"zypper", "tdnf", "apt", "SUSEConnect"})},
    EachOf("apt", {{}}) \cup EachOf("zypper", {{}})
    \cup {Lacks({"dnf"}), With(Lacks({"dnf"}), Tells("tdnf", {}))}
    \cup EachOf("dpkg --audit", {{"interrupted"}}) \cup {Lacks({"rpm -q rpm"})}
    \cup EachOf("dnf repolist", {{"no repos"}}) \cup EachOf("tdnf repolist", {{}})
    \cup EachOf("tdnf updateinfo", {{"important"}})
    \cup {With(Tells("dnf advisory", {x}), Tells("dnf updateinfo", {x})) :
             x \in {"critical", "moderate"}}
    \cup EachOf("os-release", {{"kali"}}) \cup EachOf("/etc/apt/sources", {{}})
    \cup EachOf("apt-get -s upgrade", {{"others"}, {"important"}})
    \cup EachOf("zypper list-patches", {{"important"}}) \cup EachOf("zypper repos", {{}})
    \cup EachOf("SUSEConnect", {{"registered"}, {"notRegistered"}, {"expired", "registered"}})
    \cup EachOf("metadata", {{"old"}})
    \cup EachOf("zypper search", {{"grub"}}) \cup EachOf("zypper locks", {{"grub locked"}})
    \cup EachOf("/boot", {{"newer kernel"}}) \cup EachOf("pro security-status", {{"esm"}})
    \cup EachOf("dnf check", {{"broken"}}) \cup EachOf("rpm --verify", {{"verifyFailed"}})
    \cup EachOf("apt-get check", {{"unmetDeps"}}) \cup EachOf("zypper verify", {{"locked"}})
    \cup EachOf("readelf", {{"missingLibs"}}),
    {"metadata", "/etc/apt/sources", "/boot", "rpm -q rpm"},
    {"zypper", "dnf", "apt", "dpkg --audit", "dnf repolist", "dnf advisory", "dnf updateinfo",
     "tdnf repolist", "tdnf updateinfo", "apt-get -s upgrade", "zypper list-patches",
     "zypper repos", "SUSEConnect", "zypper search", "zypper locks", "dnf check", "rpm --verify",
     "apt-get check", "dpkg --audit, deep", "zypper verify", "ldconfig -p", "readelf",
     "pro security-status", "os-release"})

Docker ==
  Subject({Tells("socket", {"docker"}), Tells("/containers/json", {"containers"}),
           Lacks({"podman", "docker-compose"})},
    EachOf("socket", {{"podman"}}) \cup EachOf("podman", {{}}) \cup EachOf("docker-compose", {{}})
    \cup {Lacks({"socket"}), Lacks({"docker --version"}), Counts("/containers/ID/json", 9)}
    \cup EachOf("/etc/containers/systemd", {{"unit"}})
    \cup EachOf("/root/.config/containers", {{"unit"}})
    \cup EachOf("systemctl show", {{"failed"}, {"active"}})
    \cup EachOf("/containers/ID/json", {{x} : x \in {"crashLooping", "unhealthy", "plaintextSecrets",
                                                   "socketMounted", "runsAsRoot", "noMaxSize"}})
    \cup EachOf("/events", {{"oom"}}) \cup EachOf("/images/json", {{"dangling"}})
    \cup EachOf("/images/NAME/json", {{"otherArch"}}) \cup EachOf("/info", {{"devicemapper"}, {"ownDNS"}})
    \cup EachOf("journalctl -u docker", {{"error"}})
    \cup EachOf("systemctl is-active firewalld", {{"active"}})
    \cup EachOf("firewall-cmd", {{"docker0"}}) \cup EachOf("firewalld.conf", {{"iptables"}})
    \cup EachOf("ip_forward", {{"off"}}) \cup EachOf("/networks", {{"largeMTU"}})
    \cup EachOf("resolv.conf", {{"loopback"}}) \cup EachOf("daemon.json", {{"otherDriver"}})
    \cup EachOf("/var/lib/docker/containers", {{"large"}}),
    {"socket", "/etc/containers/systemd", "/root/.config/containers", "firewalld.conf",
     "ip_forward", "/sys/class/net", "resolv.conf", "daemon.json", "/var/lib/docker/containers"},
    {"socket", "docker --version", "systemctl show", "/containers/json", "/containers/ID/json", "/events",
     "/images/json", "/images/NAME/json", "/info", "/networks", "journalctl -u docker",
     "systemctl is-active firewalld", "firewall-cmd", "docker-compose"})

Pod(stage, waiting, ready, restarts, initWaiting) ==
  [phase |-> stage, waiting |-> waiting, containers |-> 2, ready |-> ready,
   restarts |-> restarts, initWaiting |-> initWaiting, terminating |-> FALSE]
KubeNode(ready, conditions) == [ready |-> ready, conditions |-> conditions]
Running == Pod("Running", "", 2, 0, "")
ServersUp == {"kubelet", "containerd"}
K8s ==
  Subject({Tells("systemctl is-active", ServersUp), Tells("nft list tables", {"kube"}),
           Tells("get nodes", {KubeNode("True", {})}), Tells("get pods", {Running}),
           Tells("get pvc", {"Bound"}), Tells("/etc/kubernetes/pki", {9000}),
           Counts("iptables-save", 5), Counts("ipvsadm", 3),
           Lacks({"k3s/agent/etc/cni/net.d", "k3s/data/current/bin", "k3s/server/tls"})},
    EachOf("get nodes", {{KubeNode("False", {})}, {KubeNode("", {}), KubeNode("True", {"DiskPressure"})}})
    \cup EachOf("get pods", {{Running, p} :
         p \in {Pod("Running", "CrashLoopBackOff", 0, 4, "CrashLoopBackOff"), Pod("Pending", "", 0, 0, ""),
                Pod("Pending", "PodInitializing", 0, 0, "Error"), Pod("Unknown", "", 0, 0, ""),
                Pod("Running", "", 0, 0, ""), Pod("Running", "", 1, 12, ""), Pod("Running", "", 2, 12, ""),
                [Running EXCEPT !.terminating = TRUE]}})
    \cup EachOf("get events", {{900}, {-1}, {60, 900}}) \cup EachOf("get pvc", {{"Bound", "Pending"}})
    \cup UNION {EachOf(kind, {{[ready |-> 1, desired |-> 2]}}) : kind \in WorkloadKinds}
    \cup EachOf("systemctl is-active", {{}, {"kubelet"}, {"k3s-agent"}, ServersUp \cup {"firewalld"}})
    \cup {Lacks({s}) : s \in {"kubectl", "distribution", "containerd.sock", "subnet.env"} \cup ConfDirs
                              \cup PluginDirs \cup CertDirs}
    \cup EachOf("journalctl -u kubelet", {{"kubelet"}, {"k3s-agent"}})
    \cup UNION {EachOf(d, {{"flannel"}, {"flannel inside"}}) : d \in ConfDirs}
    \cup UNION {EachOf(d, {{}, {"empty"}}) : d \in PluginDirs}
    \cup UNION {EachOf(d, {{-50}, {-5}, {100}}) : d \in CertDirs}
    \cup EachOf("nft list tables", {{}}) \cup EachOf("iptables -L", {{"KUBE-FORWARD"}})
    \cup EachOf("get kube-proxy", {{"proxy"}}) \cup {Counts("iptables-save", 0), Counts("ipvsadm", 0)}
    \cup EachOf("logs kube-proxy", {{"ipvs"}}) \cup EachOf("firewall-cmd", {{"yes"}})
    \cup EachOf("ip_forward", {{"off"}}),
    {"conflist", "*.crt", "ip_forward"} \cup ConfDirs \cup PluginDirs \cup CertDirs,
    {"get nodes", "get pods", "get events", "get pvc", "systemctl is-active",
     "journalctl -u kubelet", "nft list tables", "iptables -L", "get kube-proxy", "iptables-save",
     "ipvsadm", "logs kube-proxy", "firewall-cmd"} \cup WorkloadKinds)

PVE ==
  Subject({Counts("vzdump archives", 1), Counts("vzdump logs", 1), Counts("pvesh vzdump", 1),
           Tells("pvesh guests", {"guest"}), Tells("pve.conf", {"login"})},
    EachOf("pvesh subscription", {{"expired"}, {"none"}}) \cup EachOf("pve.conf", {{}})
    \cup {Lacks({"pve.conf"}), Lacks({"pvesh ha"}), Counts("pvesh storage", 95),
          Counts("vzdump archives", 9), Counts("vzdump archives", -1), Counts("vzdump logs", -1),
          Counts("pvesh vzdump", 9), Counts("pvesh vzdump", -1)}
    \cup EachOf("pvesh cluster", {{"noQuorum"}, {"nodeOffline"}, {"mixedVersions"}})
    \cup EachOf("pvesh ha", {{"fence"}}) \cup EachOf("pvesh storage", {{"down"}})
    \cup EachOf("pvesh guests", {{}}) \cup EachOf("pvesh vzdump", {{"failed"}})
    \cup EachOf("pvesh tasks", {{"error"}}),
    {"pve.conf", "vzdump archives", "vzdump logs"},
    {"pvesh subscription", "pvesh cluster", "pvesh ha", "pvesh storage", "pvesh guests",
     "pvesh vzdump", "pvesh tasks"})

Test(name, version) == [name |-> name, version |-> version, test |-> "less than"]
Definition(class, cve, score, tests) ==
  [class |-> class, cves |-> {cve}, score |-> score, state |-> "affected", tests |-> tests]
FeedOf(vendor, definitions) == [vendor |-> vendor, definitions |-> definitions]
Vim == Test("vim", 5)
Feeds ==
  {FeedOf("suse", <<Definition("patch", AskedCVE, 50, {Test("vim", 3)})>>),
   FeedOf("suse", <<Definition("vulnerability", LongerCVE, 95, {Vim, Test("SLES-release", 9)})>>),
   FeedOf("suse", <<Definition("vulnerability", AskedCVE, 95, {[Vim EXCEPT !.test = "equals"]}),
                    Definition("patch", AskedCVE, 80, {Test("SLES-release", 9)})>>),
   FeedOf("suse", <<Definition("vulnerability", AskedCVE, 95, {Vim}), Definition("patch", AskedCVE, 50, {Vim})>>),
   FeedOf("ubuntu", <<Definition("vulnerability", AskedCVE, 80, {Test("vim", 0)})>>),
   FeedOf("ubuntu", <<Definition("vulnerability", LongerCVE, 95, {Test("vim", 4)}),
                      Definition("vulnerability", AskedCVE, 20, {Vim})>>),
   FeedOf("rhel", <<Definition("vulnerability", AskedCVE, 70, {Vim}),
                    [Definition("vulnerability", AskedCVE, 90, {Vim}) EXCEPT !.state = "will not fix"]>>),
   FeedOf("rhel", <<Definition("patch", LongerCVE, 95, {Vim}), Definition("vulnerability", AskedCVE, 90, {Test("nano", 9), Test("vim", 1)})>>),
   FeedOf("rhel", <<>>)}
Managers == {"zypper", "dnf", "apt-get", "pacman", "tdnf"}
OnlyManager(m) == Lacks(Managers \ {m})
VimAt4 == {[name |-> "vim", version |-> 4]}
Patch(rating, status) == [id |-> "patch", category |-> "security", rating |-> rating, status |-> status]
Upgrade(part, security) == [package |-> part, parts |-> {part}, security |-> security]
Update(complete) == [id |-> "PHSA", complete |-> complete]

CVE ==
  Subject({Lacks(Managers \ {"dnf"}), Tells("tdnf -j repolist", {"enabled"}), Tells("tdnf repolist", {"enabled"}),
           Tells("zypper message", {"no patches"}), Tells("rpm -qa", VimAt4), Tells("dpkg-query", VimAt4),
           Tells("kev catalog", {AskedCVE})},
    {With(OnlyManager(m), Tells(m, {})) : m \in Managers} \cup {Lacks(Managers)}
    \cup {With(Tells("zypper list-patches", {p}), Tells("zypper message", {})) :
             p \in {Patch("critical", "needed"), Patch("unspecified", "needed"), Patch("important", "applied")}}
    \cup {Counts("zypp lock", n) : n \in {4, 5}}
    \cup {With(Tells("dnf advisory list", {Advisory("RHSA", x, {})}),
               Tells("dnf updateinfo list", {Advisory("RHSA", x, {})})) : x \in {"critical", "none"}}
    \cup UNION {EachOf(query, {{Advisory(id, "", {AskedCVE})} : id \in {"RHSA", "PHSA"}}) :
                  query \in {"dnf updateinfo info", "tdnf updateinfo info"}}
    \cup {With(Tells("apt-get -s upgrade", {u}), Tells("apt-get -s dist-upgrade", {u})) :
             u \in {Upgrade("openssl", TRUE), Upgrade("vim", TRUE), Upgrade("openssl", FALSE)}}
    \cup EachOf("arch-audit", {{Advisory("vim", "medium", {AskedCVE})}, {Advisory("vim", "high", {LongerCVE})}})
    \cup {Lacks({"arch-audit"}), Tells("tdnf -j repolist", {}), Tells("tdnf repolist", {})}
    \cup {With(Tells("tdnf -j updateinfo list", {Update(complete)}), Tells("tdnf updateinfo list", {Update(TRUE)})) :
             complete \in BOOLEAN}
    \cup EachOf("metadata", {{"old"}}) \cup {Lacks({"metadata"}), Lacks({"kev catalog"})}
    \cup {Tells("oval feed", {f}) : f \in Feeds},
    {"metadata", "kev catalog", "oval feed"},
    {"zypper list-patches", "dnf advisory list", "dnf updateinfo list", "dnf updateinfo info",
     "apt-get -s upgrade", "apt-get -s dist-upgrade", "arch-audit", "tdnf -j repolist", "tdnf repolist",
     "tdnf -j updateinfo list", "tdnf updateinfo list", "tdnf updateinfo info", "rpm -qa", "dpkg-query"})

SnapshotEntry(cve, affected) == [cve |-> cve, affected |-> affected]
CVELookup ==
  Subject({Lacks(Managers \ {"dnf"}), Tells("os-release", {"fedora"}), Tells("rpm -qa", VimAt4),
           Tells("dpkg-query", VimAt4)},
    {With(OnlyManager(m), Tells(m, {})) : m \in Managers} \cup {Lacks(Managers), Lacks({"debsecan"})}
    \cup EachOf("zypper lp", {{Patch("critical", "needed")}, {Patch("critical", "applied")}})
    \cup EachOf("zypper message", {{"no patches"}})
    \cup EachOf("debsecan", {{"package"}, {"comment"}})
    \cup UNION {EachOf(q, {{Advisory("vim", "high", {AskedCVE})}, {Advisory("vim", "high", {LongerCVE})},
                           {Advisory("vim", "high", {"another"})}}) : q \in {"arch-audit", "tdnf updateinfo info"}}
    \cup {With(Tells("dnf advisory info", {x}), Tells("dnf updateinfo info --cve", {x})) :
             x \in {"packages", "long text", "short text"}}
    \cup EachOf("kev catalog", {{AskedCVE}, {LongerCVE}})
    \cup {Counts("Red Hat API", n) : n \in {89, 90}} \cup EachOf("network policy", {{"off"}})
    \cup {Tells("os-release", {id}) : id \in {"sles", "rhel", "debian"}}
    \cup EachOf("snapshot", {{SnapshotEntry(LongerCVE, "fedora:44" :> {Vim})}, {SnapshotEntry(AskedCVE, "rhel:10" :> {Vim})},
                             {SnapshotEntry(AskedCVE, "fedora:44" :> {Test("vim", 4)})},
                             {SnapshotEntry(AskedCVE, "fedora:44" :> {Vim})}})
    \cup {Tells("oval feed", {f}) : f \in Feeds},
    {"kev catalog", "oval feed", "snapshot", "os-release"},
    {"zypper lp", "dnf advisory info", "dnf updateinfo info --cve", "debsecan", "arch-audit",
     "tdnf updateinfo info", "Red Hat API", "rpm -qa", "dpkg-query"})

Rule(target, proto, ports, conns) ==
  [target |-> target, proto |-> proto, ports |-> ports, conns |-> conns, loopback |-> FALSE]
DropPolicy == Rule("policy drop", "", {}, "")
Established == Rule("accept", "", {}, "established")
SSHAccepted == Rule("accept", "tcp", {<<22, 22>>}, "")
RuleSets ==
  {{}, {SSHAccepted}, {DropPolicy}, {DropPolicy, SSHAccepted, Rule("jump", "", {}, "")},
   {DropPolicy, Rule("accept", "tcp", {<<30000, 32767>>}, "")},
   {DropPolicy, Rule("accept", "udp", {<<22, 22>>}, "")}, {DropPolicy, Rule("accept", "tcp", {}, "")},
   {DropPolicy, [Rule("accept", "", {}, "") EXCEPT !.loopback = TRUE]}}

Firewall ==
  Subject({With(Tells("nft list ruleset", {DropPolicy, SSHAccepted, Established}),
                With(Tells("/proc/net/tcp", {22}), Tells("iptables -L", {DropPolicy, SSHAccepted})))},
    {Lacks({"nft"}), Lacks({"nft", "iptables"}), Tells("DMI", {"cloud"})}
    \cup EachOf("nft list ruleset", RuleSets) \cup EachOf("iptables -L", RuleSets)
    \cup EachOf("/proc/net/tcp", {{}, {22, 8080}, {22, 30500}, {31500}})
    \cup EachOf("systemctl is-active pve-firewall", {{"active"}}),
    {"/proc/net/tcp", "DMI"},
    {"nft list ruleset", "iptables -L", "iptables -nvL INPUT", "systemctl is-active pve-firewall"})

Job(command) == [command |-> command, shorthand |-> FALSE]
Cron ==
  Subject({Tells("systemctl is-active cron", {"active"}), Lacks({"/var/log/cron"})},
    EachOf("systemctl is-active cron", {{}}) \cup EachOf("/proc", {{"cron"}})
    \cup EachOf("systemctl list-timers", {{"timers"}})
    \cup UNION {EachOf(tab, {{Job("relative")}, {Job("relative"), Job("PATH")}, {Job("missing")},
                            {[Job("missing") EXCEPT !.shorthand = TRUE]}}) : tab \in Crontabs}
    \cup UNION {EachOf(log, {{"failed"}}) :
                  log \in {"journalctl -u cron", "/var/log/cron", "/var/log/cron.log", "/var/log/syslog"}}
    \cup {Lacks({"anacron"}), Lacks({"anacron weekly"}), Lacks({"/var/log/cron.log"}),
          Lacks({"/var/log/cron.log", "/var/log/syslog"}),
          Counts("anacron daily", 49), Counts("anacron daily", 48), Counts("anacron monthly", 900)},
    {"/proc", "/etc/cron.d", "crontabs", "/var/log/cron", "/var/log/cron.log", "/var/log/syslog",
     "anacron daily", "anacron weekly", "anacron monthly"},
    {"systemctl is-active cron", "systemctl list-timers", "journalctl -u cron"})

KernelSec ==
  Subject({Lacks({"/sys/fs/selinux", "/sys/fs/selinux/enforce", "getenforce", "/etc/selinux/config",
                  "/.autorelabel", "/usr/bin/dpkg", "dpkg -s policy"}),
           Tells("apparmor enabled", {"Y"}), Tells("apparmor profiles", {"enforce"})},
    {With(Tells("/sys/fs/selinux/enforce", {mode}),
          With(Tells("/etc/selinux/config", {"SELINUXTYPE"}), Tells("/sys/fs/selinux", {}))) :
       mode \in {"0", "1"}}
    \cup {With(Tells("getenforce", {mode}), Tells("/sys/fs/selinux", {})) :
             mode \in {"enforcing", "disabled"}}
    \cup EachOf("/etc/selinux/config", {{"SELINUXTYPE"}, {"SELINUXTYPE", "otherType"}})
    \cup {Tells("/sys/fs/selinux", {}), Tells("/.autorelabel", {}), Lacks({"/etc/selinux/TYPE"}),
          Lacks({"/usr/bin/rpm", "rpm -q policy"}), Lacks({"audit.log"})}
    \cup EachOf("rpm -q policy", {{"notInstalled"}}) \cup EachOf("dpkg -s policy", {{"installed"}})
    \cup EachOf("apparmor enabled", {{}})
    \cup EachOf("apparmor profiles", {{}, {"complain"}, {"complain", "enforce"}})
    \cup EachOf("audit.log", {{"longLine"}, {"apparmor"}}) \cup {Counts("audit.log", 3)}
    \cup {Counts("ausearch", 20), Counts("journalctl", 3)}
    \cup {Tells("dmesg", {"apparmor"}),
          With(Tells("dmesg --since", {"apparmor"}), Tells("dmesg", {"apparmor"}))},
    {"/sys/fs/selinux/enforce", "/etc/selinux/config", "apparmor enabled", "apparmor profiles",
     "audit.log"},
    {"getenforce", "ausearch", "journalctl", "dmesg --since", "dmesg", "rpm -q policy",
     "dpkg -s policy"})

SSHD(key, word) == [key |-> key, word |-> word, number |-> 0]
SSHDTo(key, n) == [key |-> key, word |-> "", number |-> n]
SafeSSH == <<SSHD("passwordauthentication", "no"), SSHD("allowagentforwarding", "no"),
             SSHDTo("clientaliveinterval", 300)>>
\* The daemon says what the file says; it takes the first line of a key.
Configured(lines) == With(Tells("sshd -T", {lines}), Tells("sshd_config", {lines}))
LoginFailures(count, hours, flags) ==
  [what |-> "login", count |-> count, hours |-> hours, flags |-> flags]
PAMFailure(hours) == [what |-> "pam", count |-> 1, hours |-> hours, flags |-> {"zoned"}]
UFWRule(action, service, ports) == [action |-> action, service |-> service, ports |-> ports]
UFWOn == UFWRule("active", FALSE, {})
Account(name, uid) == [name |-> name, uid |-> uid]
Secret(name, empty, days) == [name |-> name, empty |-> empty, days |-> days]
Grant(user, commands) == [user |-> user, commands |-> commands, nopasswd |-> TRUE]
Product(registered, days) == [registered |-> registered, days |-> days]
\* Of one that enforces.
DenialsOf(n, searched) ==
  With(With(Counts("audit.log", n), Counts("ausearch", searched)),
       With(Tells("paths of audit.log", {"/srv/a"}), Tells("/sys/fs/selinux/enforce", {"1"})))
AIDEWith(h) == With(Tells("aide", {}), h)
ContextBy(source, type) == Tells(source, {<<"/srv/a", type>>})
\* Another user's run is one that has lost the descriptors of the processes.
Hardening ==
  Subject({Configured(SafeSSH), Tells("auditctl -l", {"rules"}),
           Tells("SUSEConnect --status", {<<Product(TRUE, 300)>>}), Tells("/var/log archives", {3}),
           Tells("/proc/net/tcp", {22}), Tells("semanage port", {<<20, 30>>}),
           Tells("/etc/passwd", {Account("root", 0), Account("ann", 1000)}),
           Tells("/etc/shadow", {Secret("ann", FALSE, 90)}), ContextBy("matchpathcon", "web"),
           ContextBy("ls -dZ", "web"),
           Lacks({"/etc/pve", "/var/log/auth.log", "/sys/fs/selinux/enforce", "aide"})},
    {Configured(SafeSSH \o <<line>>) :
       line \in {SSHD("permitrootlogin", "yes"), SSHD("strictmodes", "no"), SSHDTo("port", 2222),
                SSHDTo("maxauthtries", 10), SSHDTo("protocol", 1)}}
    \cup {Configured(<<SSHD("passwordauthentication", "yes"), SafeSSH[2], SafeSSH[3]>>),
          Configured(SafeSSH \o <<SSHD("match", "user"), SSHD("permitrootlogin", "yes")>>),
          With(Tells("sshd -T", {SafeSSH \o <<SSHD("x11forwarding", "yes")>>}),
               Tells("sshd_config.d", {<<SSHD("x11forwarding", "yes")>>})),
          Lacks({"sshd -T", "sshd_config", "sshd_config.d"})}
    \cup {With(Tells("journalctl _COMM=sshd", {LoginFailures(25, h, {"zoned"})}),
               Tells("/var/log/secure", {LoginFailures(25, h, f)})) :
             h \in {0, 2}, f \in {{"zoned"}, {}, {"zoned", "outOfReach"}}}
    \cup {Counts("/etc/localtime", 2), Lacks({"/var/log/secure"})}
    \cup {With(Tells("journalctl -g pam_unix", {PAMFailure(h)}), Tells("/var/log/secure", {PAMFailure(h)})) :
             h \in {1, 30}}
    \cup EachOf("/etc/passwd", {{Account("root", 0), Account("toor", 0)}}) \cup EachOf("crontabs", {{"suspect"}})
    \cup EachOf("/etc/shadow", {{Secret("ann", TRUE, 90)}, {Secret("ann", FALSE, 99999)}, {Secret("daemon", FALSE, 0)}})
    \cup EachOf("/tmp", {{"all may write"}}) \cup EachOf("/dev/shm", {{"all may write"}})
    \cup EachOf("sudoers", {{Grant("ann", "ALL")}, {Grant("ALL", "reboot")}}) \cup EachOf("sudoers.d", {{Grant("ann", "reboot")}})
    \cup EachOf("/proc/net/tcp", {{22, 5432}}) \cup EachOf("/proc/net/tcp6", {{22}}) \cup EachOf("/proc fds", {{5432}})
    \cup EachOf("firewall-cmd --state", {{"running"}})
    \cup EachOf("firewall-cmd --list-services", {{"ssh"}})
    \cup EachOf("firewall-cmd --list-ports", {{22}, {8022}})
    \cup EachOf("ufw status", {{UFWOn, UFWRule("allow", TRUE, {})}, {UFWOn, UFWRule("deny", FALSE, {22})}})
    \cup EachOf("nft list ruleset", {{DropPolicy}, {DropPolicy, SSHAccepted},
                                   {DropPolicy, Rule("accept", "tcp", {<<20, 30>>}, "")}})
    \cup EachOf("iptables -L", {{SSHAccepted}, {Rule("drop", "tcp", {<<22, 22>>}, "")}})
    \cup EachOf("/sys/fs/selinux/enforce", {{"0"}, {"1"}})
    \cup {DenialsOf(3, 3), DenialsOf(10, 0), With(DenialsOf(3, 10), Tells("audit.log", {"longLine"}))}
    \cup EachOf("semanage port", {{<<80, 80>>}}) \cup {ContextBy("ls -dZ", "home")}
    \cup {With(ContextBy("ls -dZ", "home"), ContextBy("semanage fcontext", "home"))} \cup EachOf("auditctl -l", {{}})
    \cup {With(Tells("apparmor enabled", {"Y"}), Tells("apparmor profiles", p)) : p \in {{}, {"enforce"}}}
    \cup EachOf("journalctl -g apparmor", {{"denied"}})
    \cup EachOf("crypto-policies/config", {{"LEGACY"}})
    \cup EachOf("update-crypto-policies --show", {{"LEGACY"}})
    \cup {AIDEWith(h) : h \in {Counts("aide.db", 8), Counts("aide.db.gz", 8),
                               Lacks({"aide.db", "aide.db.gz", "aide.db.new"})}}
    \cup EachOf("/var/log archives", {{}, {40}}) \cup EachOf("/tmp archives", {{5}}) \cup {Lacks({"supportconfig"})}
    \cup EachOf("SUSEConnect --status", {{<<Product(TRUE, d)>>} : d \in {-1, 0, 20}}
                                        \cup {{<<Product(TRUE, 20), Product(TRUE, 300)>>}, {<<Product(FALSE, 20)>>}})
    \cup EachOf("os-release", {{"kali"}}) \cup {Tells("/etc/pve", {})},
    {"sshd_config", "sshd_config.d", "/var/log/secure", "/var/log/auth.log", "/etc/passwd",
     "crontabs", "/etc/shadow", "/tmp", "/dev/shm", "sudoers", "sudoers.d", "/proc/net/tcp",
     "/proc/net/tcp6", "/proc fds", "/sys/fs/selinux/enforce", "audit.log", "apparmor profiles",
     "crypto-policies/config", "aide.db", "aide.db.gz", "aide.db.new", "/var/log archives",
     "/tmp archives", "os-release", "/etc/localtime"},
    {"sshd -T", "journalctl _COMM=sshd", "journalctl -g pam_unix", "firewall-cmd --state",
     "firewall-cmd --list-services", "firewall-cmd --list-ports", "ufw status", "nft list ruleset",
     "iptables -L", "ausearch", "semanage port", "semanage fcontext", "matchpathcon", "ls -dZ",
     "auditctl -l", "journalctl -g apparmor", "update-crypto-policies --show",
     "SUSEConnect --status"})

AContainer == Tells("environment", {"container"})
Kdump ==
  Subject({Tells("systemctl is-enabled kdump", {"enabled"}),
           Tells("systemctl is-active kdump", {"active"}),
           Tells("kexec_crash_loaded", {"1"}), Counts("kexec_crash_size", 256)},
    EachOf("systemctl is-enabled kdump", {{"disabled"}, {"static"}})
    \cup EachOf("systemctl is-active kdump", {{"failed"}})
    \cup {Tells("kexec_crash_loaded", {"0"}), Counts("kexec_crash_size", 0), AContainer,
          Lacks({"kdump.service"})},
    {"kexec_crash_loaded", "kexec_crash_size"},
    {"systemctl is-enabled kdump", "systemctl is-active kdump"})

Tuned ==
  Subject({Tells("systemctl is-active tuned", {"active"}),
           Tells("tuned-adm active", {"balanced"}), Tells("tuned-adm recommend", {"balanced"})},
    EachOf("systemctl is-active tuned", {{"inactive"}}) \cup {Lacks({"tuned"})}
    \cup EachOf("tuned-adm active", {{"powersave"}}),
    {}, {"systemctl is-active tuned", "tuned-adm active", "tuned-adm recommend"})

Kernel ==
  Subject({Tells("rpm -q --last", {"running"}),
           Lacks({"zypper needs-rebooting", "notify-reboot-required", "/run/reboot-required"})},
    EachOf("rpm -q --last", {{"newer"}, {}}) \cup {Lacks({"rpm -q --last"}), AContainer}
    \cup {With(Tells("rpm -q --last", {}), Tells("zypper needs-rebooting", x)) :
             x \in {{}, {"reboot"}, {"locked"}}}
    \cup EachOf("notify-reboot-required", {{}}) \cup EachOf("/run/reboot-required", {{}}),
    {"osrelease"}, {"rpm -q --last", "zypper needs-rebooting"})

Ksplice ==
  Subject({}, {Tells("uptrack-upgrade -n", {"installing"}), AContainer, Lacks({"ksplice"})},
    {}, {"uptrack-upgrade -n"})

ServiceRestart ==
  Subject({}, EachOf("own maps", {{"deleted"}}) \cup EachOf("other maps", {{"deleted"}}),
    {"own maps", "other maps"}, {})

KernelRetention ==
  Subject({Counts("/boot", 2), Lacks({"zypper needs-rebooting", "dpkg"})},
    {Counts("/boot", 3), Counts("/boot", 6), AContainer}
    \cup {With(Tells("statfs /boot", {"small"}), Counts("statfs /boot", n)) : n \in {79, 85, 95}}
    \cup EachOf("zypper needs-rebooting", {{}}) \cup {With(Lacks({"dnf"}), Tells("dpkg", {}))}
    \cup EachOf("dnf.conf", {{"all"}})
    \cup {With(Tells("zypp.conf", {"all"}), Tells("zypper needs-rebooting", {}))},
    {"/boot", "zypp.conf", "dnf.conf"}, {"statfs /boot"})

LivePatch ==
  Subject({Tells("/sys/kernel/livepatch", {{"enabled"}})},
    EachOf("/sys/kernel/livepatch", {{{}}, {{"enabled", "transition"}}, {{"enabled"}, {}}, {}})
    \cup {AContainer},
    {"livepatch enabled", "livepatch transition", "/sys/kernel/livepatch"}, {})

Transactional ==
  Subject({Counts("findmnt", 5), Counts("btrfs get-default", 5)},
    {Counts("btrfs get-default", 6), Counts("findmnt", 0), AContainer,
     Lacks({"transactional-update"})},
    {}, {"findmnt", "btrfs get-default"})

Systemd ==
  LET slow(kind, n) == [kind |-> kind, seconds |-> n]
  IN Subject({Tells("sysupdate.d", {"transfer"}), Counts("systemd-analyze time", 20)},
       EachOf("systemctl list-units --state=failed",
              {{"unit"}, {"zfsImport"}, {"cloudInit"}, {"noise"}, {"sysupdate"}, {"sshd"}})
       \cup {With(Tells("systemctl list-units --state=failed", {"sshd"}),
                  Tells("systemctl show ExecMainStatus", {n})) : n \in {1, 21}}
       \cup EachOf("sysupdate.d", {{}}) \cup {AContainer, Lacks({"systemd"})}
       \cup EachOf("systemd-analyze blame",
                   {{slow("unit", 4)}, {slow("unit", 6)}, {slow("unit", 60)}, {slow("timed", 60)},
                    {slow("device", 60)}})
       \cup {Counts("systemd-analyze time", 40)}
       \cup EachOf("systemctl show NeedDaemonReload", {{"NeedDaemonReload"}})
       \cup EachOf("systemctl is-system-running", {{"maintenance"}}),
       {"sysupdate.d"},
       {"systemctl list-units --state=failed", "systemctl show ExecMainStatus",
        "systemd-analyze time", "systemd-analyze blame", "systemctl show TriggeredBy",
        "systemctl list-units --type=service", "systemctl show NeedDaemonReload",
        "systemctl is-system-running"})

Hardware ==
  LET good == [type |-> "sata", health |-> "passed", temp |-> 35, life |-> 98, media |-> 0,
               reallocated |-> 0, pending |-> 0, uncorrectable |-> 0]
      nvme == [good EXCEPT !.type = "nvme", !.life = 2]
      drives == {[good EXCEPT !.health = "failed"], [good EXCEPT !.health = "unreported"],
                 [good EXCEPT !.temp = 55], [good EXCEPT !.life = 10], [good EXCEPT !.pending = 2],
                 [good EXCEPT !.reallocated = 10], [good EXCEPT !.uncorrectable = 1],
                 nvme, [nvme EXCEPT !.temp = 72], [nvme EXCEPT !.life = 96], [nvme EXCEPT !.media = 1]}
  IN Subject({Tells("smartctl --scan-open", {good})},
       {Tells("smartctl --scan-open", {d}) : d \in drives}
       \cup {Tells("smartctl --scan-open", {good, d}) : d \in drives}
       \cup {Tells("smartctl --scan-open", {}), Lacks({"smartctl"}), Lacks({"ce_count"}),
             Counts("ce_count", 3), Counts("ue_count", 1)},
       {"/sys/devices/system/edac/mc", "ce_count", "ue_count"},
       {"smartctl --scan-open", "smartctl -a"})

-------------------------------------------------------------------------------
Mount(mount, type, used, flags) ==
  [mount |-> mount, device |-> "sda", type |-> type, used |-> used, inodes |-> 10,
   device_gb |-> 100, total_gb |-> 100, flags |-> flags]
MountedOnly(ms) == Tells("/proc/mounts", ms)
Root == Mount("/", "ext4", 50, {})
Quiet == [kind |-> "nvme", mounted |-> TRUE, health |-> "passed", flags |-> {}]
NotImmutable == Lacks({"/run/ostree-booted", "transactional-update"})

Disk ==
  Subject({NotImmutable, MountedOnly({Root, Mount("/data", "xfs", 50, {})}),
           Tells("/proc/partitions", {Quiet})},
    {MountedOnly({Root, Mount("/data", "xfs", 95, {})}),
     MountedOnly({Root, [Mount("/data", "xfs", 50, {}) EXCEPT !.inodes = 85]}),
     MountedOnly({Root, [Mount("/data", "xfs", 50, {}) EXCEPT !.total_gb = 60]}),
     MountedOnly({Mount("/", "ext4", 50, {"readOnly"})}),
     MountedOnly({Root, Mount("/data", "xfs", 50, {}), Mount("/home", "xfs", 95, {})}),
     MountedOnly({Root, Mount("/data", "btrfs", 50, {})}),
     MountedOnly({Root, Mount("/data", "zfs", 50, {})}),
     MountedOnly({Root, Mount("/data", "squashfs", 100, {})})}
    \cup EachOf("/proc/partitions", {{d} :
           d \in [kind : {"nvme", "sata", "virtual"}, mounted : BOOLEAN,
                  health : {"failed", "none"}, flags : {{}}]
                 \cup [kind : {"nvme", "sata"}, mounted : BOOLEAN, health : {"passed"},
                       flags : {{"worn"}, {"mediaErrors"}}]})
    \cup {AContainer} \cup EachOf("os-release", {{"steamos"}})
    \cup EachOf("transactional-update", {{}}) \cup {Lacks({"smartctl"}), Lacks({"zpool"})}
    \cup EachOf("zpool list", {{"pool"}})
    \cup EachOf("btrfs filesystem show", {{"placeholder"}, {"MISSING"}})
    \cup EachOf("btrfs device stats", {{"errors"}, {"errors", "ioErrors"}}),
    {"/sys/class/block", "/proc/partitions", "os-release", "/proc/mounts"},
    {"/", "/data", "/home", "smartctl -H", "smartctl -A", "zpool list", "btrfs filesystem show",
     "btrfs device stats"})

Entry(mount, by, link, options) == [mount |-> mount, by |-> by, link |-> link, options |-> options]
ByUUID == "/dev/disk/by-uuid"
ByPart == "/dev/disk/by-partuuid"
RootFS ==
  Subject({NotImmutable, MountedOnly({Root}), Tells("/etc/fstab", {Entry("/", ByUUID, "A", {})})},
    {MountedOnly({Mount("/", type, 50, {"readOnly"})}) : type \in {"ext4", "squashfs"}}
    \cup EachOf("/etc/fstab", {{Entry("/", ByUUID, "A", {"ro"})}, {}})
    \cup EachOf("os-release", {{"steamos"}}) \cup EachOf("/run/ostree-booted", {{}}),
    {"/proc/mounts", "/etc/fstab", "os-release"}, {})
Fstab ==
  Subject({Tells("/etc/fstab", {Entry("/", ByUUID, "A", {})}), Tells(ByUUID, {"A"}),
           Tells(ByPart, {"B"})},
    EachOf("/etc/fstab", {{Entry("/", ByUUID, "A", {}), e} :
             e \in {Entry("/data", ByUUID, "C", {}), Entry("/boot", ByPart, "C", {}),
                    Entry("/data", ByPart, "C", {"nofail"})}})
    \cup EachOf(ByUUID, {{}, {"C"}}) \cup EachOf(ByPart, {{}}) \cup {Lacks({"/etc/fstab"})},
    {"/etc/fstab", ByUUID, ByPart}, {})

NVMeLog ==
  [temp |-> 40, spare |-> 100, threshold |-> 10, used |-> 5, warning |-> 0, media |-> 0,
   unsafe |-> 3, hours |-> 5000, cycles |-> 50]
NVMeLogs ==
  {[NVMeLog EXCEPT !.warning = 4], [NVMeLog EXCEPT !.media = 2], [NVMeLog EXCEPT !.spare = 10],
   [NVMeLog EXCEPT !.used = 95], [NVMeLog EXCEPT !.temp = 75], [NVMeLog EXCEPT !.unsafe = 200],
   [f \in DOMAIN NVMeLog \ {"media"} |-> NVMeLog[f]], [f \in {} |-> 0]}
SATADrive ==
  [temp |-> 35, hours |-> 5000, reallocated |-> 0, pending |-> 0, uncorrectable |-> 0,
   assessment |-> "passed", flags |-> {}]
SATADrives ==
  {[SATADrive EXCEPT !.assessment = "failed"], [SATADrive EXCEPT !.assessment = "none"],
   [SATADrive EXCEPT !.reallocated = 3], [SATADrive EXCEPT !.uncorrectable = 1],
   [SATADrive EXCEPT !.temp = 60], [SATADrive EXCEPT !.flags = {"openError"}],
   [SATADrive EXCEPT !.flags = {"errorLog"}, !.uncorrectable = 1]}
Drives ==
  Subject({Tells("/sys/class/nvme", {NVMeLog}), Tells("smartctl --scan-open", {SATADrive})},
    EachOf("/sys/class/nvme", {{}} \cup {{NVMeLog, log} : log \in NVMeLogs})
    \cup EachOf("smartctl --scan-open", {{}} \cup {{SATADrive, d} : d \in SATADrives}),
    {"/sys/class/nvme"}, {"nvme smart-log", "smartctl --scan-open", "smartctl -a"})

Pool == [state |-> "ONLINE", used |-> 50, frag |-> 10, scrub |-> 7, flags |-> {}]
ZFS ==
  Subject({Tells("zpool list", {Pool})},
    EachOf("zpool list", {{}} \cup {{Pool, p} :
      p \in {[Pool EXCEPT !.state = "DEGRADED"], [Pool EXCEPT !.used = 95],
             [Pool EXCEPT !.frag = 80], [Pool EXCEPT !.scrub = -1],
             [Pool EXCEPT !.flags = {"vdevErrors"}], [Pool EXCEPT !.flags = {"scrubErrors"}],
             [Pool EXCEPT !.state = "FAULTED", !.flags = {"vdevErrors"}]}})
    \cup {Lacks({"zpool"})},
    {}, {"zpool list", "zpool status"})

Group(name, full) == [name |-> name, full |-> full]
OfThin(data, meta) == [kind |-> "thin", data |-> [vg |-> "g", data |-> data, meta |-> meta]]
LVM ==
  Subject({Tells("vgs", {Group("g", 50)}), MountedOnly({[Root EXCEPT !.device = "g"]}),
           Tells("lvs", {OfThin(50, 10)})},
    EachOf("vgs", {{Group("g", 95)}, {Group("g", 50), Group("h", 95)}})
    \cup EachOf("pvs", {{"g"}, {"h"}})
    \cup {MountedOnly({Root}), MountedOnly({[Root EXCEPT !.device = "h"]}), Lacks({"lvs --version"})}
    \cup EachOf("lvs", {{OfThin(95, 10)}, {OfThin(50, 80)},
                        {[kind |-> "snapshot", data |-> 97]}, {}})
    \cup EachOf("lvs raid", {{"degraded"}, {"resyncing"}}),
    {"/proc/mounts"}, {"lvs --version", "vgs", "pvs", "lvs", "lvs raid"})

Resource(connection, disk) == [connection |-> connection, disk |-> disk]
Link(state, replication) == [state |-> state, replication |-> replication]
Settled == Link("Connected", "Established")
DRBD ==
  Subject({Tells("/proc/drbd", {Resource("Connected", "UpToDate")})},
    EachOf("/proc/drbd", {{Resource("Connected", "UpToDate"), r} :
      r \in {Resource("StandAlone", "UpToDate"), Resource("WFConnection", "UpToDate"),
             Resource("Connected", "Failed"), Resource("SyncTarget", "Inconsistent")}})
    \cup {With(Tells("/proc/drbd", {}),
               With(Counts("/proc/drbd", 9), Tells("drbdsetup status", resources))) :
            resources \in {{}} \cup {{[connections |-> c, disk |-> "UpToDate"]} :
              c \in {<<Settled>>, <<Link("StandAlone", ""), Settled>>,
                     <<Link("StandAlone", ""), Link("Connected", "SyncTarget")>>}}}
    \cup {Lacks({"/proc/drbd"})},
    {"/proc/drbd"}, {"drbdsetup status"})

RAID ==
  Subject({Tells("/proc/mdstat", {{}})},
    EachOf("/proc/mdstat", {{}, {{"missing"}}, {{"inactive"}}, {{}, {"missing", "rebuilding"}},
                            {{"rebuilding"}}}),
    {"/proc/mdstat"}, {})

Controller(success, members, flags) == [success |-> success, members |-> members, flags |-> flags]
HardwareRAID ==
  Subject({Tells("storcli", {Controller(TRUE, {"optimal"}, {})}),
           Tells("ssacli", {Controller(TRUE, {"optimal"}, {})})},
    UNION {EachOf(tool, {{}, {Controller(FALSE, {}, {})}} \cup {{Controller(TRUE, {"optimal"}, {}), c} :
      c \in {Controller(TRUE, {"optimal", "degraded"}, {}), Controller(FALSE, {"failed"}, {}),
             Controller(TRUE, {"rebuilding"}, {}), Controller(FALSE, {}, {}),
             Controller(TRUE, {"optimal"}, {"batteryBad"}),
             Controller(TRUE, {"optimal"}, {"cacheBatteryUnread"})}}) : tool \in {"storcli", "ssacli"}}
    \cup {Lacks({"storcli"})},
    {}, {"storcli", "ssacli"})

Paths(failed, active) == [failed |-> failed, active |-> active]
Multipath ==
  Subject({Tells("multipathd show paths", {Paths(0, 2)}), Tells("multipath -l", {Paths(0, 2)})},
    UNION {{With(Tells("multipathd show paths", d), Tells("multipath -l", d))} :
             d \in {{}, {Paths(1, 1)}, {Paths(2, 0), Paths(0, 2)}}}
    \cup {Lacks({"multipathd"}), Lacks({"/run/multipathd.sock"})}
    \cup {With(Lacks({"/run/multipathd.sock"}), Tells("/sys/block", {"mpath"}))},
    {"/sys/block"}, {"multipathd show paths", "multipath -l"})

Port(state, failures, lossOfSync) ==
  [state |-> state, failures |-> failures, lossOfSync |-> lossOfSync]
HBA ==
  Subject({Tells("/sys/class/fc_host", {Port("online", 0, 0)})},
    EachOf("/sys/class/fc_host", {{}} \cup {{Port("online", 0, 0), p} :
      p \in {Port("offline", 0, 0), Port("online", 20, 0), Port("linkup", 0, 200)}}),
    {"/sys/class/fc_host", "port_state", "fc_host statistics"}, {})

Ceph ==
  Subject({Tells("ceph health", {"HEALTH_OK"})},
    EachOf("ceph health", {{"HEALTH_WARN"}, {"HEALTH_ERR"}, {}})
    \cup EachOf("ceph osd stat", {{"osdsDown"}})
    \cup {Lacks({"ceph"}), Lacks({"/etc/ceph/ceph.conf"})},
    {}, {"ceph health", "ceph osd stat"})

ISCSI ==
  Subject({Tells("iscsiadm -m session", {"LOGGED_IN"})},
    EachOf("iscsiadm -m session", {{"FAILED"}, {"LOGGED_IN", "FREE"}, {}})
    \cup {Lacks({"/sys/class/iscsi_session"}),
          With(Tells("iscsiadm -m session", {}), Lacks({"/sys/class/iscsi_session"}))},
    {}, {"iscsiadm -m session"})

Snapshots ==
  Subject({Tells("snapper list", {-1, 5}), Counts("snapper list", 10)},
    EachOf("snapper list", {{}, {-1}, {-1, 30}, {-1, 100, 200}})
    \cup {Counts("snapper list", 30), Counts("snapper list", 60), Lacks({"snapper"})},
    {}, {"snapper list"})

Slave(name, state, aggregator, failures) ==
  [name |-> name, state |-> state, aggregator |-> aggregator, failures |-> failures]
BondOf(mode, slaves, partner, ports) ==
  [mode |-> mode, slaves |-> slaves, partner |-> partner, ports |-> ports]
TwoUp == {Slave("a", "up", 1, 0), Slave("b", "up", 1, 0)}
Bonding ==
  Subject({Tells("/proc/net/bonding", {BondOf("802.3ad", TwoUp, "set", 2)})},
    EachOf("/proc/net/bonding",
      {{}} \cup {{b} : b \in
        [mode : {"802.3ad", "active-backup"}, partner : {"zero", "set"}, ports : {0, 1, 2},
         slaves : {TwoUp, {Slave("a", "up", 1, 0)}, {Slave("a", "up", 1, 0), Slave("b", "up", 2, 0)},
                   {Slave("a", "up", 1, 20), Slave("b", "down", 1, 20)},
                   {Slave("a", "down", 1, 20), Slave("b", "down", 1, 0)}}]})
    \cup EachOf("/sys/class/net", {{"a"}}),
    {"/proc/net/bonding", "/sys/class/net"}, {})

Sample(usage, steal, iowait, queue) ==
  [usage |-> usage, steal |-> steal, iowait |-> iowait, queue |-> queue]
CPULoad ==
  Subject({Tells("/proc/stat", {Sample(20, 0, 0, 1)}), Counts("/proc/self/stat", 2),
           Counts("/proc/loadavg", 20), Counts("cpu/present", 4), Counts("cpu/online", 4)},
    EachOf("/proc/stat", {{s} : s \in {Sample(75, 0, 0, 1), Sample(95, 0, 0, 5),
                                     Sample(71, 15, 0, 1), Sample(20, 0, 45, 1)}})
    \cup {Counts("/proc/loadavg", 95), Counts("/proc/loadavg", 250), Counts("cpu/online", 3)}
    \cup {AContainer} \cup EachOf("smt/control", {{"off"}}) \cup EachOf("/proc/cmdline", {{"isolcpus"}}),
    {"/proc/stat", "/proc/self/stat", "/proc/loadavg", "cpu/present", "cpu/online",
     "smt/control", "/proc/cmdline"}, {})

Meminfo(used, estimate, slab, flags) ==
  [used |-> used, estimate |-> estimate, slab |-> slab, flags |-> flags]
Memory ==
  Subject({Tells("/proc/meminfo", {Meminfo(40, 60, 3, {})})},
    EachOf("/proc/meminfo", {{m} : m \in {Meminfo(85, 90, 3, {}), Meminfo(97, 97, 25, {}),
                                        Meminfo(0, 85, 3, {"estimated"}),
                                        Meminfo(40, 60, 3, {"overCommitted"})}})
    \cup EachOf("overcommit_memory", {{"strict"}})
    \cup {Counts("ce_count", 3), Counts("ue_count", 1), Lacks({"ce_count"})}
    \cup EachOf("memory/state", {{"offline"}}) \cup EachOf("auto_online_blocks", {{"online"}})
    \cup {AContainer}
    \cup {With(AContainer, With(Tells("memory.max", {"limit"}), Counts("memory.current", n))) :
             n \in {10, 97}},
    {"memory.max", "memory.current", "/proc/meminfo", "overcommit_memory", "/sys/devices/system/edac/mc", "ce_count",
     "ue_count", "/sys/devices/system/memory", "memory/state", "auto_online_blocks"}, {})

Swap ==
  Subject({Counts("/proc/swaps", 5), Counts("/proc/vmstat", 0)},
    {Counts("/proc/swaps", 30), Counts("/proc/swaps", 70), Counts("/proc/vmstat", 30),
     Counts("/proc/vmstat", 70), Counts("/proc/vmstat", 120)}
    \cup EachOf("/sys/block", {{"zram"}}),
    {"/proc/swaps", "/proc/vmstat", "/sys/block", "zram/disksize", "zram/mm_stat"}, {})

Device(kind, util, await, flags) == [kind |-> kind, util |-> util, await |-> await, flags |-> flags]
IO ==
  Subject({Tells("/proc/diskstats", {Device("ssd", 5, 0, {})})},
    EachOf("/proc/diskstats", {{Device("ssd", 5, 0, {}), d} :
      d \in {Device("ssd", 70, 2, {}), Device("ssd", 90, 6, {}), Device("hdd", 90, 10, {}),
             Device("hdd", 20, 120, {}), Device("nvme", 10, 6, {}),
             Device("ssd", 99, 30, {"appeared"})}}),
    {"/proc/diskstats", "queue/rotational"}, {})

FileUser(used, own, count, flags) ==
  [used |-> used, own |-> own, count |-> count, flags |-> flags]
FDLimits ==
  Subject({Counts("file-nr", 10), Tells("processes", {FileUser(10, TRUE, 1, {})})},
    {Counts("file-nr", 85), Counts("file-nr", 95),
     Tells("processes", {FileUser(0, TRUE, 5, {"unlimited"}), FileUser(90, TRUE, 1, {})})}
    \cup EachOf("processes", {{FileUser(10, TRUE, 1, {}), FileUser(used, own, 1, flags)} :
      used \in {10, 90}, own \in BOOLEAN,
      flags \in {{}, {"deletedOpen"}, {"unlimited"}, {"helper"}}}),
    {"file-nr", "own fd", "other fd", "limits"}, {})

Process(state, parent, own, count) ==
  [state |-> state, parent |-> parent, own |-> own, count |-> count]
Processes ==
  Subject({Tells("/proc", {Process("S", "init", FALSE, 90)})},
    EachOf("/proc", {{p} : p \in [state : {"Z", "D"}, parent : {"init", "shell", "kthreadd"},
                                 own : BOOLEAN, count : {2, 12}]})
    \cup EachOf("mount options", {{"hidepid"}}),
    {"/proc/PID/stat", "own exe", "other exe"}, {})

Sysctl ==
  Subject({Counts("swappiness", 60), Counts("max_user_watches", 8192),
           Counts("/proc/loadavg", 5), Counts("/proc", 3)},
    EachOf("comm", {{"kubelet"}, {"nginx"}, {"postgres"}, {"java", "elasticsearch"}, {"dockerd"},
                    {"kubelet", "nginx"}})
    \cup {Counts("swappiness", 1), Counts("max_user_watches", 600000), Counts("/proc/loadavg", 85)}
    \cup EachOf("somaxconn", {{"somaxconnLow"}}) \cup EachOf("max_map_count", {{"mapCountLow"}})
    \cup EachOf("rmem_max", {{"rmemLow"}}) \cup EachOf("dirty_ratio", {{"dirtyRatioHigh"}})
    \cup EachOf("tcp_tw_reuse", {{"off"}}),
    {"comm", "swappiness", "max_user_watches", "/proc/loadavg", "pid_max", "somaxconn",
     "max_map_count", "rmem_max", "dirty_ratio", "tcp_tw_reuse"}, {})

Stall(some, full) == [some |-> some, full |-> full]
Pressure ==
  Subject({},
    UNION {EachOf(file, {{Stall(35, 2)}, {Stall(35, 15)}, {Stall(3, 0)}}) : file \in PSIFiles}
    \cup {Lacks(PSIFiles)}, PSIFiles, {})
HugePages ==
  Subject({Counts("/proc/meminfo", 0)},
    EachOf("/proc/meminfo", {{"configured"}, {"configured", "largeReserve"}})
    \cup {Counts("/proc/meminfo", 50), Counts("/proc/meminfo", 100)}
    \cup EachOf("transparent_hugepage", {{"always"}}),
    {"/proc/meminfo", "transparent_hugepage"}, {})
DBus ==
  Subject({Tells("systemctl is-active dbus", {"active"})},
    EachOf("systemctl is-active dbus", {{}, {"failed"}, {"inactive"}, {"activating"}})
    \cup {Lacks({"systemd"})}, {}, {"systemctl is-active dbus"})
Entropy ==
  Subject({Counts("entropy_avail", 256)}, {Counts("entropy_avail", n) : n \in {0, 63, 64, 255}},
          {"entropy_avail"}, {})
Clock ==
  Subject({Tells("adjtimex", {"synced"}), Counts("adjtimex", 2)},
    EachOf("adjtimex", {{}}) \cup {Counts("adjtimex", n) : n \in {-600, -2, 150}}
    \cup EachOf("/etc/adjtime", {{"LOCAL"}}), {"/etc/adjtime"}, {"adjtimex"})
OOM ==
  Subject({}, UNION {EachOf(log, {{"kills"}, {"oldKills"}}) :
                       log \in {"dmesg --time-format", "dmesg"}}
              \cup EachOf("journalctl --grep", {{"kills"}}) \cup {Lacks({"dmesg --time-format"})},
          {}, {"journalctl --grep", "dmesg --time-format", "dmesg"})

Login(user, from, idle) == [user |-> user, from |-> from, idle |-> idle]
Sessions ==
  Subject({Lacks({"/etc/pve"}), Tells("w", {Login("admin", "", 0)})},
    EachOf("w", {{}, {Login("root", "", 0)}, {Login("root", "a", 0)}, {Login("admin", "a", 9)},
                 {Login("admin", "a", 0), Login("admin", "b", 0)},
                 {Login("admin", "a", n) : n \in 0..5}})
    \cup EachOf("/etc/pve", {{}}), {"/etc/pve"}, {"w"})

Auth ==
  Subject({Tells(JournalOfSSH, {"lines"}), Tells("sshd -T", {SafeSSH}),
           Lacks({"/var/log/secure", "/var/log/messages"})},
    EachOf(JournalOfSSH, {{}, {"lines", "rootAttempts"}})
    \cup {With(Counts(JournalOfSSH, n), Tells(JournalOfSSH, {"lines"})) : n \in {200, 2000}}
    \cup EachOf("sshd -T", {{<<SSHD("passwordauthentication", p), SSHD("permitrootlogin", r)>>} :
                            p \in {"yes", "no"}, r \in {"yes", "prohibit-password"}})
    \cup UNION {{Counts(log, 2000), With(Counts(log, 20), Tells(log, {"rootAttempts"})), Lacks({log})} :
                   log \in {"/var/log/auth.log", "/var/log/secure"}}
    \cup {Lacks({"sshd"})},
    {"/var/log/auth.log", "/var/log/secure"}, {JournalOfSSH, "grep", "sshd -T"})

Interfaced(name, flags) == [name |-> name, flags |-> flags]
Ethernet == Interfaced("eth0", {"up"})
Wireless == Interfaced("wlan0", {"up", "wireless"})
Traffic(name, errors) == [name |-> name, errors |-> errors, packets |-> 2000000]
Reply(ms, loss, ports) == [ms |-> ms, loss |-> loss, ports |-> ports]
TCP(syn, listen, retrans) ==
  [synRetrans |-> syn, listenOverflows |-> listen, retransFails |-> retrans]
Route(gateway) == [interface |-> "eth0", gateway |-> gateway]
Network ==
  Subject({Tells("net interfaces", {Ethernet}), Tells("/proc/net/route", {<<Route(TRUE)>>}),
           Tells("speed", {<<"eth0", 1000>>}), Tells("network policy", {"on"}),
           Tells("gateway", {Reply(2, 0, {53})}), Tells("internet", {Reply(9, 0, {53})}),
           Tells("/proc/net/netstat", {TCP(5, 0, 0)}), Counts("/proc/uptime", 100),
           Counts("resolver", 20), Counts("nf_conntrack_max", 1000)},
    EachOf("net interfaces", {{Ethernet, Wireless}, {Interfaced("eth0", {})},
                              {Ethernet, Interfaced("veth1", {"up", "virtual"})}})
    \cup {With(Tells("net interfaces", {Ethernet, Wireless}),
               With(Tells("/proc/net/wireless", {<<"wlan0", kernel>>}), Tells("iwconfig", {<<"wlan0", told>>}))) :
             kernel \in {-75, -60, 40}, told \in {-85, 0}}
    \cup EachOf("speed", {{<<"eth0", 100>>}, {<<"eth0", -1>>}, {<<"wlan0", 100>>}})
    \cup EachOf("device", {{"eth0"}, {"wlan0"}})
    \cup EachOf("net counters", {{Traffic("eth0", 200)}, {Traffic("eth0", 201)}, {Traffic("veth1", 201)}})
    \cup EachOf("/proc/net/route", {{}, {<<Route(FALSE)>>}, {<<Route(FALSE), Route(TRUE)>>},
                                   {<<[interface |-> "veth1", gateway |-> TRUE]>>}})
    \cup EachOf("gateway", {{}, {Reply(100, 100, {})}, {Reply(250, 20, {80})}, {Reply(2, 60, {53})},
                            {Reply(2, 0, {443})}, {Reply(2, 100, {443})}})
    \cup EachOf("internet", {{}, {Reply(9, 0, {})}, {Reply(9, 100, {})}})
    \cup EachOf("/proc/net/netstat", {{}, {TCP(9000, 0, 0)}, {TCP(5, 150, 0)}, {TCP(5, 2000, 900)}})
    \cup {Counts("resolver", 300), Counts("net connections", 600), Counts("/proc/net/sockstat", 1500),
          Counts("nf_conntrack_count", 850), Counts("nf_conntrack_count", 590)}
    \cup EachOf("/proc/net/bonding", {{BondOf("active-backup", TwoUp, "set", 2)},
                                      {BondOf("active-backup", {Slave("a", "down", 1, 0), Slave("b", "up", 1, 0)}, "set", 2)}})
    \cup EachOf("/sys/class/net", {{"a"}})
    \cup EachOf("resolver", {{"failed"}}) \cup EachOf("network policy", {{}})
    \cup EachOf("mode", {{"quick"}}) \cup EachOf("ping_group_range", {{"group"}})
    \cup EachOf("/proc/self/status", {{"dropped"}}),
    {"speed", "device", "/proc/net/wireless", "/proc/net/route", "/proc/net/netstat", "/proc/net/bonding",
     "/proc/net/sockstat", "/proc/uptime", "nf_conntrack_count", "nf_conntrack_max", "/proc/self/status",
     "ping_group_range"},
    {"net interfaces", "net counters", "net connections", "iwconfig", "ping"})

Subjects ==
  [Bonding |-> Bonding, Ceph |-> Ceph, Cron |-> Cron, CVE |-> CVE,
   CVELookup |-> CVELookup, Disk |-> Disk, Docker |-> Docker, Drives |-> Drives,
   DRBD |-> DRBD, Firewall |-> Firewall, Fstab |-> Fstab, Hardening |-> Hardening,
   Hardware |-> Hardware, HardwareRAID |-> HardwareRAID, HBA |-> HBA, K8s |-> K8s,
   KernelRetention |-> KernelRetention, Kernel |-> Kernel, KernelSec |-> KernelSec,
   Ksplice |-> Ksplice, Kdump |-> Kdump, LivePatch |-> LivePatch, Logs |-> Logs,
   LVM |-> LVM, Multipath |-> Multipath, Packages |-> Packages, PVE |-> PVE,
   RAID |-> RAID, RootFS |-> RootFS, ServiceRestart |-> ServiceRestart,
   Snapshots |-> Snapshots, Systemd |-> Systemd, Transactional |-> Transactional,
   Tuned |-> Tuned, ZFS |-> ZFS, iSCSI |-> ISCSI,
   Auth |-> Auth, Clock |-> Clock, CPULoad |-> CPULoad, DBus |-> DBus, Entropy |-> Entropy,
   FDLimits |-> FDLimits, HugePages |-> HugePages, IO |-> IO, Memory |-> Memory,
   Network |-> Network, OOM |-> OOM, Pressure |-> Pressure, Processes |-> Processes,
   Sessions |-> Sessions, Swap |-> Swap, Sysctl |-> Sysctl]

-------------------------------------------------------------------------------
MCCollectors == DOMAIN Subjects
DrivesOnly == {"Drives"}
Both(s) == {With(With(s.base, c), d) : c, d \in s.changes}
MCHostsOf == [c \in MCCollectors |-> {Subjects[c].base} \cup Both(Subjects[c])]
MCLossesOf ==
  [c \in MCCollectors |->
     LET s == Subjects[c]
         told == (s.files \cup s.commands) \ (Silent(c) \cup Accusing(c))
     IN {NothingLost, [x \in told |-> IF x \in s.files THEN "denied" ELSE "failed"]}
        \cup {x :> "failed" : x \in s.commands} \cup {x :> "denied" : x \in s.files}]
===============================================================================
