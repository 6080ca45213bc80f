-------------------------------- MODULE CISRules --------------------------------
(***************************************************************************)
(* The benchmark rules of internal/cis.  A rule is the ordered list of     *)
(* tests its Check function makes; the first one that holds gives the      *)
(* verdict.  A test names an item of what the rule is given (a file, a     *)
(* setting, a field of a collector) and the readings of it that decide.    *)
(* "fine" is a reading no rule objects to, "wrong" one that breaks the     *)
(* rule, "unset" the absence of a setting; "absent" and "refused" are      *)
(* files that are not there and that may not be read.                      *)
(***************************************************************************)
EXTENDS Integers, Sequences, FiniteSetsExt, TLC

Test(item, readings, verdict) == [item |-> item, readings |-> readings, verdict |-> verdict]
Passes(item, readings) == Test(item, readings, "pass")
Fails(item, readings) == Test(item, readings, "fail")
Skips(item, readings) == Test(item, readings, "skip")
Unverified(item, readings) == Test(item, readings, "unverified")

NotRead == {"absent", "refused"}

Rule(id, tests, otherwise) ==
  [id |-> id, stig |-> "", framework |-> "CIS", level |-> 1, section |-> "",
   tests |-> tests, otherwise |-> otherwise]
PassUnless(id, tests) == Rule(id, tests, "pass")
FailUnless(id, tests) == Rule(id, tests, "fail")

In(section, rules) == {[r EXCEPT !.section = section] : r \in rules}
Level2(rules) == {[r EXCEPT !.level = 2] : r \in rules}
Shared(stig, rule) == [rule EXCEPT !.framework = "BOTH", !.stig = stig]
STIGOnly(rules) == {[r EXCEPT !.framework = "STIG"] : r \in rules}
Each(Make(_, _), rows) == {Make(row[1], row[2]) : row \in rows}

\* The verdict of a rule on what it is given, an item of which is fine unless
\* it is named.
Reading(given, item) == IF item \in DOMAIN given THEN given[item] ELSE "fine"
Verdict(rule, given) ==
  LET holds == {i \in DOMAIN rule.tests :
                  Reading(given, rule.tests[i].item) \in rule.tests[i].readings}
  IN  IF holds = {} THEN rule.otherwise ELSE rule.tests[Min(holds)].verdict

-------------------------------------------------------------------------------
(* The check functions that rules share *)

Sysctl(id, p) == PassUnless(id, <<Skips(p, NotRead), Fails(p, {"wrong", "garbled"})>>)
SysctlGE(id, p) ==
  PassUnless(id, <<Skips(p, NotRead), Unverified(p, {"garbled"}), Fails(p, {"wrong"})>>)
FilePerm(id, path) == PassUnless(id, <<Skips(path, {"absent"}), Fails(path, {"open"})>>)
FileOwnerRootRoot(id, path) ==
  PassUnless(id, <<Skips(path, {"absent"}), Fails(path, {"alien", "group shadow"})>>)
FileOwnerRootRootOrShadow(id, path) ==
  PassUnless(id, <<Skips(path, {"absent"}), Fails(path, {"alien"})>>)
BannerContent(id, path) == PassUnless(id, <<Fails(path, {"absent", "wrong"})>>)
ServiceNotInstalled(id, program) == PassUnless(id, <<Fails(program, {"installed"})>>)
\* The loaded usb-storage is called usb_storage in /proc/modules.
ModuleDisabled(id, module) ==
  PassUnless(id,
    <<Skips("/proc/modules", NotRead),
      Fails(module, {"enabled"} \cup IF module = "usb-storage" THEN {} ELSE {"loaded"})>>)
MountOption(id, at) ==
  PassUnless(id,
    <<Skips("/proc/mounts", NotRead), Skips(at[1], {"not separate"}),
      Fails(at[1] \o " " \o at[2], {"unset"})>>)
SeparateMountPoint(id, path) ==
  PassUnless(id, <<Skips("/proc/mounts", NotRead), Fails(path, {"not separate"})>>)
RemovableMediaOption(id, option) ==
  PassUnless(id, <<Skips("/proc/mounts", NotRead), Fails("media " \o option, {"unset"})>>)
AuditRule(id, rule) ==
  PassUnless(id,
    <<Unverified("audit rule files", {"hidden"}), Skips("audit rule files", {"none"}),
      Fails(rule, {"unset"})>>)
LoginDefsField(id, field) ==
  PassUnless(id, <<Skips("/etc/login.defs", NotRead), Fails(field, {"wrong", "unset"})>>)

-------------------------------------------------------------------------------
(* 1.5 Kernel *)

KernelParameters ==
  In("Kernel",
    Each(Sysctl,
      {<<"1.5.1", "kernel.randomize_va_space">>, <<"1.5.4", "fs.suid_dumpable">>,
       <<"1.5.5", "fs.protected_hardlinks">>, <<"1.5.6", "fs.protected_symlinks">>,
       <<"1.5.7", "kernel.dmesg_restrict">>, <<"1.5.11", "net.core.bpf_jit_harden">>,
       <<"1.5.14", "kernel.sysrq">>, <<"1.5.15", "kernel.core_uses_pid">>})
    \cup Each(SysctlGE,
      {<<"1.5.8", "kernel.perf_event_paranoid">>, <<"1.5.9", "kernel.kptr_restrict">>,
       <<"1.5.10", "kernel.yama.ptrace_scope">>, <<"1.5.12", "vm.mmap_min_addr">>,
       <<"1.5.16", "fs.protected_regular">>, <<"1.5.17", "fs.protected_fifos">>,
       <<"1.5.18", "kernel.unprivileged_bpf_disabled">>}))

(* 2 Services *)

TimeSynchronization ==
  In("Services",
    {FailUnless("2.1.1", <<Passes("time sources", {"fine", "wrong", "timesyncd only", "unread"})>>),
     FailUnless("2.1.2",
       <<Passes("time sources", {"fine", "timesyncd only"}),
         Skips("time sources", {"unread", "absent"})>>)})

UnneededServices ==
  In("Services",
    Each(ServiceNotInstalled,
      {<<"2.2.1", "nis">>, <<"2.2.2", "rsh">>, <<"2.2.3", "talk">>, <<"2.2.4", "telnet">>,
       <<"2.2.5", "ldapClient">>, <<"2.3.1", "xorg">>, <<"2.3.2", "avahi">>,
       <<"2.3.3", "cups">>, <<"2.3.4", "dhcp">>, <<"2.3.5", "slapd">>, <<"2.3.6", "nfs">>,
       <<"2.3.7", "named">>, <<"2.3.8", "ftp">>, <<"2.3.9", "http">>, <<"2.3.10", "imap">>,
       <<"2.3.11", "samba">>, <<"2.3.12", "squid">>, <<"2.3.13", "snmp">>}))

LocalServices ==
  In("Services",
    {FailUnless("2.3.14",
       <<Skips("mta", {"absent"}), Unverified("/etc/postfix/main.cf", NotRead),
         Passes("inet_interfaces", {"fine"})>>),
     PassUnless("2.3.15",
       <<Skips("rsync", {"absent"}), Fails("rsync.service", {"enabled"}),
         Fails("RSYNC_ENABLE", {"wrong"})>>),
     ServiceNotInstalled("2.3.16", "nisServer")})

(* 5.2 SSH.  The settings are fields of the Hardening collector. *)

SSHFiles ==
  In("SSH",
    {Shared("V-238201", FilePerm("5.2.1", "/etc/ssh/sshd_config")),
     PassUnless("5.2.3",
       <<Skips("/etc/ssh", NotRead), Skips("public host keys", {"absent"}),
         Fails("public host keys", {"open"})>>),
     PassUnless("5.2.4",
       <<Skips("/etc/ssh", NotRead), Skips("private host keys", {"absent"}),
         Fails("private host keys", {"open"})>>)})

Setting(id, field) == PassUnless(id, <<Fails(field, {"wrong"})>>)
SSHLogin ==
  In("SSH",
    {Shared("V-238202", Setting("5.2.2", "AllowUsers")),
     Shared("V-238209", Setting("5.2.5", "LogLevel")),
     Shared("V-238216", Setting("5.2.6", "X11Forwarding")),
     Shared("V-238217", Setting("5.2.7", "MaxAuthTries")),
     Shared("V-238218", Setting("5.2.8", "IgnoreRhosts")),
     Shared("V-238219", Setting("5.2.9", "HostbasedAuth")),
     Shared("V-238210", Setting("5.2.10", "PermitRoot")),
     Shared("V-238211", Setting("5.2.11", "PermitEmptyPwd")),
     Shared("V-238212", Setting("5.2.12", "PermitUserEnv"))})

\* These ask for themselves whether the configuration was read.
NoConfig == Unverified("SSHConfigUnreadable", {"set"})
ReadSetting(id, field) == PassUnless(id, <<NoConfig, Fails(field, {"wrong"})>>)
SSHSessions ==
  In("SSH",
    {Shared("V-238220", PassUnless("5.2.13", <<Fails("ClientAliveInterval", {"unset"})>>)),
     Shared("V-238206", Setting("5.2.14", "LoginGraceTime")),
     Shared("V-238225", Setting("5.2.15", "Banner")),
     PassUnless("5.2.16", <<Fails("ClientAliveInterval", {"unset", "over"})>>),
     Shared("V-238222", ReadSetting("5.2.17", "TCPForwarding")),
     Shared("V-238223",
       PassUnless("5.2.18",
         <<NoConfig, Unverified("MaxStartups", {"garbled"}), Fails("MaxStartups", {"wrong"})>>)),
     Shared("V-238224", Setting("5.2.19", "MaxSessions"))})

Algorithms(id, field) ==
  PassUnless(id, <<NoConfig, Unverified(field, {"unset"}), Fails(field, {"wrong"})>>)
SSHStrength ==
  In("SSH",
    Each(ReadSetting,
      {<<"5.2.20", "PasswordAuth">>, <<"5.2.21", "StrictModes">>,
       <<"5.2.22", "AgentForwarding">>, <<"5.2.23", "Protocol1">>, <<"5.2.24", "PubkeyAuth">>})
    \cup Each(Algorithms,
      {<<"5.2.25", "Ciphers">>, <<"5.2.26", "MACs">>, <<"5.2.27", "KexAlgorithms">>}))

SSHOwnership ==
  In("SSH",
    {FileOwnerRootRoot("5.2.28", "/etc/ssh/sshd_config"),
     PassUnless("5.2.29",
       <<Skips("/etc/ssh", NotRead), Skips("public host keys", {"absent"}),
         Fails("public host keys", {"alien"})>>),
     PassUnless("5.2.30",
       <<Skips("/etc/ssh", NotRead), Skips("private host keys", {"absent"}),
         Fails("private host keys", {"alien"})>>)})

STIGSSH ==
  In("SSH", STIGOnly(
    Each(LAMBDA id, field : PassUnless(id, <<Fails(field, {"unset", "wrong"})>>),
      {<<"V-238213", "Ciphers">>, <<"V-238214", "MACs">>, <<"V-238215", "KexAlgorithms">>})
    \cup {ReadSetting("V-238221", "ClientAliveCountMax"), Setting("V-238226", "StrictModes")}))

-------------------------------------------------------------------------------
(* 3 Network *)

Routing ==
  In("Network",
    {Shared("V-238327", Sysctl("3.1.1", "net.ipv4.ip_forward")),
     Sysctl("3.1.2", "net.ipv4.conf.all.send_redirects"),
     Sysctl("3.1.3", "net.ipv4.conf.default.send_redirects"),
     Shared("V-238328", Sysctl("3.2.1", "net.ipv4.conf.all.accept_source_route")),
     Shared("V-238329", Sysctl("3.2.2", "net.ipv4.conf.all.accept_redirects")),
     Sysctl("3.2.3", "net.ipv4.conf.all.secure_redirects"),
     Shared("V-238331", Sysctl("3.2.4", "net.ipv4.conf.all.log_martians"))})

NetworkParameters ==
  In("Network",
    Each(Sysctl,
      {<<"3.2.5", "net.ipv4.icmp_echo_ignore_broadcasts">>,
       <<"3.2.6", "net.ipv4.icmp_ignore_bogus_error_responses">>,
       <<"3.2.7", "net.ipv4.conf.all.rp_filter">>, <<"3.2.8", "net.ipv4.tcp_syncookies">>,
       <<"3.2.9", "net.ipv6.conf.all.accept_ra">>,
       <<"3.2.10", "net.ipv6.conf.all.accept_redirects">>,
       <<"3.2.11", "net.ipv4.conf.default.send_redirects">>,
       <<"3.2.12", "net.ipv4.conf.default.accept_source_route">>,
       <<"3.2.13", "net.ipv4.conf.default.accept_redirects">>,
       <<"3.2.14", "net.ipv4.conf.default.secure_redirects">>,
       <<"3.2.15", "net.ipv4.conf.default.log_martians">>,
       <<"3.2.16", "net.ipv4.conf.default.rp_filter">>,
       <<"3.2.17", "net.ipv6.conf.default.accept_ra">>,
       <<"3.2.18", "net.ipv6.conf.default.accept_redirects">>})
    \cup Level2({Sysctl("3.2.22", "net.ipv4.tcp_timestamps")}))

\* Seven of these look again at what an earlier rule looks at.
MoreNetworkParameters ==
  In("Network",
    Each(Sysctl,
      {<<"3.2.23", "net.ipv4.conf.all.arp_ignore">>,
       <<"3.2.24", "net.ipv4.conf.all.arp_announce">>,
       <<"3.2.25", "net.ipv4.conf.default.arp_ignore">>,
       <<"3.2.26", "net.ipv4.conf.default.arp_announce">>, <<"3.2.27", "net.ipv4.tcp_rfc1337">>,
       <<"3.2.28", "net.ipv4.conf.all.route_localnet">>,
       <<"3.2.29", "net.ipv4.conf.default.route_localnet">>,
       <<"3.2.30", "net.ipv4.conf.all.proxy_arp">>,
       <<"3.2.31", "net.ipv4.conf.default.proxy_arp">>,
       <<"3.2.32", "net.ipv4.conf.default.accept_source_route">>,
       <<"3.2.33", "net.ipv4.conf.default.accept_redirects">>,
       <<"3.2.34", "net.ipv4.conf.default.secure_redirects">>,
       <<"3.2.35", "net.ipv4.conf.default.log_martians">>,
       <<"3.2.36", "net.ipv6.conf.default.accept_ra">>,
       <<"3.2.37", "net.ipv6.conf.default.accept_redirects">>,
       <<"3.2.38", "net.ipv6.conf.all.accept_source_route">>,
       <<"3.2.39", "net.ipv6.conf.default.accept_source_route">>}))

RareProtocols ==
  In("Network",
    Level2(Each(ModuleDisabled,
      {<<"3.4.1", "dccp">>, <<"3.4.2", "sctp">>, <<"3.4.3", "rds">>, <<"3.4.4", "tipc">>,
       <<"3.4.5", "bluetooth">>})))

\* MAC stands for SELinux where that is mounted, for AppArmor otherwise.
MAC ==
  In("MAC",
    {PassUnless("3.3.1", <<Fails("MAC", {"none"})>>),
     PassUnless("3.3.2",
       <<Skips("MAC", {"none"}), Unverified("MACMode", {"unknown"}), Fails("MACMode", {"wrong"})>>)})

NotDebian == Skips("/etc/debian_version", {"absent"})
Firewall ==
  In("Network",
    {PassUnless("3.5.1",
       <<Unverified("FirewallUnreadable", {"set"}),
         Fails("FirewallActive", {"off", "config only"})>>),
     PassUnless("3.5.1.1", <<NotDebian, Fails("ufw", {"absent"})>>),
     PassUnless("3.5.1.2", <<NotDebian, Fails("netfilter-persistent", {"installed"})>>),
     PassUnless("3.5.1.3", <<Skips("ufw", {"absent"}), Fails("ufw.service", {"disabled"})>>),
     PassUnless("3.5.1.4",
       <<Skips("before.rules", NotRead), Fails("before.rules", {"wrong"}),
         Fails("before6.rules", {"wrong"})>>)})

FirewallPolicies ==
  In("Network",
    Level2(
      {FailUnless("3.5.1.5",
         <<Skips("/etc/default/ufw", NotRead), Passes("output policy", {"fine"}),
           Fails("user.rules", NotRead), Passes("outbound rules", {"fine"})>>)})
    \cup
    {PassUnless("3.5.1.6",
       <<Skips("ufw", {"absent"}), Unverified("user.rules", NotRead),
         Fails("ListeningPorts", {"uncovered"})>>),
     PassUnless("3.5.1.7",
       <<Skips("/etc/default/ufw", NotRead), Skips("default policies", {"unset"}),
         Fails("default policies", {"wrong"})>>)})

Wireless ==
  In("Network",
    {PassUnless("3.6.1", <<Skips("/sys/class/net", NotRead), Fails("wireless", {"up"})>>)})

-------------------------------------------------------------------------------
(* 1 Filesystem, software, boot and banners *)

Updates ==
  In("Filesystem",
    {PassUnless("1.2.1", <<NotDebian, Fails("apt sources", {"unset"})>>),
     PassUnless("1.2.2", <<NotDebian, Fails("apt keys", {"unset"})>>),
     PassUnless("1.2.3",
       <<NotDebian, Passes("apt.conf.d", NotRead), Fails("AllowUnauthenticated", {"wrong"})>>),
     PassUnless("1.2.4", <<NotDebian, Fails("unattended-upgrades", {"absent"})>>),
     PassUnless("1.3.1", <<Fails("AIDE", {"absent"})>>),
     PassUnless("1.3.2", <<Skips("AIDE", {"absent"}), Fails("AIDEDB", {"none", "old"})>>)})

BootAndModules ==
  In("Filesystem",
    {FilePerm("1.4.1", "grub.cfg"), FileOwnerRootRoot("1.4.2", "grub.cfg")}
    \cup Each(ModuleDisabled,
      {<<"1.1.1.1", "cramfs">>, <<"1.1.1.2", "freevxfs">>, <<"1.1.1.3", "jffs2">>,
       <<"1.1.1.4", "hfs">>, <<"1.1.1.5", "hfsplus">>})
    \cup Level2(Each(ModuleDisabled, {<<"1.1.1.6", "squashfs">>, <<"1.1.1.7", "udf">>})))

MountOptions ==
  In("Filesystem",
    Each(SeparateMountPoint, {<<"1.1.2", "/tmp">>})
    \cup Each(MountOption,
      {<<"1.1.3", <<"/tmp", "nodev">>>>, <<"1.1.4", <<"/tmp", "nosuid">>>>,
       <<"1.1.5", <<"/tmp", "noexec">>>>, <<"1.1.6", <<"/dev/shm", "nodev">>>>,
       <<"1.1.7", <<"/dev/shm", "nosuid">>>>, <<"1.1.8", <<"/dev/shm", "noexec">>>>,
       <<"1.1.9", <<"/var/tmp", "nodev">>>>, <<"1.1.10", <<"/var/tmp", "nosuid">>>>,
       <<"1.1.11", <<"/var/tmp", "noexec">>>>, <<"1.1.14", <<"/home", "nodev">>>>})
    \cup Level2(
      Each(SeparateMountPoint, {<<"1.1.12", "/var/log">>, <<"1.1.13", "/var/log/audit">>})
      \cup Each(MountOption,
        {<<"1.1.15", <<"/home", "nosuid">>>>, <<"1.1.16", <<"/home", "noexec">>>>})
      \cup Each(ModuleDisabled, {<<"1.1.17", "usb-storage">>, <<"1.1.18", "autofs">>})))

KernelHelpersAndAppArmor ==
  In("Kernel",
    {ServiceNotInstalled("1.5.2", "prelink"),
     FailUnless("1.5.3", <<Passes("apport", {"fine", "absent"})>>)})
  \cup In("AppArmor",
    {PassUnless("1.6.1", <<Fails("apparmor_parser", {"absent"})>>),
     PassUnless("1.6.2",
       <<Skips("/etc/default/grub", NotRead), Skips("GRUB_CMDLINE_LINUX", {"unset"}),
         Fails("GRUB_CMDLINE_LINUX", {"wrong"})>>),
     PassUnless("1.6.3",
       <<Unverified("profiles", NotRead), Fails("profiles", {"none"})>>)}
    \cup Level2(
      {PassUnless("1.6.4",
         <<Unverified("profiles", NotRead), Fails("profiles", {"complain"})>>)}))

Banners ==
  LET files == {<<"/etc/motd", "1", "4", "7">>, <<"/etc/issue", "2", "5", "8">>,
                <<"/etc/issue.net", "3", "6", "9">>}
  IN  In("Banners",
        UNION {{BannerContent("1.7." \o f[2], f[1]), FilePerm("1.7." \o f[3], f[1]),
                FileOwnerRootRoot("1.7." \o f[4], f[1])} : f \in files})

StickyAndMedia ==
  In("Filesystem",
    Each(RemovableMediaOption,
      {<<"1.1.19", "nosuid">>, <<"1.1.20", "noexec">>, <<"1.1.21", "nodev">>})
    \cup {PassUnless("1.1.22", <<Fails("WorldWritableDirs", {"found"})>>),
          SeparateMountPoint("1.1.24", "/var/tmp")}
    \cup Level2(
      Each(SeparateMountPoint, {<<"1.1.23", "/var">>, <<"1.1.25", "/home">>})
      \cup Each(MountOption,
        {<<"1.1.26", <<"/var/log", "nodev">>>>, <<"1.1.27", <<"/var/log", "nosuid">>>>,
         <<"1.1.28", <<"/var/log", "noexec">>>>, <<"1.1.29", <<"/var", "nodev">>>>,
         <<"1.1.30", <<"/var", "nosuid">>>>, <<"1.1.31", <<"/home", "nosuid">>>>,
         <<"1.1.32", <<"/home", "noexec">>>>})))

-------------------------------------------------------------------------------
(* 4 Audit and logging *)

NoAuditd == Skips("AuditRules", {"absent"})
AuditdSettings ==
  In("Audit",
    {Shared("V-238360", PassUnless("4.1.1", <<Fails("AuditRules", {"absent"})>>))}
    \cup Level2(
      {PassUnless("4.1.1.1",
         <<NoAuditd, Unverified("auditd.conf", NotRead), Unverified("max_log_file", {"garbled"}),
           Fails("max_log_file", {"wrong", "unset"})>>),
       PassUnless("4.1.1.2",
         <<NoAuditd, Unverified("auditd.conf", NotRead),
           Fails("max_log_file_action", {"wrong", "unset"})>>),
       PassUnless("4.1.1.3",
         <<NoAuditd, Unverified("auditd.conf", NotRead),
           Fails("space_left_actions", {"wrong", "unset"})>>)}))

AuditAtBoot ==
  In("Audit",
    Level2(
      Each(LAMBDA id, param :
             PassUnless(id,
               <<NoAuditd, Unverified("/proc/cmdline", NotRead), Fails(param, {"wrong", "unset"})>>),
           {<<"4.1.1.4", "audit_backlog_limit">>, <<"4.1.1.5", "audit=1">>})))
  \cup In("Audit",
    {Shared("V-238361", PassUnless("4.1.2", <<NoAuditd, Fails("AuditRules", {"empty"})>>))})

AuditedEvents ==
  In("Audit",
    Level2(Each(AuditRule,
      {<<"4.1.3", "time">>, <<"4.1.4", "identity">>, <<"4.1.5", "network environment">>,
       <<"4.1.6", "MAC policy">>, <<"4.1.7", "logins">>, <<"4.1.8", "sessions">>,
       <<"4.1.9", "permission changes">>, <<"4.1.10", "refused access">>,
       <<"4.1.11", "privileged commands">>, <<"4.1.12", "mounts">>, <<"4.1.13", "deletions">>,
       <<"4.1.14", "sudoers scope">>, <<"4.1.15", "sudo log">>, <<"4.1.16", "modules">>,
       <<"4.1.17", "immutable">>})))

\* A journald.conf of comments alone has lines for 4.2.2 and no configuration
\* for the other two.
Journald ==
  In("Audit",
    {PassUnless("4.2.1", <<Fails("rsyslog", {"absent"})>>),
     PassUnless("4.2.2",
       <<Skips("journald.conf", NotRead), Fails("journald.conf", {"empty"}),
         Fails("ForwardToSyslog", {"unset"})>>)}
    \cup Each(LAMBDA id, key :
                PassUnless(id, <<Skips("journald.conf", NotRead \cup {"empty"}), Fails(key, {"unset"})>>),
              {<<"4.2.2.2", "Compress">>, <<"4.2.2.3", "Storage">>}))

RemoteLogging ==
  In("Audit",
    Level2({PassUnless("4.2.3",
              <<Skips("rsyslog.conf", NotRead), Fails("remote log host", {"unset"})>>)})
    \cup {PassUnless("4.2.4",
            <<Passes("rsyslog.conf", NotRead), Fails("network receiver", {"found"})>>)})

LogForwarding ==
  In("Audit",
    Level2(
      {PassUnless("4.2.5",
         <<Fails("rsyslog.conf", NotRead), Fails("FileCreateMode", {"wrong", "unset"})>>),
       PassUnless("4.2.6",
         <<Skips("rsyslog", {"absent"}), Fails("rsyslog.conf", NotRead),
           Fails("remote log host", {"unset", "UDP"})>>)}))

LogFiles ==
  In("Audit",
    {PassUnless("4.2.7",
       <<Skips("/var/log", {"absent"}), Fails("log files", {"open"}),
         Unverified("log directories", {"refused"})>>),
     PassUnless("4.3.1", <<Fails("logrotate", {"unset"} \cup NotRead)>>)})

-------------------------------------------------------------------------------
(* 5.3 to 5.5 Authentication *)

NoSudoers == Unverified("SudoersUnreadable", {"set"})
NoShadow == Unverified("ShadowUnreadable", {"set"})
Sudo ==
  In("Auth",
    {PassUnless("5.3.1", <<Fails("sudo", {"absent"})>>),
     Shared("V-238380", LoginDefsField("5.4.1", "PASS_MAX_DAYS")),
     PassUnless("5.4.2", <<NoShadow, Fails("StalePasswordAccounts", {"found"})>>)}
    \cup Each(LAMBDA id, field : PassUnless(id, <<NoSudoers, Fails(field, {"wrong"})>>),
      {<<"5.3.2", "SudoDefaultsPTY">>, <<"5.3.3", "SudoDefaultsLogfile">>,
       <<"5.3.4", "SudoNopasswd">>}))

PasswordAging ==
  In("Auth",
    {LoginDefsField("5.4.3", "ENCRYPT_METHOD"), LoginDefsField("5.4.4", "PASS_MIN_DAYS"),
     LoginDefsField("5.4.6", "PASS_WARN_AGE"),
     PassUnless("5.4.5",
       <<Skips("/etc/default/useradd", NotRead), Fails("GROUP", {"wrong", "unset"})>>),
     PassUnless("5.4.7",
       <<Skips("/etc/default/useradd", NotRead), Unverified("INACTIVE", {"garbled"}),
         Fails("INACTIVE", {"wrong", "unset"})>>),
     PassUnless("5.4.8",
       <<Unverified("passwd", NotRead), Fails("system account shells", {"wrong"})>>)})

\* The first source that says something decides.
PasswordStrength ==
  In("Auth",
    {PassUnless("5.4.9",
       <<Skips("pwquality.conf", NotRead), Fails("minlen", {"wrong", "unset"})>>),
     PassUnless("5.4.10",
       <<Fails("deny", {"wrong", "garbled"}), Passes("deny", {"fine"}),
         Fails("common-auth", NotRead), Fails("lockout module", {"unset"})>>),
     PassUnless("5.4.11",
       <<Fails("ENCRYPT_METHOD", {"wrong"}), Passes("ENCRYPT_METHOD", {"fine"}),
         Fails("common-password", NotRead), Fails("pam_unix hash", {"wrong"})>>)})

PasswordHistory ==
  In("Auth",
    {PassUnless("5.4.12",
       <<Skips("common-password", NotRead), Fails("remember", {"wrong", "unset"})>>)}
    \cup Each(LAMBDA id, key :
                PassUnless(id,
                  <<Skips("faillock.conf", NotRead), Fails(key, {"wrong", "garbled", "unset"})>>),
              {<<"5.4.13", "unlock_time">>, <<"5.4.14", "fail_interval">>}))

PAMAndTimestamp ==
  In("Auth",
    {PassUnless("5.4.15", <<Skips("pwquality.conf", NotRead), Fails("character classes", {"unset"})>>),
     PassUnless("5.4.16", <<Skips("common-password", NotRead), Fails("retry", {"wrong", "unset"})>>),
     PassUnless("5.4.17", <<Skips("pam.d", NotRead), Fails("nullok", {"found"})>>),
     PassUnless("5.3.5", <<NoSudoers, Fails("SudoTimestamp", {"wrong"})>>)})

RootTerminals ==
  In("Auth",
    {PassUnless("5.5.1", <<Fails("/etc/securetty", NotRead \cup {"empty"})>>),
     PassUnless("5.5.2", <<Skips("pam.d/su", NotRead), Fails("pam_wheel", {"unset"})>>),
     PassUnless("5.5.3", <<Fails("umask", {"wrong", "unset"}), Unverified("umask", {"garbled"})>>)})
IdleShells ==
  In("Auth", {PassUnless("5.5.4", <<Fails("TMOUT", {"wrong", "unset"})>>)})

\* The dedicated rule for V-238380 is stricter than the one CIS shares with it.
STIGAuth ==
  In("Auth", STIGOnly(
    {PassUnless("V-238380",
       <<Skips("/etc/login.defs", NotRead), Fails("PASS_MAX_DAYS", {"over 60", "wrong", "unset"})>>),
     LoginDefsField("V-238382", "PASS_MIN_DAYS"), LoginDefsField("V-238383", "PASS_WARN_AGE"),
     PassUnless("V-238384",
       <<Skips("common-auth", NotRead), Fails("pam_faildelay", {"wrong", "unset"})>>)}))

-------------------------------------------------------------------------------
(* 5.1 Cron, 6.1 Files *)

\* Access is by an allow list alone.
AllowList(id, name) ==
  PassUnless(id, <<Fails(name \o ".allow", {"absent"}), Fails(name \o ".deny", {"fine", "open", "alien"})>>)
Cron ==
  In("Cron",
    {PassUnless("5.1.1", <<Fails("cron.service", {"disabled"})>>),
     AllowList("5.1.8", "/etc/cron"), AllowList("5.1.9", "/etc/at")}
    \cup Each(FilePerm,
      {<<"5.1.2", "/etc/crontab">>, <<"5.1.3", "/etc/cron.hourly">>,
       <<"5.1.4", "/etc/cron.daily">>, <<"5.1.5", "/etc/cron.weekly">>,
       <<"5.1.6", "/etc/cron.monthly">>, <<"5.1.7", "/etc/cron.d">>})
    \cup Each(FileOwnerRootRoot,
      {<<"5.1.10", "/etc/crontab">>, <<"5.1.11", "/etc/cron.hourly">>,
       <<"5.1.12", "/etc/cron.daily">>, <<"5.1.13", "/etc/cron.weekly">>,
       <<"5.1.14", "/etc/cron.monthly">>, <<"5.1.15", "/etc/cron.d">>}))

CronLists ==
  LET files == {<<"/etc/cron.allow", "16", "17">>, <<"/etc/cron.deny", "18", "19">>,
                <<"/etc/at.allow", "20", "21">>, <<"/etc/at.deny", "22", "23">>}
  IN  In("Cron",
        UNION {{FilePerm("5.1." \o f[2], f[1]), FileOwnerRootRoot("5.1." \o f[3], f[1])} :
                 f \in files})

AccountFiles ==
  In("Files",
    {Shared("V-238401", FilePerm("6.1.1", "/etc/passwd")),
     Shared("V-238402", FilePerm("6.1.2", "/etc/shadow")),
     Shared("V-238403", FilePerm("6.1.3", "/etc/group"))}
    \cup Each(FilePerm,
      {<<"6.1.4", "/etc/passwd-">>, <<"6.1.5", "/etc/shadow-">>, <<"6.1.6", "/etc/gshadow">>,
       <<"6.1.7", "/etc/gshadow-">>, <<"6.1.8", "/etc/group-">>})
    \cup Each(FileOwnerRootRoot,
      {<<"6.1.9", "/etc/passwd">>, <<"6.1.11", "/etc/group">>, <<"6.1.12", "/etc/passwd-">>,
       <<"6.1.15", "/etc/group-">>})
    \cup Each(FileOwnerRootRootOrShadow,
      {<<"6.1.10", "/etc/shadow">>, <<"6.1.13", "/etc/shadow-">>, <<"6.1.16", "/etc/gshadow">>,
       <<"6.1.17", "/etc/gshadow-">>}))

\* Permissions and owner of each file are two rules; the directory sudoers.d
\* has none for its owner.
SystemFiles ==
  LET files == {<<"/etc/sudoers", "18", "19">>, <<"/etc/audit/auditd.conf", "21", "22">>,
                <<"/etc/hosts", "23", "26">>, <<"/etc/hosts.allow", "24", "27">>,
                <<"/etc/hosts.deny", "25", "28">>, <<"/etc/resolv.conf", "29", "30">>,
                <<"/etc/sysctl.conf", "31", "32">>, <<"/etc/environment", "33", "34">>,
                <<"/etc/profile", "35", "36">>, <<"/etc/login.defs", "37", "38">>}
  IN  In("Files",
        {FilePerm("6.1.20", "/etc/sudoers.d")}
        \cup UNION {{FilePerm("6.1." \o f[2], f[1]), FileOwnerRootRoot("6.1." \o f[3], f[1])} :
                      f \in files})

-------------------------------------------------------------------------------
(* 6.2 Users *)

Of(file, id, item) == PassUnless(id, <<Unverified(file, NotRead), Fails(item, {"found"})>>)

Accounts ==
  In("Users",
    {Shared("V-238408", PassUnless("6.2.1", <<NoShadow, Fails("EmptyPasswordAccounts", {"found"})>>)),
     Shared("V-238410",
       PassUnless("6.2.2", <<Fails("NIS entries", {"found"}), Unverified("shadow", NotRead)>>)),
     Shared("V-238411", PassUnless("6.2.3", <<Fails("UID0Users", {"found"})>>)),
     PassUnless("6.2.4", <<NoShadow, Fails("EmptyPasswordAccounts", {"found"})>>),
     Of("passwd", "6.2.5", "duplicate UIDs")})
  \cup In("Files", {PassUnless("6.1.14", <<Fails("SUIDBinaries", {"found"})>>)})

Duplicates ==
  In("Users",
    {Of("group", "6.2.6", "duplicate GIDs"), Of("passwd", "6.2.7", "duplicate users"),
     Of("group", "6.2.8", "duplicate groups"), Of("passwd", "6.2.9", "UID0Users")})

NoHomes == <<Unverified("passwd", NotRead), Unverified("homes", {"none", "refused"})>>
RootPathAndHomes ==
  In("Users",
    {PassUnless("6.2.10",
       <<Skips("environment", NotRead), Skips("PATH", {"unset"}), Fails("PATH", {"wrong"})>>),
     PassUnless("6.2.11", NoHomes \o <<Fails("home owners", {"found"})>>),
     PassUnless("6.2.12", NoHomes \o <<Fails("home modes", {"found"})>>)})

\* The first lists the home and says so when it cannot; the others look up one
\* name inside.
HomeContents ==
  In("Users",
    {PassUnless("6.2.13",
       NoHomes \o <<Unverified("inside homes", {"refused"}), Fails("dot files", {"found"})>>),
     PassUnless("6.2.14", NoHomes \o <<Fails(".forward", {"found"})>>)})
HomeSecrets ==
  In("Users",
    {PassUnless("6.2.15", NoHomes \o <<Fails(".netrc", {"found"})>>),
     PassUnless("6.2.16", NoHomes \o <<Fails(".rhosts", {"found"})>>)})

Groups ==
  In("Users",
    {PassUnless("6.2.17",
       <<Unverified("group", NotRead), Unverified("passwd", NotRead),
         Fails("undefined GIDs", {"found"})>>),
     Of("group", "6.2.18", "shadow members")})

CISRules ==
  UNION {KernelParameters, TimeSynchronization, UnneededServices, LocalServices, SSHFiles,
         SSHLogin, SSHSessions, SSHStrength, SSHOwnership, STIGSSH, Routing, NetworkParameters,
         MoreNetworkParameters, RareProtocols, MAC, Firewall, FirewallPolicies, Wireless, Updates,
         BootAndModules, MountOptions, KernelHelpersAndAppArmor, Banners, StickyAndMedia,
         AuditdSettings, AuditAtBoot, AuditedEvents, Journald, RemoteLogging, LogForwarding,
         LogFiles, Sudo, PasswordAging, PasswordStrength, PasswordHistory, PAMAndTimestamp,
         RootTerminals, IdleShells, STIGAuth, Cron, CronLists, AccountFiles, SystemFiles,
         Accounts, Duplicates, RootPathAndHomes, HomeContents, HomeSecrets, Groups}

-------------------------------------------------------------------------------
(* The rules that are evidence for each article of NIS2, and for each         *)
(* requirement of the BSI IT-Grundschutz.                                     *)

Ids(prefix, numbers) == {prefix \o ToString(n) : n \in numbers}

IncidentHandling ==
  Ids("4.1.1.", 1..5) \cup Ids("4.1.", 2..17)
  \cup Ids("4.2.", 1..7) \cup Ids("4.2.2.", 2..3) \cup {"4.3.1"}
SupplyChain == Ids("1.2.", 1..4) \cup Ids("1.3.", 1..2)
Development ==
  Ids("1.1.1.", 1..7) \cup Ids("1.5.", (1..12) \cup (14..18)) \cup Ids("1.6.", 1..4)
  \cup Ids("3.4.", 1..5) \cup {"3.6.1"}
CyberHygiene ==
  Ids("2.1.", 1..2) \cup Ids("2.2.", 1..5) \cup Ids("2.3.", 1..16) \cup Ids("3.1.", 1..3)
  \cup Ids("3.2.", (1..18) \cup (22..39)) \cup Ids("3.3.", 1..2) \cup Ids("1.7.", 1..9)
  \cup Ids("5.2.", {2, 15, 16, 18, 19} \cup (6..13) \cup (21..24) \cup (28..30))
  \cup Ids("5.4.", {1, 9, 11, 12} \cup (15..17))
Cryptography ==
  Ids("5.2.", (3..5) \cup (25..27)) \cup {"5.4.11"} \cup Ids("1.4.", 1..2)
AccessControl ==
  Ids("5.1.", 1..23) \cup Ids("5.3.", 1..5) \cup Ids("5.4.", 2..8) \cup Ids("5.2.", {14, 16})
  \cup Ids("6.1.", 1..38) \cup Ids("6.2.", 1..18) \cup {"3.5.1"} \cup Ids("3.5.1.", 1..7)
SecuredCommunications ==
  Ids("5.2.", {14, 17, 20}) \cup Ids("5.4.", {10, 12, 13, 14}) \cup Ids("5.5.", 1..4)

NIS2 ==
  [a |-> {}, b |-> IncidentHandling, c |-> {}, d |-> SupplyChain, e |-> Development, f |-> {},
   g |-> CyberHygiene, h |-> Cryptography, i |-> AccessControl, j |-> SecuredCommunications]

-------------------------------------------------------------------------------
\* SYS.1.3, the Linux server.
LinuxServer ==
  [A2 |-> Ids("6.2.", {1} \cup (3..9) \cup (17..18)),
   A3 |-> Ids("1.1.", 19..21) \cup {"3.6.1"},
   A4 |-> Ids("1.5.", (1..6) \cup (11..12) \cup (16..18)),
   A5 |-> Ids("1.2.", 1..4) \cup Ids("1.3.", 1..2),
   A6 |-> Ids("5.3.", 1..3) \cup Ids("6.1.", (1..3) \cup (9..11) \cup {14}) \cup {"6.2.2"},
   A8 |-> Ids("5.2.", 2..30) \cup {"2.2.2", "2.2.4"},
   A10 |-> Ids("1.6.", 1..4) \cup Ids("3.3.", 1..2),
   A14 |-> Ids("1.5.", (7..10) \cup (14..15)) \cup {"4.2.7", "6.1.6", "6.1.17"}
           \cup Ids("1.7.", 1..9)]

\* SYS.1.1, the server in general.
Server ==
  [A2 |-> Ids("5.3.", 4..5) \cup Ids("5.4.", 1..17) \cup Ids("5.5.", 1..4) \cup Ids("6.1.", 18..20),
   A5 |-> Ids("1.1.1.", 1..7) \cup {"3.6.1"},
   A6 |-> Ids("2.2.", {1, 3, 5}) \cup Ids("2.3.", 1..16) \cup Ids("3.4.", 1..5),
   A10 |-> (IncidentHandling \ {"4.2.7"}),
   A16 |-> Ids("3.1.", 1..3) \cup Ids("3.2.", (1..18) \cup (22..39))
           \cup Ids("1.1.", (2..18) \cup (22..32)) \cup Ids("6.1.", 23..38)
           \cup Ids("6.2.", 10..16),
   A19 |-> {"3.5.1"} \cup Ids("3.5.1.", 1..7),
   A27 |-> Ids("1.3.", 1..2)]

\* OPS.1.1, operations.
Operations ==
  [AutoUpdate |-> {"1.2.4"}, PackageSigning |-> Ids("1.2.", 1..3), Clocks |-> Ids("2.1.", 1..2)]

\* Requirements no rule is evidence for.
Unmapped == {"SYS.1.3.A16", "SYS.1.3.A17", "SYS.1.1.A9", "SYS.1.1.A33", "SYS.1.1.A34", "SYS.1.1.A36"}
Requirements ==
  {"SYS.1.3." \o r : r \in DOMAIN LinuxServer} \cup {"SYS.1.1." \o r : r \in DOMAIN Server}
  \cup DOMAIN Operations \cup Unmapped
BSI ==
  [q \in Requirements |->
     UNION ({LinuxServer[r] : r \in {s \in DOMAIN LinuxServer : "SYS.1.3." \o s = q}}
            \cup {Server[r] : r \in {s \in DOMAIN Server : "SYS.1.1." \o s = q}}
            \cup {Operations[r] : r \in {s \in DOMAIN Operations : s = q}})]

===============================================================================
