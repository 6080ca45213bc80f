------------------------------ MODULE SecurityFacts ------------------------------
(***************************************************************************)
(* What the rules of internal/cis are given: files they read themselves,   *)
(* and the fields that the collectors Hardening and KernelSec fill in.     *)
(* A host is a function from items to readings, fine where it names none;  *)
(* hidden are the sources that this user may not read.  A collector that   *)
(* delivered nothing leaves Go's zero values.                              *)
(***************************************************************************)

\* One function over another.
f ++ g == [x \in DOMAIN f \cup DOMAIN g |-> IF x \in DOMAIN f THEN f[x] ELSE g[x]]

\* What is fine, and what is not, in a field no configuration set.
OnUnlessSet == {"PasswordAuth", "TCPForwarding", "AgentForwarding"}
SafeUnlessSet == {"IgnoreRhosts", "StrictModes", "PubkeyAuth"}
WrongUnlessSet == {"AllowUsers", "MaxAuthTries", "LoginGraceTime", "Banner", "MaxStartups"}
OffUnlessSet ==
  {"LogLevel", "X11Forwarding", "HostbasedAuth", "PermitRoot", "PermitEmptyPwd",
   "PermitUserEnv", "MaxSessions", "Protocol1"}
Lists == {"Ciphers", "MACs", "KexAlgorithms"}

SSHFields ==
  OnUnlessSet \cup SafeUnlessSet \cup WrongUnlessSet \cup OffUnlessSet \cup Lists
  \cup {"ClientAliveInterval", "ClientAliveCountMax"}

NothingSet ==
  [f \in Lists \cup {"ClientAliveInterval"} |-> "unset"] ++ [f \in WrongUnlessSet |-> "wrong"]
ZeroSSH == [f \in SafeUnlessSet |-> "wrong"] ++ NothingSet
CompiledSSH == [f \in OnUnlessSet |-> "wrong"] ++ NothingSet

\* What sshd itself uses for a keyword the configuration leaves out, and what
\* the parser of the file makes of it.
DaemonDefault ==
  [Ciphers |-> "fine", MACs |-> "wrong", KexAlgorithms |-> "fine", ClientAliveCountMax |-> "wrong"]
FileDefault ==
  [f \in Lists |-> "unset"] ++ [ClientAliveCountMax |-> "fine"]
WithDefaults(host, default) ==
  [f \in SSHFields \cap DOMAIN host |-> IF host[f] = "default" THEN default[f] ELSE host[f]]

Has(host, item) == item \notin DOMAIN host \/ host[item] # "absent"
Readable(host, hidden, source) ==
  source \notin hidden /\ (source \notin DOMAIN host \/ host[source] \notin {"absent", "refused"})

\* sshd -T gives the merged configuration and needs root; otherwise the file
\* and its drop-ins are parsed.  A refused file marks the configuration
\* unreadable even when a drop-in was read.
SSHFacts(host, hidden) ==
  IF Readable(host, hidden, "sshd -T")
  THEN WithDefaults(host, DaemonDefault)
  ELSE IF Readable(host, hidden, "sshd_config")
  THEN WithDefaults(host, FileDefault)
  ELSE CompiledSSH ++ [SSHConfigUnreadable |-> "set"]
       ++ IF "drop-in" \in DOMAIN host THEN <<>> ELSE [SSHAuditSource |-> "none"]

SudoFields == {"SudoDefaultsPTY", "SudoDefaultsLogfile", "SudoNopasswd", "SudoTimestamp"}
NoDefaults == [f \in {"SudoDefaultsPTY", "SudoDefaultsLogfile"} |-> "wrong"]
SudoFacts(host, hidden) ==
  IF Readable(host, hidden, "sudoers") THEN [f \in SudoFields \cap DOMAIN host |-> host[f]]
  ELSE NoDefaults ++ IF Has(host, "sudoers") THEN [SudoersUnreadable |-> "set"] ELSE <<>>

ShadowFields == {"EmptyPasswordAccounts", "StalePasswordAccounts"}
AccountFacts(host, hidden) ==
  IF Readable(host, hidden, "shadow") THEN [f \in ShadowFields \cap DOMAIN host |-> host[f]]
  ELSE IF Has(host, "shadow") THEN [ShadowUnreadable |-> "set"] ELSE <<>>

\* firewall-cmd, ufw, nft and iptables in turn; an unreadable ruleset is not an
\* empty one.
FirewallFacts(host, hidden) ==
  IF "firewall" \in hidden THEN [FirewallUnreadable |-> "set", FirewallActive |-> "off"]
  ELSE [f \in {"FirewallActive"} \cap DOMAIN host |-> host[f]]

\* auditctl -l: a refusal is told from other failures by its wording.
AuditFacts(host, hidden) ==
  IF "auditctl" \in hidden /\ Has(host, "AuditRules")
  THEN [AuditRules |-> "absent", AuditRulesUnreadable |-> "set"]
  ELSE [f \in {"AuditRules"} \cap DOMAIN host |-> host[f]]

\* The database behind a directory the user may not enter counts as missing.
AIDEFacts(host, hidden) ==
  (IF "AIDE database" \in hidden THEN [AIDEDB |-> "none"] ELSE <<>>)
  ++ [f \in {"AIDE", "AIDEDB"} \cap DOMAIN host |-> host[f]]

\* From files and directories that everybody can read.
PublicFields == {"UID0Users", "ListeningPorts", "WorldWritableDirs"}
Hardening(host, hidden) ==
  SSHFacts(host, hidden) ++ SudoFacts(host, hidden) ++ AccountFacts(host, hidden)
  ++ FirewallFacts(host, hidden) ++ AuditFacts(host, hidden) ++ AIDEFacts(host, hidden)
  ++ [f \in PublicFields \cap DOMAIN host |-> host[f]]
ZeroHardening ==
  ZeroSSH ++ NoDefaults ++ [FirewallActive |-> "off", AuditRules |-> "empty", AIDE |-> "absent"]

\* SELinux is looked for first; the mode of AppArmor is in a file for root.
KernelSec(host, hidden) ==
  (IF "profiles" \in hidden /\ Has(host, "profiles") THEN [MACMode |-> "unknown"] ELSE <<>>)
  ++ [f \in {"MAC", "MACMode"} \cap DOMAIN host |-> host[f]]
ZeroKernelSec == [MAC |-> "none"]

HardeningFields ==
  SSHFields \cup SudoFields \cup ShadowFields \cup PublicFields
  \cup {"FirewallActive", "AuditRules", "AIDE", "AIDEDB", "SUIDBinaries"}
KernelSecFields == {"MAC", "MACMode"}

\* The sources that belong to root; everybody may read the others.
Guarded ==
  {"sshd -T", "sshd_config", "sudoers", "shadow", "firewall", "auditctl", "AIDE database",
   "profiles", "audit rule files", "auditd.conf", "user.rules", "before.rules",
   "log directories", "inside homes"}

-------------------------------------------------------------------------------
(* The files the rules read themselves *)

\* What cannot be seen inside a source that is hidden or not there.
Inside ==
  [ENCRYPT_METHOD |-> "/etc/login.defs", deny |-> "faillock.conf"]
Unseen ==
  [f \in {"dot files", ".forward", ".netrc", ".rhosts"} |-> "inside homes"]
  ++ [f \in {"log files"} |-> "log directories"]

\* Rule files that hold nothing readable were refused if auditctl was.
AuditFiles(host, hidden, fields) ==
  IF Readable(host, hidden, "audit rule files") THEN "fine"
  ELSE IF "AuditRulesUnreadable" \in DOMAIN fields THEN "hidden" ELSE "none"

FileReading(host, hidden, item) ==
  IF item \in DOMAIN Inside /\ ~Readable(host, hidden, Inside[item]) THEN "unset"
  ELSE IF item \in DOMAIN Unseen /\ ~Readable(host, hidden, Unseen[item]) THEN "fine"
  ELSE IF item \in hidden /\ Has(host, item) THEN "refused"
  ELSE IF item \in DOMAIN host THEN host[item] ELSE "fine"

Given(host, hidden, delivered) ==
  LET fields == (IF "Hardening" \in delivered THEN Hardening(host, hidden) ELSE ZeroHardening)
                ++ (IF "KernelSec" \in delivered THEN KernelSec(host, hidden) ELSE ZeroKernelSec)
      files == (DOMAIN host \cup hidden \cup DOMAIN Inside) \ (HardeningFields \cup KernelSecFields)
  IN  fields ++ [i \in {"audit rule files"} |-> AuditFiles(host, hidden, fields)]
      ++ [i \in files |-> FileReading(host, hidden, i)]
===============================================================================
