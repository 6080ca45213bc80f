--------------------------- MODULE SecurityCollectors ---------------------------
(***************************************************************************)
(* The collectors of what protects a host and what threatens it, over the  *)
(* views of HostCollectors.                                                *)
(***************************************************************************)
EXTENDS HostCollectors, Sequences
LOCAL INSTANCE FiniteSetsExt

-------------------------------------------------------------------------------
(* CVEs: the scan of all pending advisories *)

\* An advisory has an id, a rating and the CVEs it names.
Advisory(id, rating, names) == [id |-> id, rating |-> rating, names |-> names]

\* What a scan made of a package manager's list, "" for none: the pending advisories,
\* whether the tool said that there are none, and whether it could not be asked.
Scan(manager, pending, upToDate) ==
  [manager |-> manager, pending |-> pending, upToDate |-> upToDate, failed |-> FALSE]
FailedScan(manager) ==
  [manager |-> manager, pending |-> {}, upToDate |-> FALSE, failed |-> TRUE]

ManagerOnPath(v) ==
  LET there == {m \in {"zypper", "dnf", "apt-get", "pacman", "tdnf"} : Exists(v, m)}
  IN IF "zypper" \in there THEN "zypper" ELSE IF "dnf" \in there THEN "dnf"
     ELSE IF "apt-get" \in there THEN "apt" ELSE IF "pacman" \in there THEN "pacman"
     ELSE IF "tdnf" \in there THEN "tdnf" ELSE ""

\* Any other word is rated low.
Rated(word) == IF word \in {"critical", "important", "moderate"} THEN word ELSE "low"

\* The CVEs that a second query gives for an advisory; none where it does not answer.
NamesOf(v, query, id) == UNION {a.names : a \in {a \in Says(v, query) : a.id = id}}

\* scanAllZypper.  It exits with an error where patches are needed, so it has failed
\* only without a table and without a word; the lock of another zypper is waited for,
\* which "zypp lock" counts, five times.  The table names no CVEs, and one that lists
\* only patches that are not needed does not say that the system is up to date.
ZypperAttempts == 5
NeededPatches(v) ==
  {p \in Says(v, "zypper list-patches") : p.category = "security" /\ p.status = "needed"}
ScanZypper(v) ==
  IF Num(v, "zypp lock", 0) >= ZypperAttempts \/ ~Ok(v, "zypper list-patches")
  THEN FailedScan("zypper")
  ELSE Scan("zypper", {Advisory(p.id, Rated(p.rating), {}) : p \in NeededPatches(v)},
            "no patches" \in Says(v, "zypper message"))

\* scanAllDNF, enrichDNFAdvisoryWithCVEs: the query of dnf 5, or that of dnf 4.
ScanDNF(v) ==
  LET list == IF Ok(v, "dnf advisory list") THEN "dnf advisory list" ELSE "dnf updateinfo list"
  IN IF ~Ok(v, list) THEN FailedScan("dnf")
     ELSE Scan("dnf", {Advisory(a.id, Rated(a.rating), NamesOf(v, "dnf updateinfo info", a.id)) :
                         a \in Says(v, list)}, Says(v, list) = {})

\* aptPackageSeverity: by a part of the package's name, the first list that has it.
CriticalParts == {"linux-image", "linux-kernel", "libc6", "libc-bin", "libc-dev", "pkexec",
                  "polkit", "sudo", "openssh", "openssl", "libssl"}
ImportantParts == {"curl", "wget", "webkit", "javascript", "firefox", "chromium", "docker",
                   "containerd", "runc", "libssh", "nss", "gnutls", "krb5", "bind9", "named",
                   "nginx", "apache2", "python3", "perl", "ruby", "libxml2", "libexpat",
                   "policykit", "dbus"}
ModerateParts == {"util-linux", "bsdutils", "mount", "glib", "freetype", "tiff", "png", "jpeg",
                  "avahi", "ntfs-3g", "kmod", "vim"}
PackageRating(parts) ==
  IF parts \cap CriticalParts # {} THEN "critical"
  ELSE IF parts \cap ImportantParts # {} THEN "important"
  ELSE IF parts \cap ModerateParts # {} THEN "moderate" ELSE "low"

\* scanAllApt: of what would be upgraded, what comes from a security repository.
ScanAPT(v) ==
  LET list == IF Ok(v, "apt-get -s upgrade") THEN "apt-get -s upgrade" ELSE "apt-get -s dist-upgrade"
      updates == {u \in Says(v, list) : u.security}
  IN IF ~Ok(v, list) THEN FailedScan("apt")
     ELSE Scan("apt", {Advisory(u.package, PackageRating(u.parts), {}) : u \in updates},
               updates = {})

\* scanAllPacman, archAuditSeverity
ArchRating(word) ==
  CASE word = "critical" -> "critical" [] word = "high" -> "important"
    [] word = "medium" -> "moderate" [] OTHER -> "low"
ScanPacman(v) ==
  IF ~Exists(v, "arch-audit") \/ ~Ok(v, "arch-audit") THEN FailedScan("pacman")
  ELSE Scan("pacman", {Advisory(a.id, ArchRating(a.rating), a.names) : a \in Says(v, "arch-audit")},
            Says(v, "arch-audit") = {})

\* tdnfHasEnabledRepo: there is one unless a list shows none.
TDNFHasRepo(v) ==
  CASE Ok(v, "tdnf -j repolist") -> "enabled" \in Says(v, "tdnf -j repolist")
    [] Ok(v, "tdnf repolist") -> "enabled" \in Says(v, "tdnf repolist")
    [] OTHER -> TRUE

\* parseTDNFUpdateInfoJSON: one incomplete record, and none of them counts.
TDNFParsed(v) ==
  Ok(v, "tdnf -j updateinfo list") /\ \A e \in Says(v, "tdnf -j updateinfo list") : e.complete

\* scanAllTDNF: the JSON, or the table.  Photon does not rate its advisories.  Where
\* the JSON was answered but could not be used, a table that fails lists nothing.
ScanTDNF(v) ==
  LET list == IF TDNFParsed(v) THEN "tdnf -j updateinfo list" ELSE "tdnf updateinfo list"
  IN IF ~TDNFHasRepo(v) \/ (~Ok(v, "tdnf -j updateinfo list") /\ ~Ok(v, "tdnf updateinfo list"))
     THEN FailedScan("tdnf")
     ELSE Scan("tdnf", {Advisory(e.id, "important", NamesOf(v, "tdnf updateinfo info", e.id)) :
                          e \in Says(v, list)}, Says(v, list) = {})

\* packageMetadataAgeDays, markCVEStaleMetadata: that the system is up to date counts
\* where the metadata is at most a week old.
OnFreshMetadata(v, scan) ==
  IF scan.upToDate /\ (~Ok(v, "metadata") \/ "old" \in Says(v, "metadata"))
  THEN FailedScan(scan.manager) ELSE scan

\* scanAllViaPackageManager; arch-audit keeps no metadata.
ScanByManager(v) ==
  CASE ManagerOnPath(v) = "zypper" -> OnFreshMetadata(v, ScanZypper(v))
    [] ManagerOnPath(v) = "dnf" -> OnFreshMetadata(v, ScanDNF(v))
    [] ManagerOnPath(v) = "apt" -> OnFreshMetadata(v, ScanAPT(v))
    [] ManagerOnPath(v) = "pacman" -> ScanPacman(v)
    [] ManagerOnPath(v) = "tdnf" -> OnFreshMetadata(v, ScanTDNF(v))
    [] OTHER -> FailedScan("")

-------------------------------------------------------------------------------
(* CVEs: a staged OVAL feed *)

\* A feed has a vendor and its definitions d in order: the class, the CVEs, the score
\* (or what stands for the vendor's word), in tenths, the state of the fix, and tests
\* t of packages: their name, the version that fixes it, 0 where none is named, and
\* how an installed one is compared with it.
NoFeed == [vendor |-> "", definitions |-> <<>>]

\* loadOVAL: a feed of no definitions is not one.
Feed(v) ==
  LET read == {f \in Says(v, "oval feed") : f.definitions # <<>>}
  IN IF read = {} THEN NoFeed ELSE CHOOSE f \in read : TRUE

\* QueryInstalledRPM, QueryInstalledDPKG
InstalledSource(vendor) == IF vendor = "ubuntu" THEN "dpkg-query" ELSE "rpm -qa"
Installed(v, vendor) == Says(v, InstalledSource(vendor))
Present(v, vendor, t) == \E p \in Installed(v, vendor) : p.name = t.name

\* IsVulnerable
Outdated(v, vendor, t) ==
  \E p \in Installed(v, vendor) : p.name = t.name /\ p.version < t.version

\* isSUSEPlatformMarker
PlatformMarkers == {"Leap-release", "openSUSE-release", "SLES-release"}

\* scanSUSEPatchClass goes by the name alone, scanSUSEVulnClass by the version.
SUSEPatchApplies(v, d) ==
  d.class = "patch" /\ \E t \in d.tests : t.name \notin PlatformMarkers /\ Present(v, "suse", t)
SUSEVulnApplies(v, d) ==
  /\ d.class = "vulnerability"
  /\ \E t \in d.tests : /\ t.test = "less than" /\ t.name \notin PlatformMarkers
                        /\ Outdated(v, "suse", t)

\* Of a CVE with several, the place in found of the definition that speaks for it.
Naming(found, cve) == {i \in DOMAIN found : cve \in found[i].cves}
EarliestOf(places) == CHOOSE i \in places : \A j \in places : i <= j
CVEsOf(found) == UNION {found[i].cves : i \in DOMAIN found}
Result(cve, score) == [cve |-> cve, score |-> score]

\* ScanSUSEOVALPackages, dedupOVALByCVE: the first, patches before vulnerabilities.
SUSEResults(v, definitions) ==
  LET PatchOf(d) == SUSEPatchApplies(v, d)
      VulnOf(d) == SUSEVulnApplies(v, d)
      found == SelectSeq(definitions, PatchOf) \o SelectSeq(definitions, VulnOf)
  IN {Result(cve, found[EarliestOf(Naming(found, cve))].score) : cve \in CVEsOf(found)}

\* ubuntuEntryMatches: a fix without a version has not come yet.
UbuntuOutdated(v, t) ==
  Present(v, "ubuntu", t) /\ (t.version = 0 \/ Outdated(v, "ubuntu", t))
\* parseUbuntuOVALVersionAware
UbuntuEntry(d) == d.class = "vulnerability"
\* ScanUbuntuOVALPackages
UbuntuResults(v, definitions) ==
  LET Applies(d) == UbuntuEntry(d) /\ \E t \in d.tests : UbuntuOutdated(v, t)
      found == SelectSeq(definitions, Applies)
  IN UNION {{Result(cve, found[i].score) : cve \in found[i].cves} : i \in DOMAIN found}

\* ParseRHELOVAL, scanRHELOVALPackages: the first of the highest score, by name alone,
\* unless there will be no fix.
RHELRefused == {"will not fix", "fix deferred", "not affected"}
RHELResults(v, definitions) ==
  LET Record(d) == d.class = "vulnerability"
      records == SelectSeq(definitions, Record)
      Highest(cve) == {i \in Naming(records, cve) :
                         \A j \in Naming(records, cve) : records[i].score >= records[j].score}
      Of(cve) == records[EarliestOf(Highest(cve))]
  IN {Result(cve, Of(cve).score) :
        cve \in {cve \in CVEsOf(records) : /\ Of(cve).state \notin RHELRefused
                                           /\ \E t \in Of(cve).tests : Present(v, "rhel", t)}}

\* ScanOVALPackages
FeedResults(v) ==
  CASE Feed(v).vendor = "ubuntu" -> UbuntuResults(v, Feed(v).definitions)
    [] Feed(v).vendor = "suse" -> SUSEResults(v, Feed(v).definitions)
    [] OTHER -> RHELResults(v, Feed(v).definitions)

\* ovalToCVEAllResult
ScoreRating(score) ==
  IF score >= 90 THEN "critical" ELSE IF score >= 70 THEN "important"
  ELSE IF score >= 40 THEN "moderate" ELSE "low"

\* scanAllViaOVAL
ScanOVAL(v) ==
  IF Feed(v) = NoFeed \/ ~Ok(v, InstalledSource(Feed(v).vendor)) THEN FailedScan("")
  ELSE Scan("oval", {Advisory(r.cve, ScoreRating(r.score), {r.cve}) : r \in FeedResults(v)}, FALSE)

\* ScanAllCVEs: the feed speaks where there is no package manager at all.
AllCVEs(v) == IF ManagerOnPath(v) = "" THEN ScanOVAL(v) ELSE ScanByManager(v)

\* LoadKEVFromStandardPaths: none is no error.
KEVUnread(v) == Got(v, "kev catalog") \in {"denied", "failed"}

\* EnrichCVEAllWithKEV
KEVMatches(v, scan) ==
  Mark((UNION {a.names : a \in scan.pending}) \cap Says(v, "kev catalog") # {}, "exploited")
  \cup Mark(KEVUnread(v), "kevUnread")

CVEData(v) ==
  LET scan == AllCVEs(v)
  IN [manager |-> scan.manager, ratings |-> {a.rating : a \in scan.pending},
      flags |-> Mark(scan.failed, "scanFailed") \cup KEVMatches(v, scan)]

-------------------------------------------------------------------------------
(* CVEs: dsd cve CVE-... *)

\* The CVE that is asked for, and one whose number begins with that one's.
AskedCVE == "CVE-2024-1234"
LongerCVE == "CVE-2024-12345"
\* strings.Contains does not tell them apart.
Mentions(names) == names \cap {AskedCVE, LongerCVE} # {}

\* checkCVEZypper: of a table in which no security patch is needed the patches are in.
QueriedZypper(v) ==
  IF ~Ok(v, "zypper lp") THEN "unknown"
  ELSE IF "no patches" \in Says(v, "zypper message") THEN "notAffected"
  ELSE IF \E p \in Says(v, "zypper lp") : p.category = "security" /\ p.status = "needed"
  THEN "vulnerable" ELSE "patched"

\* checkCVEDNF: an advisory with packages, or a text of more than 50 characters.
QueriedDNF(v) ==
  LET query == IF Ok(v, "dnf advisory info") THEN "dnf advisory info" ELSE "dnf updateinfo info --cve"
  IN IF ~Ok(v, query) THEN "unknown"
     ELSE IF Says(v, query) = {} THEN "notAffected"
     ELSE IF Says(v, query) \cap {"packages", "long text"} # {} THEN "vulnerable" ELSE "patched"

\* checkCVEApt, checkCVEDebsecan: apt itself knows of no CVEs; lines that are all
\* comments make the CVE patched.
QueriedDebsecan(v) ==
  IF ~Exists(v, "debsecan") \/ ~Ok(v, "debsecan") THEN "unknown"
  ELSE IF "package" \in Says(v, "debsecan") THEN "vulnerable"
  ELSE IF Says(v, "debsecan") = {} THEN "notAffected" ELSE "patched"

\* checkCVEPacman
QueriedPacman(v) ==
  IF ~Exists(v, "arch-audit") \/ ~Ok(v, "arch-audit") THEN "unknown"
  ELSE IF \E a \in Says(v, "arch-audit") : Mentions(a.names) THEN "vulnerable" ELSE "notAffected"

\* checkCVETDNF does not ask whether there is a repository.
QueriedTDNF(v) ==
  IF ~Ok(v, "tdnf updateinfo info") THEN "unknown"
  ELSE IF \E a \in Says(v, "tdnf updateinfo info") : Mentions(a.names)
  THEN "vulnerable" ELSE "notAffected"

StatusByManager(v) ==
  CASE ManagerOnPath(v) = "zypper" -> QueriedZypper(v)
    [] ManagerOnPath(v) = "dnf" -> QueriedDNF(v)
    [] ManagerOnPath(v) = "apt" -> QueriedDebsecan(v)
    [] ManagerOnPath(v) = "pacman" -> QueriedPacman(v)
    [] ManagerOnPath(v) = "tdnf" -> QueriedTDNF(v)
    [] OTHER -> "unknown"

\* CheckCVEFromOVAL, checkCVEFromUbuntuOVAL: the first definition about the CVE; "" where
\* there is none.  collectMatches takes any comparison for that with a fix.
AboutAsked(feed) ==
  {i \in DOMAIN feed.definitions :
     LET d == feed.definitions[i]
     IN IF feed.vendor = "ubuntu" THEN UbuntuEntry(d) /\ AskedCVE \in d.cves
        ELSE Mentions(d.cves)}
StatusByFeed(v) ==
  LET feed == Feed(v)
      Vulnerable(t) == IF feed.vendor = "ubuntu" THEN UbuntuOutdated(v, t)
                       ELSE Outdated(v, feed.vendor, t)
  IN IF AboutAsked(feed) = {} \/ ~Ok(v, InstalledSource(feed.vendor)) THEN ""
     ELSE IF \E t \in feed.definitions[EarliestOf(AboutAsked(feed))].tests : Vulnerable(t)
     THEN "vulnerable" ELSE "notAffected"

\* readDistroID, distroKeyFor
DistroKey(v) ==
  LET id == Says(v, "os-release")
  IN IF "sles" \in id THEN "sles:16" ELSE IF "tumbleweed" \in id THEN "opensuse-tumbleweed"
     ELSE IF "rhel" \in id THEN "rhel:10" ELSE IF "fedora" \in id THEN "fedora:44" ELSE ""

\* LoadSnapshot, Lookup.  An entry e has its CVE and, for distributions by key, the tests
\* of its packages.  trySnapshotFallback: a CVE whose entry has none for this one does
\* not affect it.
StatusBySnapshot(v) ==
  LET entries == {e \in Says(v, "snapshot") : e.cve = AskedCVE}
      tests == UNION {e.affected[DistroKey(v)] :
                        e \in {e \in entries : DistroKey(v) \in DOMAIN e.affected}}
  IN IF entries = {} THEN ""
     ELSE IF tests = {} THEN "notAffected"
     ELSE IF ~Ok(v, "rpm -qa") THEN ""
     ELSE IF \E t \in tests : Outdated(v, "rhel", t) THEN "vulnerable" ELSE "patched"

\* EnrichFromRHAPI: the score, in tenths, where the network may be used and the host is
\* of the family.
RedHatFamily == {"rhel", "rocky", "alma", "centos", "fedora"}
RedHatScore(v) ==
  IF "off" \in Says(v, "network policy") \/ Says(v, "os-release") \cap RedHatFamily = {} THEN 0
  ELSE Num(v, "Red Hat API", 0)

\* CheckCVE: the score and the catalog are asked of the package manager's answer only.
CheckCVE(v) ==
  LET first == StatusByManager(v)
      fallback == IF StatusByFeed(v) # "" THEN StatusByFeed(v) ELSE StatusBySnapshot(v)
  IN IF first \in {"notAffected", "unknown"} /\ fallback # ""
     THEN [status |-> fallback, exploited |-> FALSE, score |-> 0]
     ELSE [status |-> first, exploited |-> AskedCVE \in Says(v, "kev catalog"),
           score |-> RedHatScore(v)]

\* recordCVEResultSeverity, printCVEResult
LookupVerdict(r) ==
  CASE r.status = "vulnerable" -> IF r.exploited \/ r.score >= 90 THEN "CRIT" ELSE "WARN"
    [] r.status = "unknown" -> "unknown"
    [] OTHER -> "OK"

-------------------------------------------------------------------------------
(* Firewall *)

\* A rule r: its target, "policy drop" for the policy of the input chain; of one that
\* accepts the protocol, the ranges of ports, the connections ("established" or "")
\* and whether it is for the loopback.

\* expandNFTPortElem, iptAcceptedDports: the first 1025 ports of a range; of
\* iptables' dpts a wider range is no list of ports at all.
Expanded(range) == range[1] .. (IF range[2] > range[1] + 1024 THEN range[1] + 1024 ELSE range[2])
PortsOf(r, backend) ==
  UNION {Expanded(g) : g \in {g \in r.ports : backend = "nftables" \/ g[2] - g[1] <= 1024}}

\* parseNFTInputAccept, parseIPTInputAccept: what one cannot follow settles nothing.
LetsIn(r) == r.target = "accept" /\ ~r.loopback
Followed(r, backend) ==
  /\ r.target # "jump"
  /\ LetsIn(r) => PortsOf(r, backend) # {} \/ r.proto = "udp" \/ r.conns = "established"
AcceptedPorts(rules, backend) ==
  UNION {PortsOf(r, backend) : r \in {r \in rules : LetsIn(r) /\ r.proto # "udp"}}

\* listeningExposedTCPPorts
ExposedListeners(v) == Says(v, "/proc/net/tcp")

\* correlateBlockedListenersNFT, correlateBlockedListeners
BlockedListeners(v, rules, backend) ==
  IF (\E r \in rules : r.target = "policy drop") /\ (\A r \in rules : Followed(r, backend))
  THEN ExposedListeners(v) \ AcceptedPorts(rules, backend) ELSE {}

\* collectNFTables: the line of the policy is one of the rules.
NFTables(v) ==
  LET rules == Says(v, "nft list ruleset")
  IN IF ~Ok(v, "nft list ruleset") THEN [state |-> "none", flags |-> {"rulesNeedRoot"}]
     ELSE [state |-> IF rules # {} THEN "filtering" ELSE "empty",
           flags |-> Mark(BlockedListeners(v, rules, "nftables") # {}, "blockedListeners")]

\* collectIPTables: the counters are a second query.
IPTables(v) ==
  LET rules == Says(v, "iptables -L")
      counted == IF Ok(v, "iptables -nvL INPUT") THEN rules ELSE {}
  IN IF ~Ok(v, "iptables -L") THEN [state |-> "none", flags |-> {"rulesNeedRoot"}]
     ELSE [state |-> IF \E r \in rules : r.target # "policy drop" THEN "filtering" ELSE "empty",
           flags |-> Mark(BlockedListeners(v, counted, "iptables") # {}, "blockedListeners")]

HostFirewall(v) ==
  IF Exists(v, "nft") THEN NFTables(v)
  ELSE IF Exists(v, "iptables") THEN IPTables(v)
  ELSE [state |-> "none", flags |-> {"stateUnverified"}]

FirewallData(v) ==
  [state |-> HostFirewall(v).state,
   flags |-> HostFirewall(v).flags
     \cup Mark("active" \in Says(v, "systemctl is-active pve-firewall"), "pveFirewall")
     \cup Mark("cloud" \in Says(v, "DMI"), "cloudGuest")]

-------------------------------------------------------------------------------
(* KernelSec *)

\* collectSELinux: the mode the kernel gives, or getenforce.
EnforceNode(v) ==
  LET says == Says(v, "/sys/fs/selinux/enforce")
  IN IF "1" \in says THEN "enforcing" ELSE IF "0" \in says THEN "permissive" ELSE ""
SELinuxMode(v) ==
  IF EnforceNode(v) # "" THEN EnforceNode(v)
  ELSE IF Says(v, "getenforce") # {} THEN CHOOSE mode \in Says(v, "getenforce") : TRUE
  ELSE IF Exists(v, "/sys/fs/selinux") THEN "unknown" ELSE "absent"

\* countAVCsFromAuditLog: the denials of the last hour in the log, in ausearch where
\* it cannot be opened, in the journal where neither is read to its end; a line
\* longer than the scanner's buffer ends the reading.  -1: no one knows.
AuditLogRead(v) == Ok(v, "audit.log") /\ "longLine" \notin Says(v, "audit.log")
AVCDenials(v) ==
  IF AuditLogRead(v) THEN Num(v, "audit.log", 0)
  ELSE IF ~Ok(v, "audit.log") /\ Ok(v, "ausearch") THEN Num(v, "ausearch", 0)
  ELSE IF Ok(v, "journalctl") THEN Num(v, "journalctl", 0) ELSE -1

\* apparmorMode, apparmorDetail: the mode is that of the first profile listed, and
\* either is active.
AppArmorMode(v) ==
  IF "Y" \notin Says(v, "apparmor enabled") THEN "absent"
  ELSE IF Got(v, "apparmor profiles") = "denied" THEN "profilesUnreadable"
  ELSE IF "enforce" \in Says(v, "apparmor profiles") THEN "enforce"
  ELSE IF "complain" \in Says(v, "apparmor profiles") THEN "complain" ELSE "disabled"

\* countAppArmorDenials: what dmesg lists without --since may be of any age.
AppArmorDenials(v) ==
  IF Ok(v, "audit.log")
  THEN IF AuditLogRead(v) THEN Mark("apparmor" \in Says(v, "audit.log"), "denials")
       ELSE {"denialsUnread"}
  ELSE IF Ok(v, "dmesg --since") THEN Mark("apparmor" \in Says(v, "dmesg --since"), "denials")
  ELSE IF Ok(v, "dmesg") THEN Mark("apparmor" \in Says(v, "dmesg"), "denials")
  ELSE {"denialsUnread"}

\* validateSELinuxPolicyType, selinuxPolicyPkgInstalled
PolicyPackage(v) ==
  \/ Ok(v, "rpm -q policy") /\ "notInstalled" \notin Says(v, "rpm -q policy")
  \/ "installed" \in Says(v, "dpkg -s policy")
  \/ ~Exists(v, "/usr/bin/rpm") /\ ~Exists(v, "/usr/bin/dpkg")
PolicyType(v) ==
  IF "SELINUXTYPE" \notin Says(v, "/etc/selinux/config") THEN "unset"
  ELSE IF "otherType" \in Says(v, "/etc/selinux/config") THEN "invalid"
  ELSE IF ~Exists(v, "/etc/selinux/TYPE") THEN "noDirectory"
  ELSE IF ~PolicyPackage(v) THEN "noPackage" ELSE "valid"

KernelSecurityData(v) ==
  LET mode == SELinuxMode(v)
      avc == IF mode = "enforcing" THEN AVCDenials(v) ELSE 0
  IN [selinux |-> mode, avc |-> avc, policy |-> PolicyType(v), apparmor |-> AppArmorMode(v),
      flags |-> Mark(avc = -1, "avcUnread")
        \cup Mark(PolicyType(v) # "unset" /\ Exists(v, "/.autorelabel"), "relabelPending")
        \cup IF AppArmorMode(v) = "absent" THEN {}
             ELSE Mark("complain" \in Says(v, "apparmor profiles"), "complain") \cup AppArmorDenials(v)]

-------------------------------------------------------------------------------
(* Hardening: SSH *)

\* The text of a file, or of what a command prints: a sequence of what its lines say.
TextOf(v, source) ==
  IF Says(v, source) = {} THEN <<>> ELSE CHOOSE text \in Says(v, source) : TRUE

\* parseSSHFileContent: a line has a key, a word and a number; those of a Match block,
\* other than of all, are passed over.
InMatch(lines, i) ==
  LET before == {j \in 1..i - 1 : lines[j].key = "match"}
  IN before # {} /\ lines[Max(before)].word # "all"
Directives(lines) ==
  LET Kept(i) == lines[i].key # "match" /\ ~InMatch(lines, i)
      kept == SelectSeq([i \in DOMAIN lines |-> i], Kept)
  IN [k \in DOMAIN kept |-> lines[kept[k]]]

\* parseSSHConfig: sshd -T, or the file and then its drop-ins, each from outside of a
\* block.  Where sshd takes the first line of a key, this takes the last.
SSHDAnswers(v) == Says(v, "sshd -T") # {}
SSHLines(v) ==
  IF SSHDAnswers(v) THEN Directives(TextOf(v, "sshd -T"))
  ELSE Directives(TextOf(v, "sshd_config")) \o Directives(TextOf(v, "sshd_config.d"))
SSHSetting(v, key, default) ==
  LET Of(line) == line.key = key
      found == SelectSeq(SSHLines(v), Of)
  IN IF found = <<>> THEN default ELSE found[Len(found)]
SSHWord(v, key, default) == SSHSetting(v, key, [word |-> default]).word
SSHNumber(v, key) == SSHSetting(v, key, [number |-> 0]).number

\* sshPort: a line that says 22 does not take back an earlier one.
SSHPort(v) ==
  LET Other(line) == line.key = "port" /\ line.number # 22
      found == SelectSeq(SSHLines(v), Other)
  IN IF found = <<>> THEN 22 ELSE found[Len(found)].number

SSHFiles == {"sshd_config", "sshd_config.d"}
SSHFlags(v) ==
  Mark(SSHWord(v, "permitrootlogin", "no") \notin {"no", "prohibit-password", "without-password"},
       "permitRoot")
  \cup Mark(SSHWord(v, "passwordauthentication", "yes") = "yes", "passwordAuth")
  \cup Mark(SSHWord(v, "permitemptypasswords", "no") = "yes", "permitEmptyPasswords")
  \cup Mark(SSHWord(v, "strictmodes", "yes") = "no", "laxModes")
  \cup Mark(SSHWord(v, "x11forwarding", "no") = "yes", "x11Forwarding")
  \cup Mark(SSHWord(v, "allowagentforwarding", "yes") = "yes", "agentForwarding")
  \cup Mark(SSHWord(v, "ciphers", "strong") = "weak", "weakCiphers")
  \cup Mark(SSHNumber(v, "maxauthtries") > 6, "manyAuthTries")
  \cup Mark(SSHNumber(v, "logingracetime") > 60, "graceTime")
  \cup Mark(SSHNumber(v, "clientaliveinterval") # 0, "aliveInterval")
  \cup Mark(\E i \in DOMAIN SSHLines(v) : SSHLines(v)[i].key = "protocol" /\ SSHLines(v)[i].number = 1,
            "protocol1")
  \cup Mark(SSHDAnswers(v) \/ \E f \in SSHFiles : Ok(v, f), "sshAudited")
  \cup Mark(/\ ~SSHDAnswers(v)
            /\ (\A f \in SSHFiles : ~Ok(v, f)) \/ (\E f \in SSHFiles : Got(v, f) = "denied"),
            "sshConfigUnreadable")

-------------------------------------------------------------------------------
(* Hardening: logins and accounts *)

\* authLogSourceLines: the journal, or the first log file there is, of which only the
\* last lines are read, and none behind one longer than the scanner's buffer.  An entry
\* e of a log says what failed, how many times (count), whole hours ago, whether its
\* time names its zone (zoned), and whether it is out of reach in a file.
AuthFile(v) == IF Exists(v, "/var/log/secure") THEN "/var/log/secure" ELSE "/var/log/auth.log"
AuthSource(v, journal) == IF Ok(v, journal) THEN journal ELSE AuthFile(v)
AuthLog(v, journal) ==
  {e \in Says(v, AuthSource(v, journal)) : Ok(v, journal) \/ "outOfReach" \notin e.flags}

\* parseLogTimestamp: a time without a zone is taken for one of UTC.  The clock of the
\* host is so many hours before UTC.
SeenAge(v, e) == IF "zoned" \in e.flags THEN e.hours ELSE e.hours - Num(v, "/etc/localtime", 0)

\* parseFailedLogins
FailedLogins(v) ==
  MapThenSumSet(LAMBDA e : e.count,
    {e \in AuthLog(v, "journalctl _COMM=sshd") : e.what = "login" /\ SeenAge(v, e) < 1})

\* parsePAMModuleFailures: of a user, by another service than sshd.  journalctl -g
\* exits with an error where nothing matches.
PAMJournal(v) ==
  IF Says(v, "journalctl -g pam_unix") = {} THEN "no match" ELSE "journalctl -g pam_unix"
PAMLog(v) ==
  IF PAMJournal(v) = "no match"
  THEN {e \in Says(v, AuthFile(v)) : "outOfReach" \notin e.flags} ELSE Says(v, PAMJournal(v))
LoginFlags(v) ==
  Mark(~Ok(v, AuthSource(v, "journalctl _COMM=sshd")), "failedLoginsUnreadable")
  \cup Mark(PAMJournal(v) = "no match" /\ ~Ok(v, AuthFile(v)), "pamFailuresUnreadable")
  \cup Mark(\E e \in PAMLog(v) : e.what = "pam" /\ SeenAge(v, e) < 24, "pamFailures")

\* parsePasswordAging: an entry s of the shadow file has a name, whether its password
\* is empty, and the days that one lasts; one of the accounts has a name and a uid.
HumanAccounts(v) == {a.name : a \in {a \in Says(v, "/etc/passwd") : a.uid \in 1000..65533}}
PasswordFlags(v) ==
  LET shadow == Says(v, "/etc/shadow")
  IN Mark(Got(v, "/etc/shadow") = "denied", "shadowUnreadable")
     \cup Mark(\E s \in shadow : s.empty, "emptyPasswords")
     \cup Mark(\E s \in shadow : ~s.empty /\ s.name \in HumanAccounts(v) /\ s.days \in {0, 99999},
               "stalePasswords")

\* parseSudoersFile: what everyone may do of certain commands is passed over.
GrantsWithoutPassword(v) ==
  \E e \in Says(v, "sudoers") \cup Says(v, "sudoers.d") :
    e.nopasswd /\ (e.user # "ALL" \/ e.commands = "ALL")

\* parseUID0Users, parseSuspectCrons, parseWorldWritable: a directory all may write to,
\* without the sticky bit.
SharedDirectories == {"/tmp", "/var/tmp", "/dev/shm"}
AccountFlags(v) ==
  PasswordFlags(v)
  \cup Mark(\E a \in Says(v, "/etc/passwd") : a.uid = 0 /\ a.name # "root", "uid0Users")
  \cup Mark("suspect" \in Says(v, "crontabs"), "suspectCrons")
  \cup Mark(\E d \in SharedDirectories : "all may write" \in Says(v, d), "worldWritable")
  \cup Mark(GrantsWithoutPassword(v), "sudoNopasswd")

-------------------------------------------------------------------------------
(* Hardening: ports and the way in *)

\* isExpectedPort, parseListeningPorts, buildInodeProcMap: what listens on every
\* address; whose it is is known of a process whose descriptors can be read.
ExpectedPorts == {22, 80, 443, 9090, 5355, 10250, 10255, 6443, 2379, 2380}
Listening(v) == Says(v, "/proc/net/tcp") \cup Says(v, "/proc/net/tcp6")
ListeningPorts(v) ==
  {[number |-> n, exe |-> IF n \in Says(v, "/proc fds") THEN "system" ELSE "other",
    flags |-> Mark(n \in ExpectedPorts, "expected")] : n \in Listening(v)}

\* decideSSHAllowed
SSHLetIn(accepted, blocked, dropped) == accepted \/ ~(blocked \/ dropped)

\* sshAllowedNFT, sshAllowedIPT: a rule is for SSH where the port is written in it, of
\* whatever protocol and chain; one for a range that holds it is not.
NamesPort(r, port) == \E g \in r.ports : port \in {g[1], g[2]}
SSHInRules(rules, port) ==
  SSHLetIn(\E r \in rules : r.target = "accept" /\ NamesPort(r, port),
           \E r \in rules : r.target = "drop" /\ NamesPort(r, port),
           \E r \in rules : r.target = "policy drop")

\* detectFirewalld asks for ssh and, where that is not allowed, for 22, whatever the
\* port; the text 22/tcp is also that of a port which ends so.
SSHInFirewalld(v) ==
  \/ "ssh" \in Says(v, "firewall-cmd --list-services")
  \/ \E n \in Says(v, "firewall-cmd --list-ports") : n % 100 = 22
  \/ ~Ok(v, "firewall-cmd --list-services") /\ ~Ok(v, "firewall-cmd --list-ports")

\* detectUFW, sshAllowedUFW: one line says that it is active; a rule is for ports, or
\* for the service by its name.
UFWActive(v) == \E r \in Says(v, "ufw status") : r.action = "active"
SSHInUFW(v) ==
  LET rules == {r \in Says(v, "ufw status") : r.service \/ SSHPort(v) \in r.ports}
  IN SSHLetIn(\E r \in rules : r.action = "allow", \E r \in rules : r.action = "deny", TRUE)

\* parseFirewall, detectNFTables, detectIPTables: the first that filters.
RulesOf(v, tool, list) == IF Exists(v, tool) THEN Says(v, list) ELSE {}
SSHAllowed(v) ==
  LET nft == RulesOf(v, "nft", "nft list ruleset")
      iptables == RulesOf(v, "iptables", "iptables -L")
  IN IF "running" \in Says(v, "firewall-cmd --state") THEN SSHInFirewalld(v)
     ELSE IF UFWActive(v) THEN SSHInUFW(v)
     ELSE IF nft # {} THEN SSHInRules(nft, SSHPort(v))
     ELSE IF \E r \in iptables : r.target # "policy drop" THEN SSHInRules(iptables, SSHPort(v))
     ELSE TRUE

-------------------------------------------------------------------------------
(* Hardening: denials *)

\* parseSELinuxDenials: no journal here.
DenialsAudited(v) ==
  IF AuditLogRead(v) THEN Num(v, "audit.log", 0)
  ELSE IF ~Ok(v, "audit.log") /\ Ok(v, "ausearch") THEN Num(v, "ausearch", 0) ELSE -1

\* parseSELinuxUnlabeledPorts: semanage gives ranges.
UnlabeledPorts(v) ==
  IF ~Ok(v, "semanage port") THEN {}
  ELSE {n \in Listening(v) : \A g \in Says(v, "semanage port") : n \notin g[1]..g[2]}

\* parseAVCGroups, parseSELinuxContextIssues: of the files that denials name with their
\* path, for root and from the log alone, those with another context than the policy has,
\* which no rule gives them either.  A context is a pair of the path and a type.
DeniedPaths(v) ==
  IF v.user = "root" /\ Ok(v, "audit.log") THEN Says(v, "paths of audit.log") ELSE {}
Mislabeled(v, path) ==
  LET ContextsBy(source) == {c[2] : c \in {c \in Says(v, source) : c[1] = path}}
      expected == ContextsBy("matchpathcon")
      actual == ContextsBy("ls -dZ")
  IN /\ expected # {} /\ actual # {} /\ expected # actual
     /\ actual \cap ContextsBy("semanage fcontext") = {}

\* parseSELinuxExtras, selinuxDeepDiagnosisGate
SELinuxFlags(v) ==
  IF EnforceNode(v) = "" THEN {}
  ELSE LET n == DenialsAudited(v)
       IN Mark(EnforceNode(v) = "enforcing", "selinuxEnforcing")
          \cup Mark(n = -1, "avcUnread") \cup Mark(n >= 10, "avcDenials")
          \cup Mark(n >= 1 /\ UnlabeledPorts(v) # {}, "unlabeledPorts")
          \cup Mark(n >= 1 /\ \E path \in DeniedPaths(v) : Mislabeled(v, path), "contextIssues")
          \cup Mark(Ok(v, "auditctl -l") /\ "rules" \notin Says(v, "auditctl -l"), "noAuditRules")

\* parseAppArmor, collectAppArmorDenials: a day of the journal in place of an hour of
\* the log.
AppArmorFlags(v) ==
  IF AppArmorMode(v) = "absent" THEN {}
  ELSE IF AppArmorMode(v) = "disabled"
  THEN Mark("denials" \in AppArmorDenials(v), "apparmorDenials")
  ELSE Mark(~Ok(v, "journalctl -g apparmor"), "apparmorUnreadable")
       \cup Mark("denied" \in Says(v, "journalctl -g apparmor"), "apparmorDenials")

-------------------------------------------------------------------------------
(* Hardening: upkeep *)

\* parseCryptoPolicy
CryptoPolicy(v) ==
  IF Says(v, "crypto-policies/config") # {} THEN Says(v, "crypto-policies/config")
  ELSE Says(v, "update-crypto-policies --show")

\* parseAIDE: the first of its databases; those before it are refused, or not there.
AIDEDatabases == <<"aide.db", "aide.db.gz", "aide.db.new">>
AIDERead(v) == {i \in DOMAIN AIDEDatabases : Ok(v, AIDEDatabases[i])}
AIDEFlags(v) ==
  IF ~Exists(v, "aide") THEN {}
  ELSE {"aide"} \cup Mark(AIDERead(v) # {}, "aideDatabase")
       \cup Mark(\E i \in DOMAIN AIDEDatabases :
                   /\ Got(v, AIDEDatabases[i]) = "denied"
                   /\ \A j \in AIDERead(v) : i < j, "aideUnreadable")
       \cup Mark(AIDERead(v) # {} /\ Num(v, AIDEDatabases[Min(AIDERead(v))], 0) > 7, "aideStale")

\* parseSupportconfig: the newest archive, in days, of the logs or of /tmp.
SupportconfigFlags(v) ==
  LET archives == Says(v, "/var/log archives") \cup Says(v, "/tmp archives")
  IN IF ~Exists(v, "supportconfig") THEN {}
     ELSE Mark(archives = {} \/ Min(archives) > 30, "supportconfigStale")
          \cup Mark(archives = {} /\ Got(v, "/var/log archives") = "denied", "supportconfigUnreadable")

\* CollectSUSEConnect, applySUSEConnectStatus: the last registered product that has a
\* date, in days, and -1 for none; a status that cannot be asked for is that of a host
\* without registration.
RegisteredProducts(v) ==
  LET Registered(p) == p.registered IN SelectSeq(TextOf(v, "SUSEConnect --status"), Registered)
SUSEDays(v) ==
  LET Dated(p) == p.days >= 0
      dated == SelectSeq(RegisteredProducts(v), Dated)
  IN IF dated = <<>> THEN -1 ELSE dated[Len(dated)].days

\* isOffensiveDistro
OffensiveDistro(v) == Says(v, "os-release") \cap {"kali", "parrot", "blackarch"} # {}

HardeningData(v) ==
  [failedLogins |-> FailedLogins(v), ports |-> ListeningPorts(v), days |-> SUSEDays(v),
   flags |-> SSHFlags(v) \cup LoginFlags(v) \cup AccountFlags(v) \cup SELinuxFlags(v)
     \cup AppArmorFlags(v) \cup AIDEFlags(v) \cup SupportconfigFlags(v)
     \cup Mark("LEGACY" \in CryptoPolicy(v), "legacyCrypto")
     \cup Mark(RegisteredProducts(v) # <<>>, "registered")
     \cup Mark(v.user # "root", "auditNeedsRoot")
     \cup Mark(~SSHAllowed(v), "firewallWithoutSSH")
     \cup Mark(OffensiveDistro(v), "offensive")
     \cup Mark(Exists(v, "/etc/pve"), "pve")]

===============================================================================
