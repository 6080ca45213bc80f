---------------------------------- MODULE MCCIS ----------------------------------
(* A host for each reading of each item that some rule tests, fine in          *)
(* everything else, and hosts on which several sources fail together.  The     *)
(* users are root, one who may read nothing that is root's alone, and one who  *)
(* can read the configuration of sshd as well.                                 *)
EXTENDS CIS

Tests == UNION {{r.tests[i] : i \in DOMAIN r.tests} : r \in CISRules}
Derived ==
  {"SSHConfigUnreadable", "SudoersUnreadable", "ShadowUnreadable", "FirewallUnreadable",
   "audit rule files"}
Items == {t.item : t \in Tests} \ Derived
ReadingsOf(item) ==
  (UNION {t.readings : t \in {u \in Tests : u.item = item}} \ {"fine"})
  \cup {"wrong"} \cup (IF item \in DOMAIN DaemonDefault THEN {"default"} ELSE {})

MCHosts ==
  {<<>>}
  \cup UNION {{[i \in {item} |-> reading] : reading \in ReadingsOf(item)} : item \in Items}
  \cup {[i \in {source} |-> "absent"] : source \in Guarded}
  \cup {[i \in Lists |-> "wrong"],
        [i \in {"ENCRYPT_METHOD", "pam_unix hash", "Ciphers"} |-> "wrong"],
        [i \in SSHFields |-> "wrong"],
        [i \in {"AuditRules", "audit rule files"} |-> "absent"],
        [i \in {"drop-in", "MaxAuthTries"} |-> "wrong"],
        [i \in {"sshd -T", "MACs"} |-> IF i = "MACs" THEN "default" ELSE "absent"]}
MCHidden == {{}, Guarded, Guarded \ {"sshd_config"}}
MCFlags ==
  {[level |-> (n % 2) + 1, stig |-> n < 3, nis2 |-> n % 3 # 0, bsi |-> n % 3 = 1] : n \in 0..5}
================================================================================
