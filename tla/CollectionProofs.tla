---------------------------- MODULE CollectionProofs ----------------------------
(***************************************************************************)
(* FailureNeverClears and FailureNeverAccuses of the collectors named in   *)
(* Shown, for every host and every loss.                                   *)
(*                                                                         *)
(* The report of a collector c is what its check says of what it returns   *)
(* of a view.  A run that was denied some sources is compared with one by  *)
(* root that has them all: Reads says how what the two are told of one     *)
(* source differs, and every collector has a lemma Compared of its own,    *)
(* which follows the loss from the source to the insight.                  *)
(***************************************************************************)
EXTENDS Collection, TLAPS

-------------------------------------------------------------------------------
(* What a run sees of a source, and what there is to be seen of it. *)

Reads(v, t, s) ==
  /\ Exists(v, s) <=> Exists(t, s)
  /\ Ok(t, s) <=> Exists(t, s)
  /\ Ok(v, s) => Ok(t, s) /\ Says(v, s) = Says(t, s)
  /\ Ok(v, s) => \A n : Num(v, s, n) = Num(t, s, n)
  /\ ~Ok(v, s) => Says(v, s) = {} /\ \A n : Num(v, s, n) = n
  /\ ~Ok(t, s) => Says(t, s) = {} /\ \A n : Num(t, s, n) = n
  /\ s \notin DOMAIN v.lost => (Ok(t, s) => Ok(v, s))
  /\ Got(v, s) = "denied" => ~Ok(v, s)
  /\ Got(t, s) # "denied"
  /\ ~Ok(v, s) /\ Exists(v, s) => s \in DOMAIN v.lost /\ Got(v, s) \in {"denied", "failed"}

Same(v, t, s) ==
  /\ Ok(v, s) <=> Ok(t, s)
  /\ Says(v, s) = Says(t, s)
  /\ \A n : Num(v, s, n) = Num(t, s, n)

Sees(v, t) ==
  /\ v.user \in {"root", "other"} /\ t.user = "root"
  /\ \A s : Reads(v, t, s)
  /\ DOMAIN v.lost \cap Certain = {}
  /\ \A s \in Refused : Got(v, s) # "failed"
  /\ Coherent(t)

LEMMA Sight ==
  ASSUME NEW h, NEW user \in {"root", "other"}, NEW lost,
         DOMAIN lost \cap Certain = {}, \A x \in DOMAIN lost : lost[x] \in {"denied", "failed"},
         \A x \in DOMAIN lost \cap Refused : lost[x] = "denied",
         Coherent(View(h, "root", NothingLost))
  PROVE  Sees(View(h, user, lost), View(h, "root", NothingLost))
<1>1. ASSUME NEW s PROVE Reads(View(h, user, lost), View(h, "root", NothingLost), s)
  BY DEF Reads, View, NothingLost, Exists, Ok, Got, Says, Num
<1>2. \A s \in Refused : Got(View(h, user, lost), s) # "failed"
  BY DEF View, Got
<1> QED
  BY <1>1, <1>2 DEF Sees, View

LEMMA Contained ==
  ASSUME NEW v, NEW t, Sees(v, t)
  PROVE  InContainer(v) <=> InContainer(t)
<1>1. Reads(v, t, "environment") /\ "environment" \notin DOMAIN v.lost
  BY DEF Sees, Certain
<1> QED
  BY <1>1 DEF InContainer, Reads

LEMMA Kept ==
  ASSUME NEW v, NEW t, Sees(v, t)
  PROVE  \A s : s \notin DOMAIN v.lost => Same(v, t, s)
<1> TAKE s
<1>1. Reads(v, t, s)
  BY DEF Sees
<1> QED
  BY <1>1 DEF Reads, Same

LEMMA SameThresholds ==
  ASSUME NEW v, NEW t, Sees(v, t)
  PROVE  Thresholds(SettingOf(v)) = Thresholds(SettingOf(t))
<1>1. ASSUME NEW x
      PROVE  SettingOf(x).env = "bare" /\ SettingOf(x).policy = [f \in {} |-> 0]
             /\ (SettingOf(x).container = "no" <=> ~InContainer(x))
  BY DEF SettingOf, MemoryLimited
<1> QED
  BY <1>1, Contained DEF Thresholds

-------------------------------------------------------------------------------
(* What a report says. *)

Unseen(a) == \E i \in a : i.sight # "seen"
Warns(a, c) == Found("WARN", c) \in a
Alarms(a, c) == Found("CRIT", c) \in a
Only(a, c) == \A i \in a : i.sight # "seen" \/ \E l \in Levels : i = Found(l, c)

\* Report a of check c is at least as bad as b.
Outweighs(a, b, c) ==
  /\ Alarms(b, c) => Alarms(a, c)
  /\ Warns(b, c) => Warns(a, c) \/ Alarms(a, c)

LEMMA Ranks == Rank("OK") = 0 /\ Rank("INFO") = 1 /\ Rank("WARN") = 2 /\ Rank("CRIT") = 3
BY DEF Rank

LEMMA Kinds ==
  /\ \A c : Unread(c).sight # "seen"
  /\ \A l, c : UnreadAt(l, c).sight # "seen"
  /\ \A c, h : NeedsRoot(c, h).sight # "seen"
  /\ \A l, c : Found(l, c).sight = "seen" /\ Found(l, c).level = l /\ Found(l, c).check = c
BY DEF Unread, UnreadAt, NeedsRoot, Found

LEMMA Nothing == \A c : Only({}, c) /\ ~Alarms({}, c) /\ ~Warns({}, c) /\ ~Unseen({})
BY DEF Only, Alarms, Warns, Unseen

LEMMA Missed ==
  \A c : /\ Only({Unread(c)}, c) /\ Unseen({Unread(c)})
         /\ ~Alarms({Unread(c)}, c) /\ ~Warns({Unread(c)}, c)
         /\ \A l : /\ Only({UnreadAt(l, c)}, c) /\ Unseen({UnreadAt(l, c)})
                   /\ ~Alarms({UnreadAt(l, c)}, c) /\ ~Warns({UnreadAt(l, c)}, c)
         /\ \A h : /\ Only({NeedsRoot(c, h)}, c) /\ Unseen({NeedsRoot(c, h)})
                   /\ ~Alarms({NeedsRoot(c, h)}, c) /\ ~Warns({NeedsRoot(c, h)}, c)
BY Kinds DEF Only, Alarms, Warns, Unseen, Levels

LEMMA Seen ==
  \A c : /\ Only({Found("OK", c)}, c) /\ ~Alarms({Found("OK", c)}, c)
         /\ ~Warns({Found("OK", c)}, c) /\ ~Unseen({Found("OK", c)})
         /\ Only({Found("INFO", c)}, c) /\ ~Alarms({Found("INFO", c)}, c)
         /\ ~Warns({Found("INFO", c)}, c) /\ ~Unseen({Found("INFO", c)})
         /\ Only({Found("WARN", c)}, c) /\ ~Alarms({Found("WARN", c)}, c)
         /\ Warns({Found("WARN", c)}, c) /\ ~Unseen({Found("WARN", c)})
         /\ Only({Found("CRIT", c)}, c) /\ Alarms({Found("CRIT", c)}, c)
         /\ ~Warns({Found("CRIT", c)}, c) /\ ~Unseen({Found("CRIT", c)})
BY Kinds DEF Only, Alarms, Warns, Unseen, Levels

LEMMA Both ==
  \A a, b, c : /\ Only(a \cup b, c) <=> Only(a, c) /\ Only(b, c)
               /\ Alarms(a \cup b, c) <=> Alarms(a, c) \/ Alarms(b, c)
               /\ Warns(a \cup b, c) <=> Warns(a, c) \/ Warns(b, c)
               /\ Unseen(a \cup b) <=> Unseen(a) \/ Unseen(b)
BY DEF Only, Alarms, Warns, Unseen

LEMMA All ==
  \A S, c : /\ Only(UNION S, c) <=> \A a \in S : Only(a, c)
            /\ Alarms(UNION S, c) <=> \E a \in S : Alarms(a, c)
            /\ Warns(UNION S, c) <=> \E a \in S : Warns(a, c)
            /\ Unseen(UNION S) <=> \E a \in S : Unseen(a)
<1> TAKE S, c
<1>1. Only(UNION S, c) <=> \A a \in S : Only(a, c)
  BY DEF Only
<1>2. /\ Alarms(UNION S, c) <=> \E a \in S : Alarms(a, c)
      /\ Warns(UNION S, c) <=> \E a \in S : Warns(a, c)
  BY DEF Alarms, Warns
<1>3. Unseen(UNION S) <=> \E a \in S : Unseen(a)
  BY DEF Unseen
<1> QED
  BY <1>1, <1>2, <1>3

LEMMA Weighed ==
  ASSUME NEW c, NEW a, NEW b, Only(a, c), Only(b, c), Outweighs(a, b, c), NEW p \in Problems(b)
  PROVE  \E i \in Problems(a) : i.check = p.check /\ Rank(i.level) >= Rank(p.level)
<1>1. p \in b /\ p.level \in {"WARN", "CRIT"} /\ p = Found(p.level, c)
  BY Kinds DEF Only, Problems
<1>2. CASE Alarms(a, c)
  <2>1. Found("CRIT", c) \in Problems(a)
    BY <1>2, Kinds DEF Alarms, Problems
  <2> QED
    BY <1>1, <2>1, Kinds, Ranks
<1>3. CASE ~Alarms(a, c)
  <2>1. p.level = "WARN" /\ Found("WARN", c) \in Problems(a)
    BY <1>1, <1>3, Kinds DEF Outweighs, Alarms, Warns, Problems
  <2> QED
    BY <1>1, <2>1, Kinds, Ranks
<1> QED
  BY <1>2, <1>3

-------------------------------------------------------------------------------
(* From what a collector returns to its report. *)

Report(c, v) == Judgement(c, ResultOf(c, v), v)
Alone(c, r) == [n \in {c} |-> r]
Scored(c, d, v) ==
  ApplyOne(c, d, Thresholds(SettingOf(v)), SettingOf(v), Prescan(Alone(c, Delivered(d))))

LEMMA AloneJudged ==
  ASSUME NEW c, c # "CVELookup", NEW r, NEW v
  PROVE  Judgement(c, r, v) = InsightsOf(Alone(c, r), c, SettingOf(v))
<1>1. Deduplicated(Alone(c, r)) = Alone(c, r)
  <2>1. ~(HasData(Alone(c, r), "KernelSec") /\ HasData(Alone(c, r), "Hardening"))
    BY DEF HasData, Alone
  <2> QED
    BY <2>1 DEF Deduplicated
<1>2. Judgement(c, r, v) = ApplyThresholds(Alone(c, r), SettingOf(v))
  BY DEF Judgement, Alone
<1>3. ApplyThresholds(Alone(c, r), SettingOf(v))
        = UNION {InsightsOf(Alone(c, r), x, SettingOf(v)) : x \in DOMAIN Alone(c, r)}
  BY <1>1 DEF ApplyThresholds
<1>4. DOMAIN Alone(c, r) = {c}
  BY DEF Alone
<1> QED
  BY <1>2, <1>3, <1>4

LEMMA Judged ==
  ASSUME NEW c, c # "CVELookup", NEW v
  PROVE  /\ \A d : Judgement(c, Delivered(d), v) = Scored(c, d, v)
         /\ Judgement(c, NotCollected, v) = {}
         /\ \A r : Judgement(c, Unless(TRUE, r), v) = {Unread(c)}
<1>1. ASSUME NEW r PROVE Alone(c, r)[c] = r
  BY DEF Alone
<1>2. ASSUME NEW d PROVE Judgement(c, Delivered(d), v) = Scored(c, d, v)
  <2>1. Delivered(d).kind = "data" /\ Delivered(d).data = d
    BY DEF Delivered
  <2> QED
    BY <2>1, <1>1, AloneJudged DEF InsightsOf, Scored
<1>3. Judgement(c, NotCollected, v) = {}
  <2>1. NotCollected.kind = "nothing"
    BY DEF NotCollected
  <2> QED
    BY <2>1, <1>1, AloneJudged DEF InsightsOf
<1>4. ASSUME NEW r PROVE Judgement(c, Unless(TRUE, r), v) = {Unread(c)}
  <2>1. Unless(TRUE, r).kind = "failed"
    BY DEF Unless
  <2> QED
    BY <2>1, <1>1, AloneJudged DEF InsightsOf
<1> QED
  BY <1>2, <1>3, <1>4

LEMMA Collected ==
  ASSUME NEW c, c # "CVELookup", NEW v, NEW d
  PROVE  /\ ResultOf(c, v) = Delivered(d) => Report(c, v) = Scored(c, d, v)
         /\ \A a \in BOOLEAN :
              /\ ResultOf(c, v) = Where(a, d) =>
                   Report(c, v) = IF a THEN Scored(c, d, v) ELSE {}
              /\ ResultOf(c, v) = Unless(a, Delivered(d))
                   => Report(c, v) = IF a THEN {Unread(c)} ELSE Scored(c, d, v)
              /\ \A b \in BOOLEAN : ResultOf(c, v) = Unless(a, Where(b, d))
                   => Report(c, v) = IF a THEN {Unread(c)}
                     ELSE IF b THEN Scored(c, d, v) ELSE {}
BY Judged DEF Report, Where, Unless

\* Nothing lost that c is silent on: what v does not report it says it could not see.
\* Nothing lost that c accuses on: v reports nothing that t does not.
Compared(c, v, t) ==
  /\ DOMAIN v.lost \cap Silent(c) = {} =>
       \A p \in Problems(Report(c, t)) : \E i \in Report(c, v) :
         i.sight # "seen" \/ (i.check = p.check /\ Rank(i.level) >= Rank(p.level))
  /\ DOMAIN v.lost \cap Accusing(c) = {} =>
       \A i \in Problems(Report(c, v)) : \E p \in Problems(Report(c, t)) :
         p.check = i.check /\ Rank(p.level) >= Rank(i.level)

LEMMA Comparing ==
  ASSUME NEW c, NEW v, NEW t, Only(Report(c, v), c), Only(Report(c, t), c),
         DOMAIN v.lost \cap Silent(c) = {} =>
           Unseen(Report(c, v)) \/ Outweighs(Report(c, v), Report(c, t), c),
         DOMAIN v.lost \cap Accusing(c) = {} => Outweighs(Report(c, t), Report(c, v), c)
  PROVE  Compared(c, v, t)
BY Weighed DEF Compared, Unseen, Problems

-------------------------------------------------------------------------------
(* Upkeep: reboots, restarts and kernels. *)

\* An unreadable state of the service is told; a crash kernel that could not be read
\* counts as missing.
LEMMA KdumpCompared ==
  ASSUME NEW v, NEW t, Sees(v, t)
  PROVE  Compared("Kdump", v, t)
<1> DEFINE Skipped(x) == ~Exists(x, "kdump.service") \/ InContainer(x)
           enabled(x) == Says(x, "systemctl is-enabled kdump")
           active(x) == Says(x, "systemctl is-active kdump")
           Unknown(x) == enabled(x) = {} \/ active(x) = {}
           Armed(x) == /\ "1" \in Says(x, "kexec_crash_loaded")
                       /\ Num(x, "kexec_crash_size", 0) > 0
           Faulty(x) == /\ enabled(x) \cap {"enabled", "static", "enabled-runtime"} # {}
                        /\ "failed" \in active(x) \/ ~Armed(x)
           R(x) == Report("Kdump", x)
<1>1. ASSUME NEW x
      PROVE  R(x) = IF ~Skipped(x) THEN CheckKdump(KdumpData(x)) ELSE {}
  <2>1. ResultOf("Kdump", x) = Where(~Skipped(x), KdumpData(x))
    BY DEF ResultOf, Maintained
  <2>2. Scored("Kdump", KdumpData(x), x) = CheckKdump(KdumpData(x))
    BY DEF Scored, ApplyOne, SystemInsights, MachineInsights, ServiceInsights, DeviceInsights,
           GuestInsights, UpkeepInsights
  <2>3. (~Skipped(x)) \in BOOLEAN
    BY DEF Exists, Ok
  <2> QED
    BY <2>1, <2>2, <2>3, Collected
<1>2. ASSUME NEW x
      PROVE  R(x) = IF Skipped(x) THEN {} ELSE IF Unknown(x) THEN {Unread("Kdump")}
                    ELSE When(Faulty(x), Found("WARN", "Kdump"))
  BY <1>1 DEF CheckKdump, KdumpData, Mark, When
<1>3. /\ Reads(v, t, "systemctl is-enabled kdump")
      /\ Reads(v, t, "systemctl is-active kdump") /\ Reads(v, t, "kexec_crash_loaded")
      /\ Reads(v, t, "kexec_crash_size") /\ Reads(v, t, "kdump.service")
  BY DEF Sees
<1>4. Skipped(v) <=> Skipped(t)
  BY <1>3, Contained DEF Reads
<1>5. ~Unknown(v) => enabled(v) = enabled(t) /\ active(v) = active(t)
  BY <1>3 DEF Reads
<1>6. Num(v, "kexec_crash_size", 0) \in {Num(t, "kexec_crash_size", 0), 0}
  BY <1>3 DEF Reads
<1>7. Says(v, "kexec_crash_loaded") \in {Says(t, "kexec_crash_loaded"), {}}
  BY <1>3 DEF Reads
<1>8. Armed(v) => Armed(t)
  BY <1>6, <1>7
<1>9. DOMAIN v.lost \cap Accusing("Kdump") = {} => (Armed(t) => Armed(v))
  BY <1>3 DEF Accusing, Reads
<1>10. ~Unknown(v) => /\ ~Unknown(t) /\ (Faulty(t) => Faulty(v))
                      /\ Faulty(v) /\ (Armed(t) => Armed(v)) => Faulty(t)
  BY <1>5, <1>8
<1> HIDE DEF Skipped, enabled, active, Unknown, Armed, Faulty, R
<1>11. ASSUME NEW x
       PROVE  /\ Only(R(x), "Kdump") /\ ~Alarms(R(x), "Kdump")
              /\ Unseen(R(x)) <=> ~Skipped(x) /\ Unknown(x)
              /\ Warns(R(x), "Kdump") <=> ~Skipped(x) /\ ~Unknown(x) /\ Faulty(x)
  BY <1>2, Nothing, Missed, Seen DEF When
<1>12. DOMAIN v.lost \cap Silent("Kdump") = {} => Unseen(R(v)) \/ Outweighs(R(v), R(t), "Kdump")
  BY <1>11, <1>4, <1>10 DEF Outweighs
<1>13. DOMAIN v.lost \cap Accusing("Kdump") = {} => Outweighs(R(t), R(v), "Kdump")
  BY <1>11, <1>4, <1>9, <1>10 DEF Outweighs
<1> QED
  BY <1>11, <1>12, <1>13, Comparing DEF R

\* It reports nothing above INFO.
LEMMA TunedCompared ==
  ASSUME NEW v, NEW t, Sees(v, t)
  PROVE  Compared("Tuned", v, t)
<1> DEFINE There(x) == Exists(x, "tuned")
           state(x) == Says(x, "systemctl is-active tuned")
           profile(x) == Says(x, "tuned-adm active")
           advised(x) == Says(x, "tuned-adm recommend")
           Unknown(x) == \/ state(x) = {}
                         \/ /\ "active" \in state(x)
                            /\ (~Ok(x, "tuned-adm active") \/ ~Ok(x, "tuned-adm recommend"))
           Other(x) == \/ "active" \notin state(x)
                       \/ profile(x) # {} /\ advised(x) # {} /\ profile(x) # advised(x)
           R(x) == Report("Tuned", x)
<1>1. ASSUME NEW x
      PROVE  R(x) = IF There(x) THEN CheckTuned(TunedData(x)) ELSE {}
  <2>1. ResultOf("Tuned", x) = Where(There(x), TunedData(x))
    BY DEF ResultOf
  <2>2. Scored("Tuned", TunedData(x), x) = CheckTuned(TunedData(x))
    BY DEF Scored, ApplyOne, SystemInsights, MachineInsights, ServiceInsights, DeviceInsights,
           GuestInsights, UpkeepInsights
  <2>3. (There(x)) \in BOOLEAN
    BY DEF Exists, Ok
  <2> QED
    BY <2>1, <2>2, <2>3, Collected
<1>2. ASSUME NEW x
      PROVE  R(x) = IF ~There(x) THEN {} ELSE IF Unknown(x) THEN {Unread("Tuned")}
                    ELSE When(Other(x), Found("INFO", "Tuned"))
  BY <1>1 DEF CheckTuned, TunedData, Mark, When
<1> HIDE DEF There, state, profile, advised, Unknown, Other, R
<1>3. ASSUME NEW x
      PROVE  Only(R(x), "Tuned") /\ ~Alarms(R(x), "Tuned") /\ ~Warns(R(x), "Tuned")
  BY <1>2, Nothing, Missed, Seen DEF When
<1>4. DOMAIN v.lost \cap Silent("Tuned") = {} => Unseen(R(v)) \/ Outweighs(R(v), R(t), "Tuned")
  BY <1>3 DEF Outweighs
<1>5. DOMAIN v.lost \cap Accusing("Tuned") = {} => Outweighs(R(t), R(v), "Tuned")
  BY <1>3 DEF Outweighs
<1> QED
  BY <1>3, <1>4, <1>5, Comparing DEF R

\* A dry run that fails is told.
LEMMA KspliceCompared ==
  ASSUME NEW v, NEW t, Sees(v, t)
  PROVE  Compared("Ksplice", v, t)
<1> DEFINE Skipped(x) == ~Exists(x, "ksplice") \/ InContainer(x)
           Pending(x) == "installing" \in Says(x, "uptrack-upgrade -n")
           R(x) == Report("Ksplice", x)
<1>1. ASSUME NEW x
      PROVE  R(x) = IF ~Skipped(x) THEN CheckKsplice(KspliceData(x)) ELSE {}
  <2>1. ResultOf("Ksplice", x) = Where(~Skipped(x), KspliceData(x))
    BY DEF ResultOf, Maintained
  <2>2. Scored("Ksplice", KspliceData(x), x) = CheckKsplice(KspliceData(x))
    BY DEF Scored, ApplyOne, SystemInsights, MachineInsights, ServiceInsights, DeviceInsights,
           GuestInsights, UpkeepInsights
  <2>3. (~Skipped(x)) \in BOOLEAN
    BY DEF Exists, Ok
  <2> QED
    BY <2>1, <2>2, <2>3, Collected
<1>2. ASSUME NEW x
      PROVE  R(x) = IF Skipped(x) THEN {}
                    ELSE IF ~Ok(x, "uptrack-upgrade -n") THEN {Unread("Ksplice")}
                    ELSE When(Pending(x), Found("WARN", "Ksplice"))
  BY <1>1 DEF CheckKsplice, KspliceData, Mark, When
<1>3. /\ Reads(v, t, "ksplice") /\ Reads(v, t, "uptrack-upgrade -n")
  BY DEF Sees
<1>4. Skipped(v) <=> Skipped(t)
  BY <1>3, Contained DEF Reads
<1>5. Ok(v, "uptrack-upgrade -n") => Ok(t, "uptrack-upgrade -n") /\ (Pending(v) <=> Pending(t))
  BY <1>3 DEF Reads
<1> HIDE DEF Skipped, Pending, R
<1>6. ASSUME NEW x
      PROVE  /\ Only(R(x), "Ksplice") /\ ~Alarms(R(x), "Ksplice")
             /\ Unseen(R(x)) <=> ~Skipped(x) /\ ~Ok(x, "uptrack-upgrade -n")
             /\ Warns(R(x), "Ksplice") <=>
                  ~Skipped(x) /\ Ok(x, "uptrack-upgrade -n") /\ Pending(x)
  BY <1>2, Nothing, Missed, Seen DEF When
<1>7. DOMAIN v.lost \cap Silent("Ksplice") = {} =>
        Unseen(R(v)) \/ Outweighs(R(v), R(t), "Ksplice")
  BY <1>6, <1>4, <1>5 DEF Outweighs
<1>8. DOMAIN v.lost \cap Accusing("Ksplice") = {} => Outweighs(R(t), R(v), "Ksplice")
  BY <1>6, <1>4, <1>5 DEF Outweighs
<1> QED
  BY <1>6, <1>7, <1>8, Comparing DEF R

\* Where either snapshot number could not be read the check says so.
LEMMA TransactionalCompared ==
  ASSUME NEW v, NEW t, Sees(v, t)
  PROVE  Compared("Transactional", v, t)
<1> DEFINE Skipped(x) == ~Exists(x, "transactional-update") \/ InContainer(x)
           booted(x) == Num(x, "findmnt", 0)
           next(x) == Num(x, "btrfs get-default", 0)
           Unknown(x) == booted(x) = 0 \/ next(x) = 0
           Pending(x) == booted(x) # next(x)
           R(x) == Report("Transactional", x)
<1>1. ASSUME NEW x
      PROVE  R(x) = IF ~Skipped(x) THEN CheckTransactional(TransactionalData(x)) ELSE {}
  <2>1. ResultOf("Transactional", x) = Where(~Skipped(x), TransactionalData(x))
    BY DEF ResultOf, Maintained
  <2>2. Scored("Transactional", TransactionalData(x), x) =
          CheckTransactional(TransactionalData(x))
    BY DEF Scored, ApplyOne, SystemInsights, MachineInsights, ServiceInsights, DeviceInsights,
           GuestInsights, UpkeepInsights
  <2>3. (~Skipped(x)) \in BOOLEAN
    BY DEF Exists, Ok
  <2> QED
    BY <2>1, <2>2, <2>3, Collected
<1>2. ASSUME NEW x
      PROVE  R(x) = IF Skipped(x) THEN {} ELSE IF Unknown(x) THEN {Unread("Transactional")}
                    ELSE When(Pending(x), Found("WARN", "Transactional"))
  BY <1>1 DEF CheckTransactional, TransactionalData, Mark, When
<1>3. /\ Reads(v, t, "transactional-update") /\ Reads(v, t, "findmnt")
      /\ Reads(v, t, "btrfs get-default")
  BY DEF Sees
<1>4. Skipped(v) <=> Skipped(t)
  BY <1>3, Contained DEF Reads
<1>5. ~Unknown(v) => booted(v) = booted(t) /\ next(v) = next(t)
  BY <1>3 DEF Reads
<1>6. ~Unknown(v) => ~Unknown(t) /\ (Pending(v) <=> Pending(t))
  BY <1>5
<1> HIDE DEF Skipped, booted, next, Unknown, Pending, R
<1>7. ASSUME NEW x
      PROVE  /\ Only(R(x), "Transactional") /\ ~Alarms(R(x), "Transactional")
             /\ Unseen(R(x)) <=> ~Skipped(x) /\ Unknown(x)
             /\ Warns(R(x), "Transactional") <=> ~Skipped(x) /\ ~Unknown(x) /\ Pending(x)
  BY <1>2, Nothing, Missed, Seen DEF When
<1>8. DOMAIN v.lost \cap Silent("Transactional") = {} =>
        Unseen(R(v)) \/ Outweighs(R(v), R(t), "Transactional")
  BY <1>7, <1>4, <1>6 DEF Outweighs
<1>9. DOMAIN v.lost \cap Accusing("Transactional") = {} =>
        Outweighs(R(t), R(v), "Transactional")
  BY <1>7, <1>4, <1>6 DEF Outweighs
<1> QED
  BY <1>7, <1>8, <1>9, Comparing DEF R

\* Anyone but root reads its own processes only, and is told that it does.
LEMMA ServiceRestartCompared ==
  ASSUME NEW v, NEW t, Sees(v, t)
  PROVE  Compared("ServiceRestart", v, t)
<1> DEFINE Stale(x) == \/ "deleted" \in Says(x, "own maps")
                       \/ x.user = "root" /\ "deleted" \in Says(x, "other maps")
           Partial(x) == ~(x.user = "root")
           R(x) == Report("ServiceRestart", x)
<1>1. ASSUME NEW x
      PROVE  R(x) = CheckServiceRestart(ServiceRestartData(x), SettingOf(x))
  <2>1. ResultOf("ServiceRestart", x) = Delivered(ServiceRestartData(x))
    BY DEF ResultOf
  <2>2. Scored("ServiceRestart", ServiceRestartData(x), x) =
          CheckServiceRestart(ServiceRestartData(x), SettingOf(x))
    BY DEF Scored, ApplyOne, SystemInsights, MachineInsights, ServiceInsights, DeviceInsights,
           GuestInsights, UpkeepInsights
  <2> QED
    BY <2>1, <2>2, Collected
<1>2. ASSUME NEW x
      PROVE  R(x) = IF Stale(x) THEN {Found("WARN", "ServiceRestart")}
                    ELSE When(Partial(x), NeedsRoot("ServiceRestart", SettingOf(x)))
  BY <1>1 DEF CheckServiceRestart, ServiceRestartData, Mark, When
<1>3. /\ Reads(v, t, "own maps") /\ Reads(v, t, "other maps")
  BY DEF Sees
<1>4. Stale(v) => Stale(t)
  BY <1>3 DEF Reads, Sees
<1>5. DOMAIN v.lost \cap Silent("ServiceRestart") = {} => (Stale(t) => Stale(v) \/ Partial(v))
  BY <1>3 DEF Reads, Sees, Silent
<1> HIDE DEF Stale, Partial, R
<1>6. ASSUME NEW x
      PROVE  /\ Only(R(x), "ServiceRestart") /\ ~Alarms(R(x), "ServiceRestart")
             /\ Unseen(R(x)) <=> ~Stale(x) /\ Partial(x)
             /\ Warns(R(x), "ServiceRestart") <=> Stale(x)
  BY <1>2, Nothing, Missed, Seen DEF When
<1>7. DOMAIN v.lost \cap Silent("ServiceRestart") = {} =>
        Unseen(R(v)) \/ Outweighs(R(v), R(t), "ServiceRestart")
  BY <1>6, <1>5 DEF Outweighs
<1>8. DOMAIN v.lost \cap Accusing("ServiceRestart") = {} =>
        Outweighs(R(t), R(v), "ServiceRestart")
  BY <1>6, <1>4 DEF Outweighs
<1> QED
  BY <1>6, <1>7, <1>8, Comparing DEF R

\* A failed query is told unless another tool answers for it.
LEMMA KernelCompared ==
  ASSUME NEW v, NEW t, Sees(v, t)
  PROVE  Compared("Kernel", v, t)
<1> DEFINE Skipped(x) == InContainer(x)
           Unknown(x) == "patchUnverified" \in KernelFlags(x)
           Pending(x) == "rebootNeeded" \in KernelFlags(x)
           R(x) == Report("Kernel", x)
<1>1. ASSUME NEW x
      PROVE  R(x) = IF ~Skipped(x) THEN CheckKernelPatch(KernelPatchData(x)) ELSE {}
  <2>1. ResultOf("Kernel", x) = Where(~Skipped(x), KernelPatchData(x))
    BY DEF ResultOf, Maintained
  <2>2. Scored("Kernel", KernelPatchData(x), x) = CheckKernelPatch(KernelPatchData(x))
    BY DEF Scored, ApplyOne, SystemInsights, MachineInsights, ServiceInsights, DeviceInsights,
           GuestInsights, UpkeepInsights
  <2>3. (~Skipped(x)) \in BOOLEAN
    BY DEF Exists, Ok
  <2> QED
    BY <2>1, <2>2, <2>3, Collected
<1>2. ASSUME NEW x
      PROVE  R(x) = IF Skipped(x) THEN {} ELSE IF Unknown(x) THEN {Unread("Kernel")}
                    ELSE When(Pending(x), Found("WARN", "Kernel"))
  BY <1>1 DEF CheckKernelPatch, KernelPatchData, When
<1>3. /\ Reads(v, t, "rpm -q --last") /\ Reads(v, t, "osrelease")
      /\ Reads(v, t, "zypper needs-rebooting")
      /\ Reads(v, t, "notify-reboot-required") /\ Reads(v, t, "/run/reboot-required")
  BY DEF Sees
<1>4. Skipped(v) <=> Skipped(t)
  BY Contained
<1>5. DOMAIN v.lost \cap Silent("Kernel") = {} =>
        \A s \in {"rpm -q --last", "osrelease", "zypper needs-rebooting"} :
          (Ok(v, s) <=> Ok(t, s)) /\ Says(v, s) = Says(t, s)
  BY <1>3 DEF Reads, Silent
<1>6. DOMAIN v.lost \cap Silent("Kernel") = {} =>
        (Pending(v) <=> Pending(t)) /\ (Unknown(v) <=> Unknown(t))
  BY <1>3, <1>5 DEF Reads, KernelFlags, SUSEReboot, DebianReboot, Mark
<1>7. DOMAIN v.lost \cap Accusing("Kernel") = {} => (Pending(v) => Pending(t) /\ ~Unknown(t))
  BY <1>3 DEF Reads, Accusing, KernelFlags, SUSEReboot, DebianReboot, Mark
<1> HIDE DEF Skipped, Unknown, Pending, R
<1>8. ASSUME NEW x
      PROVE  /\ Only(R(x), "Kernel") /\ ~Alarms(R(x), "Kernel")
             /\ Unseen(R(x)) <=> ~Skipped(x) /\ Unknown(x)
             /\ Warns(R(x), "Kernel") <=> ~Skipped(x) /\ ~Unknown(x) /\ Pending(x)
  BY <1>2, Nothing, Missed, Seen DEF When
<1>9. DOMAIN v.lost \cap Silent("Kernel") = {} =>
        Unseen(R(v)) \/ Outweighs(R(v), R(t), "Kernel")
  BY <1>8, <1>4, <1>6 DEF Outweighs
<1>10. DOMAIN v.lost \cap Accusing("Kernel") = {} => Outweighs(R(t), R(v), "Kernel")
  BY <1>8, <1>4, <1>7 DEF Outweighs
<1> QED
  BY <1>8, <1>9, <1>10, Comparing DEF R

\* Where /boot is refused, kernels are counted as none, and the refusal is told.
LEMMA KernelRetentionCompared ==
  ASSUME NEW v, NEW t, Sees(v, t)
  PROVE  Compared("KernelRetention", v, t)
<1> DEFINE Skipped(x) == InContainer(x)
           Unknown(x) == Got(x, "/boot") = "denied"
           kernels(x) == IF RetentionFile(x) = "dpkg" /\ ~Exists(x, "dpkg") THEN 0
             ELSE Num(x, "/boot", 0)
           used(x) == Num(x, "statfs /boot", 0)
           Dire(x) == used(x) >= 90
           Full(x) == "small" \in Says(x, "statfs /boot") /\ kernels(x) >= 3 /\ used(x) >= 80
           Many(x) == /\ RetentionFile(x) # "dpkg" /\ "all" \in Says(x, RetentionFile(x))
                      /\ kernels(x) >= 5
           R(x) == Report("KernelRetention", x)
<1>1. ASSUME NEW x
      PROVE  R(x) = IF ~Skipped(x) THEN CheckKernelRetention(KernelRetentionData(x)) ELSE {}
  <2>1. ResultOf("KernelRetention", x) = Where(~Skipped(x), KernelRetentionData(x))
    BY DEF ResultOf, Maintained
  <2>2. Scored("KernelRetention", KernelRetentionData(x), x) =
          CheckKernelRetention(KernelRetentionData(x))
    BY DEF Scored, ApplyOne, SystemInsights, MachineInsights, ServiceInsights, DeviceInsights,
           GuestInsights, UpkeepInsights
  <2>3. (~Skipped(x)) \in BOOLEAN
    BY DEF Exists, Ok
  <2> QED
    BY <2>1, <2>2, <2>3, Collected
<1>2. ASSUME NEW x
      PROVE  R(x) = IF Skipped(x) THEN {} ELSE IF Unknown(x) THEN {Unread("KernelRetention")}
                    ELSE IF Full(x) THEN (IF Dire(x) THEN {Found("CRIT", "KernelRetention")}
                                       ELSE {Found("WARN", "KernelRetention")})
                    ELSE When(Many(x), Found("WARN", "KernelRetention"))
  BY <1>1 DEF CheckKernelRetention, KernelRetentionData, Mark, When
<1>3. /\ Reads(v, t, "/boot") /\ Reads(v, t, "statfs /boot")
      /\ Reads(v, t, "zypp.conf") /\ Reads(v, t, "dnf.conf")
      /\ Reads(v, t, "zypper needs-rebooting") /\ Reads(v, t, "dnf")
      /\ Reads(v, t, "dpkg")
  BY DEF Sees
<1>4. Skipped(v) <=> Skipped(t)
  BY Contained
<1>5. /\ RetentionFile(v) = RetentionFile(t)
      /\ RetentionFile(t) \in {"zypp.conf", "dnf.conf", "dpkg"}
  BY <1>3 DEF Reads, RetentionFile
<1>6. ~Unknown(t) /\ (~Unknown(v) => kernels(v) = kernels(t))
  BY <1>3, <1>5 DEF Reads, Sees, Refused
<1>7. (used(v) = used(t) /\ Says(v, "statfs /boot") = Says(t, "statfs /boot")) \/
        Says(v, "statfs /boot") = {}
  BY <1>3 DEF Reads
<1>8. ~Unknown(v) => (Full(v) => Full(t) /\ (Dire(v) <=> Dire(t))) /\ (Many(v) => Many(t))
  BY <1>3, <1>5, <1>6, <1>7 DEF Reads
<1>9. DOMAIN v.lost \cap Silent("KernelRetention") = {} =>
        Same(v, t, "statfs /boot") /\ Same(v, t, "zypp.conf") /\ Same(v, t, "dnf.conf")
  BY Kept DEF Silent
<1>10. DOMAIN v.lost \cap Silent("KernelRetention") = {} =>
         /\ used(v) = used(t)
         /\ \A s \in {"statfs /boot", "zypp.conf", "dnf.conf"} : Says(v, s) = Says(t, s)
  BY <1>9 DEF Same
<1>11. DOMAIN v.lost \cap Silent("KernelRetention") = {} /\ ~Unknown(v) =>
         (Full(v) <=> Full(t)) /\ (Dire(v) <=> Dire(t)) /\ (Many(v) <=> Many(t))
  BY <1>5, <1>6, <1>10
<1> HIDE DEF Skipped, Unknown, kernels, used, Dire, Full, Many, R
<1>12. ASSUME NEW x
       PROVE  /\ Only(R(x), "KernelRetention")
              /\ Unseen(R(x)) <=> ~Skipped(x) /\ Unknown(x)
              /\ Alarms(R(x), "KernelRetention") <=>
                   ~Skipped(x) /\ ~Unknown(x) /\ Full(x) /\ Dire(x)
              /\ Warns(R(x), "KernelRetention") <=>
                   ~Skipped(x) /\ ~Unknown(x) /\ (IF Full(x) THEN ~Dire(x) ELSE Many(x))
  BY <1>2, Nothing, Missed, Seen DEF When
<1>13. DOMAIN v.lost \cap Silent("KernelRetention") = {} =>
         Unseen(R(v)) \/ Outweighs(R(v), R(t), "KernelRetention")
  BY <1>12, <1>4, <1>6, <1>11 DEF Outweighs
<1>14. DOMAIN v.lost \cap Accusing("KernelRetention") = {} =>
         Outweighs(R(t), R(v), "KernelRetention")
  BY <1>12, <1>4, <1>6, <1>8 DEF Outweighs
<1> QED
  BY <1>12, <1>13, <1>14, Comparing DEF R

\* A patch that does not say whether it is enabled is told as unverified.
LEMMA LivePatchCompared ==
  ASSUME NEW v, NEW t, Sees(v, t)
  PROVE  Compared("LivePatch", v, t)
<1> DEFINE Skipped(x) == InContainer(x)
           loaded(x) == Says(x, "/sys/kernel/livepatch")
           Unknown(x) == ~Ok(x, "livepatch enabled") /\ loaded(x) # {}
           Stuck(x) == \/ Ok(x, "livepatch enabled") /\ \E p \in loaded(x) : "enabled" \notin p
                       \/ /\ Ok(x, "livepatch transition")
                          /\ \E p \in loaded(x) : "transition" \in p
           stuck(x) == When(Stuck(x), Found("WARN", "LivePatch"))
           unknown(x) == When(Unknown(x), Unread("LivePatch"))
           R(x) == Report("LivePatch", x)
<1>1. ASSUME NEW x
      PROVE  R(x) = IF ~Skipped(x) THEN CheckLivePatch(LivePatchData(x)) ELSE {}
  <2>1. ResultOf("LivePatch", x) = Where(~Skipped(x), LivePatchData(x))
    BY DEF ResultOf, Maintained
  <2>2. Scored("LivePatch", LivePatchData(x), x) = CheckLivePatch(LivePatchData(x))
    BY DEF Scored, ApplyOne, SystemInsights, MachineInsights, ServiceInsights, DeviceInsights,
           GuestInsights, UpkeepInsights
  <2>3. (~Skipped(x)) \in BOOLEAN
    BY DEF Exists, Ok
  <2> QED
    BY <2>1, <2>2, <2>3, Collected
<1>2. ASSUME NEW x
      PROVE  R(x) = IF Skipped(x) THEN {}
                    ELSE stuck(x) \cup unknown(x)
  BY <1>1 DEF CheckLivePatch, LivePatchData, Mark, When
<1>3. /\ Reads(v, t, "livepatch enabled") /\ Reads(v, t, "livepatch transition")
      /\ Reads(v, t, "/sys/kernel/livepatch")
  BY DEF Sees
<1>4. Skipped(v) <=> Skipped(t)
  BY Contained
<1>5. Stuck(v) => Stuck(t)
  BY <1>3 DEF Reads
<1>6. DOMAIN v.lost \cap Silent("LivePatch") = {} /\ ~Unknown(v) => (Stuck(t) => Stuck(v))
  BY <1>3 DEF Reads, Silent
<1> HIDE DEF Skipped, loaded, Unknown, Stuck, stuck, unknown, R
<1>7. ASSUME NEW x
      PROVE  /\ Only(R(x), "LivePatch") /\ ~Alarms(R(x), "LivePatch")
             /\ Unseen(R(x)) <=> ~Skipped(x) /\ Unknown(x)
             /\ Warns(R(x), "LivePatch") <=> ~Skipped(x) /\ Stuck(x)
  <2>1. /\ Only(stuck(x), "LivePatch") /\ ~Unseen(stuck(x))
       /\ (Warns(stuck(x), "LivePatch") <=> Stuck(x)) /\ ~Alarms(stuck(x), "LivePatch")
    BY Nothing, Missed, Seen DEF When, stuck
  <2>2. /\ Only(unknown(x), "LivePatch") /\ (Unseen(unknown(x)) <=> Unknown(x))
       /\ ~Warns(unknown(x), "LivePatch") /\ ~Alarms(unknown(x), "LivePatch")
    BY Nothing, Missed, Seen DEF When, unknown
  <2> QED
    BY <1>2, <2>1, <2>2, Nothing, Missed, Both
<1>8. DOMAIN v.lost \cap Silent("LivePatch") = {} =>
        Unseen(R(v)) \/ Outweighs(R(v), R(t), "LivePatch")
  BY <1>7, <1>4, <1>6 DEF Outweighs
<1>9. DOMAIN v.lost \cap Accusing("LivePatch") = {} => Outweighs(R(t), R(v), "LivePatch")
  BY <1>7, <1>4, <1>5 DEF Outweighs
<1> QED
  BY <1>7, <1>8, <1>9, Comparing DEF R

-------------------------------------------------------------------------------
(* The machine: time, memory, services and sessions. *)

\* Offset and synchronization are of one call, a loss of Silent and of Accusing.
LEMMA ClockCompared ==
  ASSUME NEW v, NEW t, Sees(v, t)
  PROVE  Compared("Clock", v, t)
<1> DEFINE T(x) == Thresholds(SettingOf(x))
           Free(x) == When("synced" \notin ClockData(x).flags,
                           Found(IF "rtcLocal" \in ClockData(x).flags THEN "WARN" ELSE "CRIT",
                                 "Clock"))
           Drift(x) == IF ClockData(x).offset = -1 THEN {}
                       ELSE LevelPct("Clock", IF ClockData(x).offset < 0 THEN -ClockData(x).offset
                                              ELSE ClockData(x).offset, T(x).ntpWarn, T(x).ntpCrit)
           R(x) == Report("Clock", x)
<1>1. ASSUME NEW x
      PROVE  R(x) = CheckClock(ClockData(x), T(x))
  <2>1. ResultOf("Clock", x) = Delivered(ClockData(x))
    BY DEF ResultOf, SystemResultOf
  <2>2. Scored("Clock", ClockData(x), x) = CheckClock(ClockData(x), T(x))
    BY DEF Scored, ApplyOne, SystemInsights, MachineInsights, ServiceInsights, DeviceInsights,
           GuestInsights, UpkeepInsights
  <2> QED
    BY <2>1, <2>2, Collected
<1>2. /\ Reads(v, t, "adjtimex") /\ Reads(v, t, "/etc/adjtime")
  BY DEF Sees
<1>3. \A x : R(x) = Free(x) \cup Drift(x)
  BY <1>1 DEF CheckClock
<1>4. T(v) = T(t)
  BY SameThresholds
<1>5. \A x : Only(Free(x), "Clock")
  BY Seen, Nothing DEF When
<1>6. \A x : Only(Drift(x), "Clock")
  BY Seen, Nothing DEF When, LevelPct
<1>7. DOMAIN v.lost \cap Accusing("Clock") = {} => R(v) = R(t)
  <2>1. DOMAIN v.lost \cap Accusing("Clock") = {} => ClockData(v) = ClockData(t)
    BY <1>2 DEF Reads, Accusing, ClockData, Mark
  <2> QED
    BY <1>1, <2>1, <1>4
<1>8. "adjtimex" \notin DOMAIN v.lost => Drift(v) = Drift(t)
  BY Kept, <1>4 DEF Same, ClockData
<1>9. "adjtimex" \notin DOMAIN v.lost =>
        \/ Free(v) = Free(t)
        \/ Free(v) = {Found("CRIT", "Clock")} /\ Free(t) = {Found("WARN", "Clock")}
  <2>1. /\ \A x : "synced" \in ClockData(x).flags <=> "synced" \in Says(x, "adjtimex")
        /\ \A x : "rtcLocal" \in ClockData(x).flags <=>
                    "rtcLocal" \in Says(x, "adjtimex") \/ "LOCAL" \in Says(x, "/etc/adjtime")
    BY DEF ClockData, Mark
  <2>2. Says(v, "/etc/adjtime") \in {Says(t, "/etc/adjtime"), {}}
    BY <1>2 DEF Reads
  <2>3. "adjtimex" \notin DOMAIN v.lost => Says(v, "adjtimex") = Says(t, "adjtimex")
    BY Kept DEF Same
  <2> QED
    BY <2>1, <2>2, <2>3 DEF When
<1> HIDE DEF T, Free, Drift, R
<1>10. \A x : Only(R(x), "Clock")
  BY <1>3, <1>5, <1>6, Both
<1>11. "adjtimex" \notin DOMAIN v.lost => Outweighs(R(v), R(t), "Clock")
  BY <1>3, <1>8, <1>9, Both, Seen DEF Outweighs
<1>12. DOMAIN v.lost \cap Silent("Clock") = {} => Unseen(R(v)) \/ Outweighs(R(v), R(t), "Clock")
  BY <1>11 DEF Silent, Outweighs
<1>13. DOMAIN v.lost \cap Accusing("Clock") = {} => Outweighs(R(t), R(v), "Clock")
  BY <1>7 DEF Outweighs
<1> QED
  BY <1>10, <1>12, <1>13, Comparing DEF R

\* Devices that could not be read are told; without /sys/block all are on disk.
LEMMA SwapCompared ==
  ASSUME NEW v, NEW t, Sees(v, t)
  PROVE  Compared("Swap", v, t)
<1> DEFINE T(x) == Thresholds(SettingOf(x))
           Fails(x) == ~Ok(x, "/proc/vmstat")
           Blind(x) == When(SwapData(x).flags \cap {"swapsUnreadable", "zramUnreadable"} # {},
                            Unread("Swap"))
           Full(x) == SwapOccupancy(SwapData(x), T(x))
           Busy(x) == SwapActivity(SwapData(x), T(x))
           R(x) == Report("Swap", x)
<1>1. ASSUME NEW x
      PROVE  R(x) = IF Fails(x) THEN {Unread("Swap")} ELSE CheckSwap(SwapData(x), T(x))
  <2>1. ResultOf("Swap", x) = Unless(Fails(x), Delivered(SwapData(x)))
    BY DEF ResultOf, SystemResultOf
  <2>2. Scored("Swap", SwapData(x), x) = CheckSwap(SwapData(x), T(x))
    BY DEF Scored, ApplyOne, SystemInsights, MachineInsights, ServiceInsights, DeviceInsights,
           GuestInsights, UpkeepInsights
  <2>3. (Fails(x)) \in BOOLEAN
    BY DEF Exists, Ok
  <2> QED
    BY <2>1, <2>2, <2>3, Collected
<1>2. /\ Reads(v, t, "/proc/vmstat") /\ Reads(v, t, "/proc/swaps")
      /\ Reads(v, t, "/sys/block")
  BY DEF Sees
<1>3. \A x : SwapData(x).pressure = 0
  BY DEF SwapData
<1>4. \A x : R(x) = IF Fails(x) THEN {Unread("Swap")} ELSE Blind(x) \cup (Full(x) \cup Busy(x))
  BY <1>1, <1>3 DEF CheckSwap
<1>5. T(v) = T(t)
  BY SameThresholds
<1>6. T(v).swapWarn = 20 /\ T(v).swapCrit = 60
  <2>1. SettingOf(v).policy = [f \in {} |-> 0]
    BY DEF SettingOf
  <2>2. /\ "swapWarn" \in DOMAIN DefaultThresholds(SettingOf(v).env)
        /\ "swapCrit" \in DOMAIN DefaultThresholds(SettingOf(v).env)
        /\ DefaultThresholds(SettingOf(v).env).swapWarn = 20
        /\ DefaultThresholds(SettingOf(v).env).swapCrit = 60
    BY DEF DefaultThresholds
  <2>3. /\ DOMAIN ForContainers(DefaultThresholds(SettingOf(v).env)) =
             DOMAIN DefaultThresholds(SettingOf(v).env)
        /\ ForContainers(DefaultThresholds(SettingOf(v).env)).swapWarn = 20
        /\ ForContainers(DefaultThresholds(SettingOf(v).env)).swapCrit = 60
    BY <2>2 DEF ForContainers
  <2> QED
    BY <2>1, <2>2, <2>3 DEF Thresholds, ApplyPolicy
<1>7. \A x : Only(Blind(x), "Swap") /\ ~Alarms(Blind(x), "Swap") /\ ~Warns(Blind(x), "Swap")
  BY Missed, Nothing DEF When
<1>8. \A x : Only(Full(x), "Swap")
  BY Seen, Nothing DEF When, SwapOccupancy
<1>9. \A x : Only(Busy(x), "Swap")
  BY Seen, Nothing DEF When, SwapActivity
<1>10. Fails(t) => Fails(v)
  BY <1>2 DEF Reads
<1>11. ~Fails(v) => SwapData(v).paging = SwapData(t).paging
  BY <1>2 DEF Reads, SwapData
<1>12. Ok(v, "/proc/swaps") => SwapData(v).used = SwapData(t).used
  BY <1>2 DEF Reads, SwapData
<1>13. ~Ok(v, "/proc/swaps") => SwapData(v).used = 0
  BY <1>2 DEF Reads, SwapData
<1>14. Ok(v, "/sys/block") => ("zram" \in SwapData(v).flags <=> "zram" \in SwapData(t).flags)
  BY <1>2 DEF Reads, SwapData, ZramFlags, Mark
<1>15. ~Ok(v, "/proc/swaps") \/ ~Ok(v, "/sys/block") => Unseen(Blind(v))
  <2>1. /\ ~Ok(v, "/proc/swaps") => "swapsUnreadable" \in SwapData(v).flags
        /\ ~Ok(v, "/sys/block") => "zramUnreadable" \in SwapData(v).flags
    BY DEF SwapData, ZramFlags, Mark
  <2> QED
    BY <2>1, Missed DEF When
<1>16. ~Fails(v) /\ Ok(v, "/proc/swaps") => Full(v) = Full(t)
  BY <1>11, <1>12, <1>5 DEF SwapOccupancy
<1>17. ~Ok(v, "/proc/swaps") => Full(v) = {}
  BY <1>13, <1>6 DEF SwapOccupancy, When
<1>18. ~Fails(v) /\ Ok(v, "/sys/block") => Busy(v) = Busy(t)
  BY <1>11, <1>14, <1>5 DEF SwapActivity
<1>19. "/sys/block" \notin DOMAIN v.lost /\ ~Ok(v, "/sys/block") => ~Ok(t, "/sys/block")
  BY Kept DEF Same
<1>20. ~Ok(v, "/sys/block") /\ ~Ok(t, "/sys/block") /\ ~Fails(v) => Busy(v) = Busy(t)
  <2>1. \A x : ~Ok(x, "/sys/block") => "zram" \notin SwapData(x).flags
    BY DEF SwapData, ZramFlags, Mark, Says
  <2> QED
    BY <2>1, <1>11, <1>5 DEF SwapActivity
<1> HIDE DEF T, Fails, Blind, Full, Busy, R
<1>21. \A x : Only(R(x), "Swap")
  BY <1>4, <1>7, <1>8, <1>9, Both, Missed
<1>22. ASSUME NEW x
       PROVE  /\ Fails(x) => Unseen(R(x)) /\ ~Alarms(R(x), "Swap") /\ ~Warns(R(x), "Swap")
              /\ ~Fails(x) =>
                   /\ Alarms(R(x), "Swap") <=>
                        Alarms(Full(x), "Swap") \/ Alarms(Busy(x), "Swap")
                   /\ Warns(R(x), "Swap") <=> Warns(Full(x), "Swap") \/ Warns(Busy(x), "Swap")
                   /\ Unseen(Blind(x)) => Unseen(R(x))
  <2>1. CASE Fails(x)
    <3>1. R(x) = {Unread("Swap")}
      BY <1>4, <2>1
    <3> QED
      BY <2>1, <3>1, Missed
  <2>2. CASE ~Fails(x)
    <3>1. R(x) = Blind(x) \cup (Full(x) \cup Busy(x))
      BY <1>4, <2>2
    <3> QED
      BY <2>2, <3>1, <1>7, Both
  <2> QED
    BY <2>1, <2>2
<1>23. DOMAIN v.lost \cap Silent("Swap") = {} => Unseen(R(v)) \/ Outweighs(R(v), R(t), "Swap")
  BY <1>22, <1>10, <1>16, <1>18, <1>15 DEF Outweighs
<1>24. DOMAIN v.lost \cap Accusing("Swap") = {} => Outweighs(R(t), R(v), "Swap")
  BY <1>22, <1>10, <1>16, <1>17, <1>18, <1>19, <1>20, Nothing DEF Accusing,
   Outweighs
<1> QED
  BY <1>21, <1>23, <1>24, Comparing DEF R

\* The counts are of one file, which is told when it could not be read.
LEMMA HugePagesCompared ==
  ASSUME NEW v, NEW t, Sees(v, t)
  PROVE  Compared("HugePages", v, t)
<1> DEFINE Unknown(x) == ~Ok(x, "/proc/meminfo")
           Idle(x) == /\ {"configured", "largeReserve"} \subseteq Says(x, "/proc/meminfo")
                      /\ Num(x, "/proc/meminfo", 0) < 20
           R(x) == Report("HugePages", x)
<1>1. ASSUME NEW x
      PROVE  R(x) = CheckHugePages(HugePagesData(x))
  <2>1. ResultOf("HugePages", x) = Delivered(HugePagesData(x))
    BY DEF ResultOf, SystemResultOf
  <2>2. Scored("HugePages", HugePagesData(x), x) = CheckHugePages(HugePagesData(x))
    BY DEF Scored, ApplyOne, SystemInsights, MachineInsights, ServiceInsights, DeviceInsights,
           GuestInsights, UpkeepInsights
  <2> QED
    BY <2>1, <2>2, Collected
<1>2. Reads(v, t, "/proc/meminfo")
  BY DEF Sees
<1>3. \A x : Only(R(x), "HugePages")
  BY <1>1, Kinds DEF Only, CheckHugePages, When, Levels
<1>4. Unknown(v) => R(v) = {Unread("HugePages")}
  BY <1>1 DEF CheckHugePages, HugePagesData
<1>5. \A x : ~Unknown(x) /\ "pagesUnread" \notin Says(x, "/proc/meminfo") =>
          ~Alarms(R(x), "HugePages") /\ (Warns(R(x), "HugePages") <=> Idle(x))
  BY <1>1, Kinds DEF CheckHugePages, HugePagesData, Mark, When, Alarms, Warns
<1>6. \A x : ~Unknown(x) /\ "pagesUnread" \in Says(x, "/proc/meminfo") =>
        R(x) = {Unread("HugePages")}
  BY <1>1 DEF CheckHugePages, HugePagesData
<1>7. ~Unknown(v) => /\ ~Unknown(t) /\ Says(v, "/proc/meminfo") = Says(t, "/proc/meminfo")
                     /\ Idle(v) <=> Idle(t)
  BY <1>2 DEF Reads
<1>8. DOMAIN v.lost \cap Silent("HugePages") = {} =>
        Unseen(R(v)) \/ Outweighs(R(v), R(t), "HugePages")
  BY <1>4, <1>5, <1>6, <1>7, Missed DEF Outweighs
<1>9. DOMAIN v.lost \cap Accusing("HugePages") = {} => Outweighs(R(t), R(v), "HugePages")
  BY <1>4, <1>5, <1>6, <1>7, Missed DEF Outweighs
<1> QED
  BY <1>3, <1>8, <1>9, Comparing DEF R

\* Any unreadable file is told, and reads as no pressure.
LEMMA PressureCompared ==
  ASSUME NEW v, NEW t, Sees(v, t)
  PROVE  Compared("Pressure", v, t)
<1> DEFINE There(x) == Exists(x, "pressure/memory")
           Blind(x) == When("metricsUnreadable" \in PressureData(x).flags, Unread("Pressure"))
           Starved(x) == IF PressureData(x).memoryFull >= 10 THEN {Found("CRIT", "Pressure")}
                         ELSE When(PressureData(x).memorySome >= 20, Found("WARN", "Pressure"))
           Stalled(x) == When(PressureData(x).ioFull >= 5 \/ PressureData(x).cpuSome >= 30,
                              Found("WARN", "Pressure"))
           R(x) == Report("Pressure", x)
<1>1. ASSUME NEW x
      PROVE  R(x) = IF There(x) THEN CheckPressure(PressureData(x)) ELSE {}
  <2>1. ResultOf("Pressure", x) = Where(There(x), PressureData(x))
    BY DEF ResultOf, SystemResultOf
  <2>2. Scored("Pressure", PressureData(x), x) = CheckPressure(PressureData(x))
    BY DEF Scored, ApplyOne, SystemInsights, MachineInsights, ServiceInsights, DeviceInsights,
           GuestInsights, UpkeepInsights
  <2>3. (There(x)) \in BOOLEAN
    BY DEF Exists, Ok
  <2> QED
    BY <2>1, <2>2, <2>3, Collected
<1>2. /\ Reads(v, t, "pressure/memory") /\ Reads(v, t, "pressure/cpu")
      /\ Reads(v, t, "pressure/io")
  BY DEF Sees
<1>3. \A x : R(x) = IF There(x) THEN Blind(x) \cup (Starved(x) \cup Stalled(x)) ELSE {}
  BY <1>1 DEF CheckPressure
<1>4. There(v) <=> There(t)
  BY <1>2 DEF Reads
<1>5. \A x : /\ Only(Blind(x), "Pressure")
             /\ ~Alarms(Blind(x), "Pressure")
             /\ ~Warns(Blind(x), "Pressure")
  BY Missed, Nothing DEF When
<1>6. \A x : Only(Starved(x), "Pressure")
  BY Seen, Nothing DEF When
<1>7. \A x : Only(Stalled(x), "Pressure")
  BY Seen, Nothing DEF When
<1>8. \A f : Says(v, f) = Says(t, f) \/ Says(v, f) = {}
  BY DEF Sees, Reads
<1>9. \A f, part : Says(v, f) = Says(t, f) => StallIn(v, f, part) = StallIn(t, f, part)
  BY DEF StallIn
<1>10. \A f, part : Says(v, f) = {} => StallIn(v, f, part) = 0
  BY DEF StallIn
<1>11. \/ PressureData(v).memorySome = 0 /\ PressureData(v).memoryFull = 0
       \/ /\ PressureData(v).memorySome = PressureData(t).memorySome
          /\ PressureData(v).memoryFull = PressureData(t).memoryFull
  BY <1>8, <1>9, <1>10 DEF PressureData
<1>12. PressureData(v).cpuSome \in {0, PressureData(t).cpuSome}
  BY <1>8, <1>9, <1>10 DEF PressureData
<1>13. PressureData(v).ioFull \in {0, PressureData(t).ioFull}
  BY <1>8, <1>9, <1>10 DEF PressureData
<1>14. (\A f \in PSIFiles : Ok(v, f)) => Starved(v) = Starved(t) /\ Stalled(v) = Stalled(t)
  <2>1. (\A f \in PSIFiles : Ok(v, f)) => \A f \in PSIFiles : Says(v, f) = Says(t, f)
    BY DEF Sees, Reads
  <2>2. (\A f \in PSIFiles : Ok(v, f)) =>
          /\ PressureData(v).memorySome = PressureData(t).memorySome
          /\ PressureData(v).memoryFull = PressureData(t).memoryFull
          /\ PressureData(v).cpuSome = PressureData(t).cpuSome
          /\ PressureData(v).ioFull = PressureData(t).ioFull
    BY <2>1, <1>9 DEF PressureData, PSIFiles
  <2> QED
    BY <2>2
<1>15. (\E f \in PSIFiles : ~Ok(v, f)) => Unseen(Blind(v))
  <2>1. (\E f \in PSIFiles : ~Ok(v, f)) => "metricsUnreadable" \in PressureData(v).flags
    BY DEF PressureData, Mark
  <2> QED
    BY <2>1, Missed DEF When
<1>16. Starved(v) = {} \/ Starved(v) = Starved(t)
  BY <1>11 DEF When
<1>17. Stalled(v) = {} \/ Stalled(v) = Stalled(t)
  BY <1>12, <1>13 DEF When
<1> HIDE DEF There, Blind, Starved, Stalled, R
<1>18. \A x : Only(R(x), "Pressure")
  BY <1>3, <1>5, <1>6, <1>7, Both, Nothing
<1>19. ASSUME NEW x
       PROVE  /\ ~There(x) => ~Alarms(R(x), "Pressure") /\ ~Warns(R(x), "Pressure")
              /\ There(x) =>
                   /\ Alarms(R(x), "Pressure") <=>
                        Alarms(Starved(x), "Pressure") \/ Alarms(Stalled(x), "Pressure")
                   /\ Warns(R(x), "Pressure") <=>
                        Warns(Starved(x), "Pressure") \/ Warns(Stalled(x), "Pressure")
                   /\ Unseen(Blind(x)) => Unseen(R(x))
  <2>1. CASE ~There(x)
    <3>1. R(x) = {}
      BY <1>3, <2>1
    <3> QED
      BY <2>1, <3>1, Nothing
  <2>2. CASE There(x)
    <3>1. R(x) = Blind(x) \cup (Starved(x) \cup Stalled(x))
      BY <1>3, <2>2
    <3> QED
      BY <2>2, <3>1, <1>5, Both
  <2> QED
    BY <2>1, <2>2
<1>20. DOMAIN v.lost \cap Silent("Pressure") = {} =>
         Unseen(R(v)) \/ Outweighs(R(v), R(t), "Pressure")
  BY <1>19, <1>4, <1>14, <1>15 DEF Outweighs
<1>21. DOMAIN v.lost \cap Accusing("Pressure") = {} => Outweighs(R(t), R(v), "Pressure")
  BY <1>19, <1>4, <1>16, <1>17, Nothing DEF Outweighs
<1> QED
  BY <1>18, <1>20, <1>21, Comparing DEF R

\* Without the kernel's count nothing is delivered, and the failure is told.
LEMMA EntropyCompared ==
  ASSUME NEW v, NEW t, Sees(v, t)
  PROVE  Compared("Entropy", v, t)
<1> DEFINE bits(x) == Num(x, "entropy_avail", 256)
           Low(x) == bits(x) < 64
           Short(x) == bits(x) < 256
           Unknown(x) == ~Ok(x, "entropy_avail")
           R(x) == Report("Entropy", x)
<1>1. ASSUME NEW x
      PROVE  R(x) = IF Unknown(x) THEN {Unread("Entropy")}
               ELSE CheckEntropy(EntropyData(x).bits)
  <2>1. ResultOf("Entropy", x) = Unless(Unknown(x), Delivered(EntropyData(x)))
    BY DEF ResultOf, SystemResultOf
  <2>2. Scored("Entropy", EntropyData(x), x) = CheckEntropy(EntropyData(x).bits)
    BY DEF Scored, ApplyOne, SystemInsights, MachineInsights, ServiceInsights, DeviceInsights,
           GuestInsights, UpkeepInsights
  <2>3. (Unknown(x)) \in BOOLEAN
    BY DEF Exists, Ok
  <2> QED
    BY <2>1, <2>2, <2>3, Collected
<1>2. ASSUME NEW x
      PROVE  R(x) = IF Unknown(x) THEN {Unread("Entropy")}
                    ELSE IF Low(x) THEN {Found("CRIT", "Entropy")}
                    ELSE When(Short(x), Found("WARN", "Entropy"))
  BY <1>1 DEF CheckEntropy, EntropyData
<1>3. Reads(v, t, "entropy_avail")
  BY DEF Sees
<1>4. ~Unknown(v) => ~Unknown(t) /\ (Low(v) <=> Low(t)) /\ (Short(v) <=> Short(t))
  BY <1>3 DEF Reads
<1> HIDE DEF bits, Low, Short, Unknown, R
<1>5. ASSUME NEW x
      PROVE  /\ Only(R(x), "Entropy")
             /\ Unseen(R(x)) <=> Unknown(x)
             /\ Alarms(R(x), "Entropy") <=> ~Unknown(x) /\ Low(x)
             /\ Warns(R(x), "Entropy") <=> ~Unknown(x) /\ ~Low(x) /\ Short(x)
  BY <1>2, Nothing, Missed, Seen DEF When
<1>6. DOMAIN v.lost \cap Silent("Entropy") = {} =>
        Unseen(R(v)) \/ Outweighs(R(v), R(t), "Entropy")
  BY <1>5, <1>4 DEF Outweighs
<1>7. DOMAIN v.lost \cap Accusing("Entropy") = {} => Outweighs(R(t), R(v), "Entropy")
  BY <1>5, <1>4 DEF Outweighs
<1> QED
  BY <1>5, <1>6, <1>7, Comparing DEF R

\* A service manager that says nothing is told.
LEMMA DBusCompared ==
  ASSUME NEW v, NEW t, Sees(v, t)
  PROVE  Compared("DBus", v, t)
<1> DEFINE There(x) == Exists(x, "systemd")
           status(x) == DBusData(x).status
           Down(x) == status(x) \in {"failed", "inactive"}
           Unknown(x) == ~Down(x) /\ status(x) \notin {"n/a", "active"}
           R(x) == Report("DBus", x)
<1>1. ASSUME NEW x
      PROVE  R(x) = IF There(x) THEN CheckDBus(DBusData(x).status) ELSE {}
  <2>1. ResultOf("DBus", x) = Where(There(x), DBusData(x))
    BY DEF ResultOf, SystemResultOf
  <2>2. Scored("DBus", DBusData(x), x) = CheckDBus(DBusData(x).status)
    BY DEF Scored, ApplyOne, SystemInsights, MachineInsights, ServiceInsights, DeviceInsights,
           GuestInsights, UpkeepInsights
  <2>3. (There(x)) \in BOOLEAN
    BY DEF Exists, Ok
  <2> QED
    BY <2>1, <2>2, <2>3, Collected
<1>2. ASSUME NEW x
      PROVE  R(x) = IF ~There(x) THEN {} ELSE IF Unknown(x) THEN {Unread("DBus")}
                    ELSE When(Down(x), Found("CRIT", "DBus"))
  BY <1>1 DEF CheckDBus, When
<1>3. /\ Reads(v, t, "systemd") /\ Reads(v, t, "systemctl is-active dbus")
  BY DEF Sees
<1>4. There(v) <=> There(t)
  BY <1>3 DEF Reads
<1>5. status(v) \in {status(t), "unknown"}
  BY <1>3 DEF Reads, DBusData
<1>6. ~Unknown(v) => ~Unknown(t) /\ (Down(v) <=> Down(t))
  BY <1>5
<1> HIDE DEF There, status, Down, Unknown, R
<1>7. ASSUME NEW x
      PROVE  /\ Only(R(x), "DBus") /\ ~Warns(R(x), "DBus")
             /\ Unseen(R(x)) <=> There(x) /\ Unknown(x)
             /\ Alarms(R(x), "DBus") <=> There(x) /\ ~Unknown(x) /\ Down(x)
  BY <1>2, Nothing, Missed, Seen DEF When
<1>8. DOMAIN v.lost \cap Silent("DBus") = {} => Unseen(R(v)) \/ Outweighs(R(v), R(t), "DBus")
  BY <1>7, <1>4, <1>6 DEF Outweighs
<1>9. DOMAIN v.lost \cap Accusing("DBus") = {} => Outweighs(R(t), R(v), "DBus")
  BY <1>7, <1>4, <1>6 DEF Outweighs
<1> QED
  BY <1>7, <1>8, <1>9, Comparing DEF R

\* Without w nothing is known, and the check says so.
LEMMA SessionsCompared ==
  ASSUME NEW v, NEW t, Sees(v, t)
  PROVE  Compared("Sessions", v, t)
<1> DEFINE Unknown(x) == ~Ok(x, "w")
           R(x) == Report("Sessions", x)
<1>1. ASSUME NEW x
      PROVE  R(x) = CheckSessions(SessionsData(x))
  <2>1. ResultOf("Sessions", x) = Delivered(SessionsData(x))
    BY DEF ResultOf, SystemResultOf
  <2>2. Scored("Sessions", SessionsData(x), x) = CheckSessions(SessionsData(x))
    BY DEF Scored, ApplyOne, SystemInsights, MachineInsights, ServiceInsights, DeviceInsights,
           GuestInsights, UpkeepInsights
  <2> QED
    BY <2>1, <2>2, Collected
<1>2. /\ Reads(v, t, "w") /\ Reads(v, t, "/etc/pve")
  BY DEF Sees
<1>3. \A x : Only(R(x), "Sessions")
  BY <1>1, Kinds DEF Only, CheckSessions, When, Levels
<1>4. Unknown(v) => R(v) = {Unread("Sessions")}
  BY <1>1 DEF CheckSessions, SessionsData, Mark
<1>5. ~Unknown(v) => /\ ~Unknown(t) /\ Says(v, "w") = Says(t, "w")
                     /\ Exists(v, "/etc/pve") <=> Exists(t, "/etc/pve")
  BY <1>2 DEF Reads
<1>6. ~Unknown(v) => SessionsData(v) = SessionsData(t)
  BY <1>5 DEF SessionsData, Mark
<1>7. ~Unknown(v) => R(v) = R(t)
  BY <1>1, <1>6
<1>8. DOMAIN v.lost \cap Silent("Sessions") = {} =>
        Unseen(R(v)) \/ Outweighs(R(v), R(t), "Sessions")
  BY <1>4, <1>7, Missed DEF Outweighs
<1>9. DOMAIN v.lost \cap Accusing("Sessions") = {} => Outweighs(R(t), R(v), "Sessions")
  BY <1>4, <1>7, Missed DEF Outweighs
<1> QED
  BY <1>3, <1>8, <1>9, Comparing DEF R

-------------------------------------------------------------------------------
(* Filesystems and arrays. *)

\* Mounts that could not be read are told; fstab is a loss of Silent.
LEMMA RootFSCompared ==
  ASSUME NEW v, NEW t, Sees(v, t)
  PROVE  Compared("RootFS", v, t)
<1> DEFINE Unknown(x) == ~Ok(x, "/proc/mounts")
           ReadOnly(x) == RootFSFound(x)
           R(x) == Report("RootFS", x)
<1>1. ASSUME NEW x
      PROVE  R(x) = IF Unknown(x) THEN {Unread("RootFS")}
               ELSE IF RootFSFound(x) THEN CheckRootFS(RootFSData) ELSE {}
  <2>1. ResultOf("RootFS", x) = Unless(Unknown(x), Where(RootFSFound(x), RootFSData))
    BY DEF ResultOf, SystemResultOf, StorageResultOf
  <2>2. Scored("RootFS", RootFSData, x) = CheckRootFS(RootFSData)
    BY DEF Scored, ApplyOne, SystemInsights, MachineInsights, ServiceInsights, DeviceInsights,
           GuestInsights, UpkeepInsights
  <2>3. (RootFSFound(x)) \in BOOLEAN /\ (Unknown(x)) \in BOOLEAN
    BY DEF RootFSFound, Ok
  <2> QED
    BY <2>1, <2>2, <2>3, Collected
<1>2. ASSUME NEW x
      PROVE  R(x) = IF Unknown(x) THEN {Unread("RootFS")}
                    ELSE When(ReadOnly(x), Found("CRIT", "RootFS"))
  BY <1>1 DEF CheckRootFS, RootFSData, When
<1>3. /\ Reads(v, t, "/proc/mounts") /\ Reads(v, t, "/etc/fstab")
      /\ Reads(v, t, "os-release") /\ Reads(v, t, "/run/ostree-booted")
      /\ Reads(v, t, "transactional-update")
  BY DEF Sees
<1>4. ~Unknown(v) => ~Unknown(t) /\ Mounts(v) = Mounts(t)
  BY <1>3 DEF Reads, Mounts
<1>5. RootMeantWritable(v) => RootMeantWritable(t)
  BY <1>3 DEF Reads, RootMeantWritable
<1>6. RootImmutable(v) => RootImmutable(t)
  BY <1>3 DEF Reads, RootImmutable
<1>7. DOMAIN v.lost \cap Silent("RootFS") = {} =>
        (RootMeantWritable(v) <=> RootMeantWritable(t))
  BY <1>3 DEF Reads, RootMeantWritable, Silent
<1>8. DOMAIN v.lost \cap Accusing("RootFS") = {} => (RootImmutable(v) <=> RootImmutable(t))
  BY <1>3 DEF Reads, RootImmutable, Accusing
<1>9. DOMAIN v.lost \cap Silent("RootFS") = {} /\ ~Unknown(v) => (ReadOnly(t) => ReadOnly(v))
  BY <1>4, <1>6, <1>7 DEF RootFSFound
<1>10. DOMAIN v.lost \cap Accusing("RootFS") = {} /\ ~Unknown(v) => (ReadOnly(v) => ReadOnly(t))
  BY <1>4, <1>5, <1>8 DEF RootFSFound
<1> HIDE DEF Unknown, ReadOnly, R
<1>11. ASSUME NEW x
       PROVE  /\ Only(R(x), "RootFS") /\ ~Warns(R(x), "RootFS")
              /\ Unseen(R(x)) <=> Unknown(x)
              /\ Alarms(R(x), "RootFS") <=> ~Unknown(x) /\ ReadOnly(x)
  BY <1>2, Nothing, Missed, Seen DEF When
<1>12. DOMAIN v.lost \cap Silent("RootFS") = {} =>
         Unseen(R(v)) \/ Outweighs(R(v), R(t), "RootFS")
  BY <1>11, <1>9, <1>4 DEF Outweighs
<1>13. DOMAIN v.lost \cap Accusing("RootFS") = {} => Outweighs(R(t), R(v), "RootFS")
  BY <1>11, <1>10, <1>4 DEF Outweighs
<1> QED
  BY <1>11, <1>12, <1>13, Comparing DEF R

\* What could not be read gives no drift; its sources are losses of Silent.
LEMMA FstabCompared ==
  ASSUME NEW v, NEW t, Sees(v, t)
  PROVE  Compared("Fstab", v, t)
<1> DEFINE There(x) == Exists(x, "/etc/fstab")
           Gone(x, e) == Drifted(x, e)
           Boot(x) == \E e \in Says(x, "/etc/fstab") : /\ Gone(x, e)
                                                       /\ e.mount \in {"/", "/boot", "/boot/efi"}
           Other(x) == \E e \in Says(x, "/etc/fstab") : /\ Gone(x, e)
                                                        /\ e.mount \notin {"/", "/boot",
                                                                           "/boot/efi"}
           boot(x) == When(Boot(x), Found("CRIT", "Fstab"))
           other(x) == When(Other(x), Found("WARN", "Fstab"))
           R(x) == Report("Fstab", x)
<1>1. ASSUME NEW x
      PROVE  R(x) = IF There(x) THEN CheckFstab(FstabData(x)) ELSE {}
  <2>1. ResultOf("Fstab", x) = Where(There(x), FstabData(x))
    BY DEF ResultOf, SystemResultOf, StorageResultOf
  <2>2. Scored("Fstab", FstabData(x), x) = CheckFstab(FstabData(x))
    BY DEF Scored, ApplyOne, SystemInsights, MachineInsights, ServiceInsights, DeviceInsights,
           GuestInsights, UpkeepInsights
  <2>3. (There(x)) \in BOOLEAN
    BY DEF Exists, Ok
  <2> QED
    BY <2>1, <2>2, <2>3, Collected
<1>2. ASSUME NEW x
      PROVE  R(x) = IF ~There(x) THEN {}
                    ELSE boot(x) \cup other(x)
  BY <1>1 DEF CheckFstab, FstabData, When
<1>3. /\ Reads(v, t, "/etc/fstab") /\ Reads(v, t, "/dev/disk/by-uuid")
      /\ Reads(v, t, "/dev/disk/by-partuuid")
  BY DEF Sees
<1>4. There(v) <=> There(t)
  BY <1>3 DEF Reads
<1>5. \A e : Gone(v, e) => Gone(t, e)
  BY <1>3 DEF Reads, Drifted
<1>6. (Boot(v) => Boot(t)) /\ (Other(v) => Other(t))
  BY <1>3, <1>5 DEF Reads
<1>7. DOMAIN v.lost \cap Silent("Fstab") = {} =>
        Says(v, "/etc/fstab") = Says(t, "/etc/fstab") /\ \A e : Gone(t, e) => Gone(v, e)
  BY <1>3 DEF Reads, Drifted, Silent
<1>8. DOMAIN v.lost \cap Silent("Fstab") = {} => (Boot(t) => Boot(v)) /\ (Other(t) => Other(v))
  BY <1>7
<1> HIDE DEF There, Gone, Boot, Other, boot, other, R
<1>9. ASSUME NEW x
      PROVE  /\ Only(R(x), "Fstab")
             /\ Alarms(R(x), "Fstab") <=> There(x) /\ Boot(x)
             /\ Warns(R(x), "Fstab") <=> There(x) /\ Other(x)
  <2>1. /\ Only(boot(x), "Fstab") /\ ~Unseen(boot(x))
       /\ ~Warns(boot(x), "Fstab") /\ (Alarms(boot(x), "Fstab") <=> Boot(x))
    BY Nothing, Missed, Seen DEF When, boot
  <2>2. /\ Only(other(x), "Fstab") /\ ~Unseen(other(x))
       /\ (Warns(other(x), "Fstab") <=> Other(x)) /\ ~Alarms(other(x), "Fstab")
    BY Nothing, Missed, Seen DEF When, other
  <2> QED
    BY <1>2, <2>1, <2>2, Nothing, Missed, Both
<1>10. DOMAIN v.lost \cap Silent("Fstab") = {} => Unseen(R(v)) \/ Outweighs(R(v), R(t), "Fstab")
  BY <1>9, <1>4, <1>8 DEF Outweighs
<1>11. DOMAIN v.lost \cap Accusing("Fstab") = {} => Outweighs(R(t), R(v), "Fstab")
  BY <1>9, <1>4, <1>6 DEF Outweighs
<1> QED
  BY <1>9, <1>10, <1>11, Comparing DEF R

\* Without snapper's list no snapshot is counted, and the refusal is told.
LEMMA SnapshotsCompared ==
  ASSUME NEW v, NEW t, Sees(v, t)
  PROVE  Compared("Snapshots", v, t)
<1> DEFINE There(x) == Exists(x, "snapper")
           Unknown(x) == ~Ok(x, "snapper list")
           R(x) == Report("Snapshots", x)
<1>1. ASSUME NEW x
      PROVE  R(x) = IF There(x) THEN CheckSnapper(SnapperData(x)) ELSE {}
  <2>1. ResultOf("Snapshots", x) = Where(There(x), SnapperData(x))
    BY DEF ResultOf, SystemResultOf, StorageResultOf
  <2>2. Scored("Snapshots", SnapperData(x), x) = CheckSnapper(SnapperData(x))
    BY DEF Scored, ApplyOne, SystemInsights, MachineInsights, ServiceInsights, DeviceInsights,
           GuestInsights, UpkeepInsights
  <2>3. (There(x)) \in BOOLEAN
    BY DEF Exists, Ok
  <2> QED
    BY <2>1, <2>2, <2>3, Collected
<1>2. /\ Reads(v, t, "snapper") /\ Reads(v, t, "snapper list")
  BY DEF Sees
<1>3. \A x : Only(R(x), "Snapshots")
  BY <1>1, Kinds DEF Only, CheckSnapper, SnapshotState, LevelPct, When, Levels
<1>4. There(v) /\ Unknown(v) => R(v) = {Unread("Snapshots")}
  BY <1>1 DEF CheckSnapper, SnapperData
<1>5. ~There(v) \/ ~Unknown(v) => R(v) = R(t)
  BY <1>1, <1>2 DEF Reads, SnapperData, Dated
<1>6. DOMAIN v.lost \cap Silent("Snapshots") = {} =>
        Unseen(R(v)) \/ Outweighs(R(v), R(t), "Snapshots")
  BY <1>4, <1>5, Missed DEF Outweighs
<1>7. DOMAIN v.lost \cap Accusing("Snapshots") = {} => Outweighs(R(t), R(v), "Snapshots")
  BY <1>4, <1>5, Missed DEF Outweighs
<1> QED
  BY <1>3, <1>6, <1>7, Comparing DEF R

\* An unreadable mdstat leaves the collector out, as Silent has it.
LEMMA RAIDCompared ==
  ASSUME NEW v, NEW t, Sees(v, t)
  PROVE  Compared("RAID", v, t)
<1> DEFINE There(x) == RAIDPresent(x)
           R(x) == Report("RAID", x)
<1>1. ASSUME NEW x
      PROVE  R(x) = IF There(x) THEN CheckRAID(RAIDData(x)) ELSE {}
  <2>1. ResultOf("RAID", x) = Where(There(x), RAIDData(x))
    BY DEF ResultOf, SystemResultOf, StorageResultOf
  <2>2. Scored("RAID", RAIDData(x), x) = CheckRAID(RAIDData(x))
    BY DEF Scored, ApplyOne, SystemInsights, MachineInsights, ServiceInsights, DeviceInsights,
           GuestInsights, UpkeepInsights
  <2>3. (There(x)) \in BOOLEAN
    BY DEF RAIDPresent
  <2> QED
    BY <2>1, <2>2, <2>3, Collected
<1>2. Reads(v, t, "/proc/mdstat")
  BY DEF Sees
<1>3. \A x : Only(R(x), "RAID")
  BY <1>1, Kinds DEF Only, CheckRAID, ByState, When, Levels
<1>4. ~Ok(v, "/proc/mdstat") => R(v) = {}
  BY <1>1, <1>2 DEF Reads, RAIDPresent
<1>5. Ok(v, "/proc/mdstat") => R(v) = R(t)
  BY <1>1, <1>2 DEF Reads, RAIDPresent, RAIDData
<1>6. DOMAIN v.lost \cap Silent("RAID") = {} => R(v) = R(t)
  BY <1>1, <1>2 DEF Reads, RAIDPresent, RAIDData, Silent
<1>7. DOMAIN v.lost \cap Silent("RAID") = {} => Unseen(R(v)) \/ Outweighs(R(v), R(t), "RAID")
  BY <1>6 DEF Outweighs
<1>8. DOMAIN v.lost \cap Accusing("RAID") = {} => Outweighs(R(t), R(v), "RAID")
  BY <1>4, <1>5, Nothing DEF Outweighs
<1> QED
  BY <1>3, <1>7, <1>8, Comparing DEF R

\* A tool that fails is told.
LEMMA HardwareRAIDCompared ==
  ASSUME NEW v, NEW t, Sees(v, t)
  PROVE  Compared("HardwareRAID", v, t)
<1> DEFINE There(x) == HWRaidFound(x)
           Unknown(x) == ~Ok(x, RaidTool(x))
           R(x) == Report("HardwareRAID", x)
<1>1. ASSUME NEW x
      PROVE  R(x) = IF There(x) THEN CheckHWRaid(HWRaidData(x)) ELSE {}
  <2>1. ResultOf("HardwareRAID", x) = Where(There(x), HWRaidData(x))
    BY DEF ResultOf, SystemResultOf, StorageResultOf
  <2>2. Scored("HardwareRAID", HWRaidData(x), x) = CheckHWRaid(HWRaidData(x))
    BY DEF Scored, ApplyOne, SystemInsights, MachineInsights, ServiceInsights, DeviceInsights,
           GuestInsights, UpkeepInsights
  <2>3. (There(x)) \in BOOLEAN
    BY DEF HWRaidFound, Ok
  <2> QED
    BY <2>1, <2>2, <2>3, Collected
<1>2. /\ Reads(v, t, "storcli") /\ Reads(v, t, "ssacli")
  BY DEF Sees
<1>3. \A s : Only(RaidVolume(s), "HardwareRAID")
  BY Kinds DEF Only, RaidVolume, When, Levels
<1>4. \A c : Only(UNION {RaidVolume(s) : s \in c.members}, "HardwareRAID")
  BY <1>3 DEF Only
<1>5. ASSUME NEW c
      PROVE  Only(RaidController(c), "HardwareRAID")
  <2> DEFINE volumes == UNION {RaidVolume(s) : s \in c.members}
             battery == IF "batteryBad" \in c.flags THEN {Found("WARN", "HardwareRAID")}
                        ELSE When("cacheBatteryUnread" \in c.flags, Unread("HardwareRAID"))
  <2>1. Only(volumes, "HardwareRAID") /\ Only(battery, "HardwareRAID")
    BY <1>4, Seen, Missed, Nothing DEF When
  <2>2. RaidController(c) = volumes \cup battery
    BY DEF RaidController
  <2> HIDE DEF volumes, battery
  <2> QED
    BY <2>1, <2>2, Both
<1>6. \A c : Only(RaidController(c), "HardwareRAID")
  BY <1>5
<1>7. \A r : Only(CheckHWRaid(r), "HardwareRAID")
  BY <1>6, Kinds DEF Only, CheckHWRaid
<1>8. \A x : Only(R(x), "HardwareRAID")
  BY <1>1, <1>7, Nothing
<1>9. Unknown(v) => R(v) = {Unread("HardwareRAID")}
  BY <1>1 DEF HWRaidFound, HWRaidData, CheckHWRaid
<1>10. RaidTool(v) = RaidTool(t) /\ RaidTool(t) \in {"storcli", "ssacli"}
  BY <1>2 DEF Reads, RaidTool
<1>11. ~Unknown(v) => ~Unknown(t) /\ Says(v, RaidTool(v)) = Says(t, RaidTool(t))
  BY <1>2, <1>10 DEF Reads
<1>12. ~Unknown(v) => HWRaidData(v) = HWRaidData(t) /\ (There(v) <=> There(t))
  BY <1>10, <1>11 DEF HWRaidData, HWRaidFound, Controllers
<1>13. ~Unknown(v) => R(v) = R(t)
  BY <1>1, <1>12
<1>14. DOMAIN v.lost \cap Silent("HardwareRAID") = {} =>
         Unseen(R(v)) \/ Outweighs(R(v), R(t), "HardwareRAID")
  BY <1>9, <1>13, Missed DEF Outweighs
<1>15. DOMAIN v.lost \cap Accusing("HardwareRAID") = {} => Outweighs(R(t), R(v), "HardwareRAID")
  BY <1>9, <1>13, Missed DEF Outweighs
<1> QED
  BY <1>8, <1>14, <1>15, Comparing DEF R

\* Pools whose status could not be read keep what the list says of them.
LEMMA ZFSCompared ==
  ASSUME NEW v, NEW t, Sees(v, t)
  PROVE  Compared("ZFS", v, t)
<1> DEFINE There(x) == Exists(x, "zpool")
           Pools(x) == Says(x, "zpool list")
           State(p) == ByState("ZFS", p.state,
                               {"DEGRADED", "FAULTED", "SUSPENDED", "REMOVED", "UNAVAIL",
                                "OFFLINE"},
                               {}, {}, {"ONLINE"})
           Full(p) == LevelPct("ZFS", p.used, 80, 90)
           Sparse(p) == IF p.frag >= 70 THEN {Found("WARN", "ZFS")}
             ELSE When(p.frag >= 50, Found("INFO", "ZFS"))
           Damaged(p) == VdevErrors(p) \cup When("scrubErrors" \in p.flags, Found("CRIT", "ZFS"))
           Checked(p) == IF "statusReadFailed" \in p.flags
                         THEN When(p.state \in {"", "ONLINE"}, Unread("ZFS")) ELSE ZFSScrub(p)
           Hurt(x, p) == ZFSPool(ZFSPoolRead(x, p))
           Blind(x) == When("listReadFailed" \in ZFSData(x).flags, Unread("ZFS"))
           R(x) == Report("ZFS", x)
<1>1. ASSUME NEW x
      PROVE  R(x) = IF There(x) THEN CheckZFS(ZFSData(x)) ELSE {}
  <2>1. ResultOf("ZFS", x) = Where(There(x), ZFSData(x))
    BY DEF ResultOf, SystemResultOf, StorageResultOf
  <2>2. Scored("ZFS", ZFSData(x), x) = CheckZFS(ZFSData(x))
    BY DEF Scored, ApplyOne, SystemInsights, MachineInsights, ServiceInsights, DeviceInsights,
           GuestInsights, UpkeepInsights
  <2>3. (There(x)) \in BOOLEAN
    BY DEF Exists, Ok
  <2> QED
    BY <2>1, <2>2, <2>3, Collected
<1>2. /\ Reads(v, t, "zpool") /\ Reads(v, t, "zpool list")
      /\ Reads(v, t, "zpool status")
  BY DEF Sees
<1>3. \A x : R(x) = IF There(x) THEN Blind(x) \cup UNION {Hurt(x, p) : p \in Pools(x)} ELSE {}
  <2> TAKE x
  <2>1. ZFSData(x).pools = {ZFSPoolRead(x, p) : p \in Pools(x)}
    BY DEF ZFSData
  <2>2. CheckZFS(ZFSData(x)) = Blind(x) \cup UNION {Hurt(x, p) : p \in Pools(x)}
    BY <2>1 DEF CheckZFS
  <2> QED
    BY <1>1, <2>2
<1>4. \A p : ZFSPool(p) =
        State(p) \cup (Full(p) \cup (Sparse(p) \cup (Damaged(p) \cup Checked(p))))
  BY DEF ZFSPool
<1>5. \A x, p : LET q == ZFSPoolRead(x, p)
                 IN q.state = p.state /\ q.used = p.used /\ q.frag = p.frag
  BY DEF ZFSPoolRead
<1>6. \A x, p : /\ State(ZFSPoolRead(x, p)) = State(p)
                /\ Full(ZFSPoolRead(x, p)) = Full(p)
                /\ Sparse(ZFSPoolRead(x, p)) = Sparse(p)
  BY <1>5
<1>7. \A p : Ok(v, "zpool status") => ZFSPoolRead(v, p) = ZFSPoolRead(t, p)
  BY <1>2 DEF Reads, ZFSPoolRead
<1>8. \A p : ~Ok(v, "zpool status") => /\ Damaged(ZFSPoolRead(v, p)) = {}
                                       /\ Checked(ZFSPoolRead(v, p)) =
                                            When(p.state \in {"", "ONLINE"}, Unread("ZFS"))
  BY DEF ZFSPoolRead, VdevErrors, When
<1>9. \A p : p.state \notin {"", "ONLINE"} => Alarms(State(p), "ZFS") \/ Unseen(State(p))
  BY Seen, Missed DEF ByState, When
<1>10. \A p : Only(State(p), "ZFS")
  BY Seen, Missed, Nothing DEF ByState, When
<1>11. \A p : Only(Full(p), "ZFS") /\ Only(Sparse(p), "ZFS")
  BY Seen, Nothing DEF LevelPct, When
<1>12. \A p : Only(Damaged(p), "ZFS")
  <2>1. \A p : /\ Only(VdevErrors(p), "ZFS")
               /\ Only(When("scrubErrors" \in p.flags, Found("CRIT", "ZFS")), "ZFS")
    BY Seen, Nothing DEF VdevErrors, When
  <2> TAKE p
  <2> DEFINE a == VdevErrors(p)
             b == When("scrubErrors" \in p.flags, Found("CRIT", "ZFS"))
  <2>2. Damaged(p) = a \cup b /\ Only(a, "ZFS") /\ Only(b, "ZFS")
    BY <2>1
  <2> HIDE DEF Damaged, a, b
  <2> QED
    BY <2>2, Both
<1>13. \A p : Only(Checked(p), "ZFS")
  BY Seen, Missed, Nothing DEF ZFSScrub, When
<1>14. ASSUME NEW p
       PROVE  LET unread == When(p.state \in {"", "ONLINE"}, Unread("ZFS"))
              IN /\ ~Alarms(unread, "ZFS") /\ ~Warns(unread, "ZFS")
                 /\ p.state \in {"", "ONLINE"} => Unseen(unread)
  BY Missed, Nothing DEF When
<1>15. \A x : There(x) /\ ~Ok(x, "zpool list") => R(x) = {Unread("ZFS")}
  <2> TAKE x
  <2>1. ~Ok(x, "zpool list") => Pools(x) = {} /\ "listReadFailed" \in ZFSData(x).flags
    BY DEF Says, ZFSData, Mark
  <2> QED
    BY <2>1, <1>3 DEF When
<1>16. \A x : Ok(x, "zpool list") => Blind(x) = {}
  BY DEF ZFSData, Mark, When
<1>17. Ok(v, "zpool list") => Ok(t, "zpool list") /\ Pools(v) = Pools(t)
  BY <1>2 DEF Reads
<1>18. There(v) <=> There(t)
  BY <1>2 DEF Reads
<1>19. \A x, p : Hurt(x, p) = ZFSPool(ZFSPoolRead(x, p))
OBVIOUS
<1> HIDE DEF There, Pools, State, Full, Sparse, Damaged, Checked, Hurt, Blind, R
<1>20. ASSUME NEW p
       PROVE  /\ Only(ZFSPool(p), "ZFS")
              /\ Unseen(State(p)) \/ Unseen(Checked(p)) => Unseen(ZFSPool(p))
              /\ Alarms(ZFSPool(p), "ZFS") <=>
                   \/ Alarms(State(p), "ZFS") \/ Alarms(Full(p), "ZFS") \/
                        Alarms(Sparse(p), "ZFS")
                   \/ Alarms(Damaged(p), "ZFS") \/ Alarms(Checked(p), "ZFS")
              /\ Warns(ZFSPool(p), "ZFS") <=>
                   \/ Warns(State(p), "ZFS") \/ Warns(Full(p), "ZFS") \/ Warns(Sparse(p), "ZFS")
                   \/ Warns(Damaged(p), "ZFS") \/ Warns(Checked(p), "ZFS")
  <2> DEFINE a == Damaged(p) \cup Checked(p)
             b == Sparse(p) \cup a
             c == Full(p) \cup b
  <2>1. ZFSPool(p) = State(p) \cup c
    BY <1>4
  <2>2. /\ Only(a, "ZFS") /\ (Unseen(Checked(p)) => Unseen(a))
        /\ Alarms(a, "ZFS") <=> Alarms(Damaged(p), "ZFS") \/ Alarms(Checked(p), "ZFS")
        /\ Warns(a, "ZFS") <=> Warns(Damaged(p), "ZFS") \/ Warns(Checked(p), "ZFS")
    BY <1>12, <1>13, Both
  <2>3. /\ Only(b, "ZFS") /\ (Unseen(a) => Unseen(b))
        /\ Alarms(b, "ZFS") <=> Alarms(Sparse(p), "ZFS") \/ Alarms(a, "ZFS")
        /\ Warns(b, "ZFS") <=> Warns(Sparse(p), "ZFS") \/ Warns(a, "ZFS")
    <3> HIDE DEF a
    <3> QED
      BY <1>11, <2>2, Both
  <2>4. /\ Only(c, "ZFS") /\ (Unseen(b) => Unseen(c))
        /\ Alarms(c, "ZFS") <=> Alarms(Full(p), "ZFS") \/ Alarms(b, "ZFS")
        /\ Warns(c, "ZFS") <=> Warns(Full(p), "ZFS") \/ Warns(b, "ZFS")
    <3> HIDE DEF b
    <3> QED
      BY <1>11, <2>3, Both
  <2> HIDE DEF a, b, c
  <2>5. /\ Only(ZFSPool(p), "ZFS") /\ (Unseen(State(p)) \/ Unseen(c) => Unseen(ZFSPool(p)))
        /\ Alarms(ZFSPool(p), "ZFS") <=> Alarms(State(p), "ZFS") \/ Alarms(c, "ZFS")
        /\ Warns(ZFSPool(p), "ZFS") <=> Warns(State(p), "ZFS") \/ Warns(c, "ZFS")
    BY <2>1, <2>4, <1>10, Both
  <2> QED
    BY <2>2, <2>3, <2>4, <2>5
<1>21. \A p : Unseen(Hurt(v, p)) \/ Outweighs(Hurt(v, p), Hurt(t, p), "ZFS")
  <2> TAKE p
  <2>1. CASE Ok(v, "zpool status")
    BY <2>1, <1>19, <1>7 DEF Outweighs
  <2>2. CASE ~Ok(v, "zpool status") /\ p.state \in {"", "ONLINE"}
    BY <2>2, <1>19, <1>8, <1>14, <1>20
  <2>3. CASE p.state \notin {"", "ONLINE"}
    BY <2>3, <1>19, <1>6, <1>9, <1>20 DEF Outweighs
  <2> QED
    BY <2>1, <2>2, <2>3
<1>22. \A p : Outweighs(Hurt(t, p), Hurt(v, p), "ZFS")
  <2> TAKE p
  <2>1. CASE Ok(v, "zpool status")
    BY <2>1, <1>19, <1>7 DEF Outweighs
  <2>2. CASE ~Ok(v, "zpool status")
    <3>1. /\ Alarms(Hurt(v, p), "ZFS") =>
               Alarms(State(p), "ZFS") \/ Alarms(Full(p), "ZFS") \/ Alarms(Sparse(p), "ZFS")
          /\ Warns(Hurt(v, p), "ZFS") =>
               Warns(State(p), "ZFS") \/ Warns(Full(p), "ZFS") \/ Warns(Sparse(p), "ZFS")
      <4>1. /\ State(ZFSPoolRead(v, p)) = State(p) /\ Full(ZFSPoolRead(v, p)) = Full(p)
            /\ Sparse(ZFSPoolRead(v, p)) = Sparse(p)
        BY <1>6
      <4>2. /\ ~Alarms(Damaged(ZFSPoolRead(v, p)), "ZFS")
            /\ ~Warns(Damaged(ZFSPoolRead(v, p)), "ZFS")
            /\ ~Alarms(Checked(ZFSPoolRead(v, p)), "ZFS")
            /\ ~Warns(Checked(ZFSPoolRead(v, p)), "ZFS")
        BY <2>2, <1>8, <1>14, Nothing
      <4> QED
        BY <4>1, <4>2, <1>19, <1>20
    <3>2. /\ Alarms(State(p), "ZFS") \/ Alarms(Full(p), "ZFS") \/ Alarms(Sparse(p), "ZFS") =>
               Alarms(Hurt(t, p), "ZFS")
          /\ Warns(State(p), "ZFS") \/ Warns(Full(p), "ZFS") \/ Warns(Sparse(p), "ZFS") =>
               Warns(Hurt(t, p), "ZFS")
      BY <1>19, <1>6, <1>20
    <3> QED
      BY <3>1, <3>2 DEF Outweighs
  <2> QED
    BY <2>1, <2>2
<1>23. ASSUME NEW x, There(x), Ok(x, "zpool list")
       PROVE  R(x) = UNION {Hurt(x, p) : p \in Pools(x)}
  <2>1. Blind(x) = {}
    BY <1>23, <1>16
  <2>2. R(x) = Blind(x) \cup UNION {Hurt(x, p) : p \in Pools(x)}
    BY <1>23, <1>3
  <2> QED
    BY <2>1, <2>2
<1>24. ASSUME NEW x, There(x), Ok(x, "zpool list")
       PROVE  /\ Only(R(x), "ZFS") <=> \A p \in Pools(x) : Only(Hurt(x, p), "ZFS")
              /\ Unseen(R(x)) <=> \E p \in Pools(x) : Unseen(Hurt(x, p))
              /\ Alarms(R(x), "ZFS") <=> \E p \in Pools(x) : Alarms(Hurt(x, p), "ZFS")
              /\ Warns(R(x), "ZFS") <=> \E p \in Pools(x) : Warns(Hurt(x, p), "ZFS")
  <2> DEFINE U == {Hurt(x, p) : p \in Pools(x)}
  <2>1. R(x) = UNION U
    BY <1>24, <1>23
  <2>2. /\ (\A a \in U : Only(a, "ZFS")) <=> \A p \in Pools(x) : Only(Hurt(x, p), "ZFS")
        /\ (\E a \in U : Unseen(a)) <=> \E p \in Pools(x) : Unseen(Hurt(x, p))
        /\ (\E a \in U : Alarms(a, "ZFS")) <=> \E p \in Pools(x) : Alarms(Hurt(x, p), "ZFS")
        /\ (\E a \in U : Warns(a, "ZFS")) <=> \E p \in Pools(x) : Warns(Hurt(x, p), "ZFS")
    OBVIOUS
  <2> HIDE DEF U
  <2> QED
    BY <2>1, <2>2, All
<1>25. \A x, p : Only(Hurt(x, p), "ZFS")
  BY <1>19, <1>20
<1>26. \A x : Only(R(x), "ZFS")
  BY <1>3, <1>15, <1>24, <1>25, Missed, Nothing
<1>27. ~There(v) => R(v) = {} /\ R(t) = {}
  BY <1>3, <1>18
<1>28. DOMAIN v.lost \cap Silent("ZFS") = {} => Unseen(R(v)) \/ Outweighs(R(v), R(t), "ZFS")
  BY <1>27, <1>15, <1>17, <1>18, <1>24, <1>21, Missed, Nothing DEF Outweighs
<1>29. DOMAIN v.lost \cap Accusing("ZFS") = {} => Outweighs(R(t), R(v), "ZFS")
  BY <1>27, <1>15, <1>17, <1>18, <1>24, <1>22, Missed, Nothing DEF Outweighs
<1> QED
  BY <1>26, <1>28, <1>29, Comparing DEF R

\* Version 9 has its resources from drbdsetup, which is told where it fails.
LEMMA DRBDCompared ==
  ASSUME NEW v, NEW t, Sees(v, t)
  PROVE  Compared("DRBD", v, t)
<1> DEFINE There(x) == DRBDFound(x)
           R(x) == Report("DRBD", x)
<1>1. ASSUME NEW x
      PROVE  R(x) = IF There(x) THEN CheckDRBD(DRBDData(x)) ELSE {}
  <2>1. ResultOf("DRBD", x) = Where(There(x), DRBDData(x))
    BY DEF ResultOf, SystemResultOf, StorageResultOf
  <2>2. Scored("DRBD", DRBDData(x), x) = CheckDRBD(DRBDData(x))
    BY DEF Scored, ApplyOne, SystemInsights, MachineInsights, ServiceInsights, DeviceInsights,
           GuestInsights, UpkeepInsights
  <2>3. (There(x)) \in BOOLEAN
    BY DEF DRBDFound
  <2> QED
    BY <2>1, <2>2, <2>3, Collected
<1>2. /\ Reads(v, t, "/proc/drbd") /\ Reads(v, t, "drbdsetup status")
  BY DEF Sees
<1>3. \A r : Only(DRBDResource(r), "DRBD")
  BY Kinds DEF Only, DRBDResource, ByState, When, Levels
<1>4. \A d : Only(CheckDRBD(d), "DRBD")
  <2>1. \A d : Only(UNION {DRBDResource(r) : r \in d.resources}, "DRBD")
    BY <1>3 DEF Only
  <2>2. \A d : Only(When("unverified" \in d.flags, Unread("DRBD")), "DRBD")
    BY Missed, Nothing DEF When
  <2> TAKE d
  <2> DEFINE known == UNION {DRBDResource(r) : r \in d.resources}
             unknown == When("unverified" \in d.flags, Unread("DRBD"))
  <2>3. CheckDRBD(d) = known \cup unknown
    BY DEF CheckDRBD
  <2>4. Only(known, "DRBD") /\ Only(unknown, "DRBD")
    BY <2>1, <2>2
  <2> HIDE DEF known, unknown
  <2> QED
    BY <2>3, <2>4, Both
<1>5. \A x : ~Ok(x, "/proc/drbd") => ~DRBDVersion9(x) /\ Says(x, "/proc/drbd") = {}
  BY DEF DRBDVersion9, Num, Says
<1>6. \A x : ~Ok(x, "/proc/drbd") => DRBDData(x).resources = {} /\ DRBDData(x).flags = {}
  BY <1>5 DEF DRBDData, Mark
<1>7. ~Ok(v, "/proc/drbd") => R(v) = {}
  BY <1>1, <1>6 DEF DRBDFound
<1>8. ~Ok(t, "/proc/drbd") => R(t) = {}
  BY <1>1, <1>6 DEF DRBDFound
<1>9. Ok(v, "/proc/drbd") => (DRBDVersion9(v) <=> DRBDVersion9(t))
  BY <1>2 DEF Reads, DRBDVersion9
<1>10. Ok(v, "/proc/drbd") /\ ~DRBDVersion9(v) => DRBDData(v) = DRBDData(t)
  BY <1>2, <1>9 DEF Reads, DRBDData, Mark
<1>11. Ok(v, "/proc/drbd") /\ DRBDVersion9(v) /\ Ok(v, "drbdsetup status") =>
         DRBDData(v) = DRBDData(t)
  BY <1>2, <1>9 DEF Reads, DRBDData, DRBD9Resources, Mark
<1>12. DRBDVersion9(v) /\ ~Ok(v, "drbdsetup status") => R(v) = {Unread("DRBD")}
  <2>1. DRBDVersion9(v) /\ ~Ok(v, "drbdsetup status") =>
          DRBDData(v).resources = {} /\ "unverified" \in DRBDData(v).flags
    BY <1>2 DEF Reads, DRBDData, DRBD9Resources, Mark
  <2> QED
    BY <1>1, <2>1 DEF CheckDRBD, DRBDFound, When
<1>13. Ok(v, "/proc/drbd") /\ DRBDData(v) = DRBDData(t) => R(v) = R(t)
  BY <1>1 DEF DRBDFound
<1>14. \A x : Only(R(x), "DRBD")
  BY <1>1, <1>4, Nothing
<1> HIDE DEF There, R
<1>15. "/proc/drbd" \notin DOMAIN v.lost => (Ok(v, "/proc/drbd") <=> Ok(t, "/proc/drbd"))
  BY Kept DEF Same
<1>16. DOMAIN v.lost \cap Silent("DRBD") = {} => Unseen(R(v)) \/ Outweighs(R(v), R(t), "DRBD")
  BY <1>7, <1>8, <1>10, <1>11, <1>12, <1>13, <1>15, Missed, Nothing DEF Silent,
   Outweighs
<1>17. DOMAIN v.lost \cap Accusing("DRBD") = {} => Outweighs(R(t), R(v), "DRBD")
  BY <1>7, <1>10, <1>11, <1>12, <1>13, Missed, Nothing DEF Outweighs
<1> QED
  BY <1>14, <1>16, <1>17, Comparing DEF R

-------------------------------------------------------------------------------
(* Storage and links that others provide. *)

\* A cluster that does not answer is told, or is unknown.
LEMMA CephCompared ==
  ASSUME NEW v, NEW t, Sees(v, t)
  PROVE  Compared("Ceph", v, t)
<1> DEFINE There(x) == Exists(x, "ceph")
           R(x) == Report("Ceph", x)
<1>1. ASSUME NEW x
      PROVE  R(x) = IF There(x) THEN CheckCeph(CephData(x)) ELSE {}
  <2>1. ResultOf("Ceph", x) = Where(There(x), CephData(x))
    BY DEF ResultOf, SystemResultOf, StorageResultOf
  <2>2. Scored("Ceph", CephData(x), x) = CheckCeph(CephData(x))
    BY DEF Scored, ApplyOne, SystemInsights, MachineInsights, ServiceInsights, DeviceInsights,
           GuestInsights, UpkeepInsights
  <2>3. (There(x)) \in BOOLEAN
    BY DEF Exists, Ok
  <2> QED
    BY <2>1, <2>2, <2>3, Collected
<1>2. /\ Reads(v, t, "ceph") /\ Reads(v, t, "ceph health")
      /\ Reads(v, t, "ceph osd stat") /\ Reads(v, t, "/etc/ceph/ceph.conf")
  BY DEF Sees
<1>3. \A c : Only(CheckCeph(c), "Ceph")
  BY Kinds DEF Only, Levels, CheckCeph, When
<1>4. \A x : Only(R(x), "Ceph")
  BY <1>1, <1>3, Nothing
<1>5. There(v) <=> There(t)
  BY <1>2 DEF Reads
<1>6. ~There(v) => R(v) = {} /\ R(t) = {}
  BY <1>1, <1>5
<1>7. There(v) /\ ~Ok(v, "ceph health") /\ v.user # "root" => R(v) = {Unread("Ceph")}
  BY <1>1 DEF CheckCeph, CephData, Mark
<1>8. Ok(v, "ceph health") => CephData(v).state = CephData(t).state /\ Ok(t, "ceph health")
  BY <1>2 DEF Reads, CephData
<1>9. Ok(v, "ceph health") => CephData(v).flags \in {CephData(t).flags, {}}
                            /\ CephData(t).flags \subseteq {"osdsDown"}
  <2>1. Says(v, "ceph osd stat") \in {Says(t, "ceph osd stat"), {}}
    BY <1>2 DEF Reads
  <2>2. Ok(v, "ceph health") => /\ CephData(v).flags = Says(v, "ceph osd stat") \cap {"osdsDown"}
                                /\ CephData(t).flags =
                                     Says(t, "ceph osd stat") \cap {"osdsDown"}
    BY <1>8 DEF CephData
  <2> QED
    BY <2>1, <2>2
<1>10. Ok(v, "ceph health") /\ "ceph osd stat" \notin DOMAIN v.lost =>
         CephData(v).flags = CephData(t).flags
  <2>1. "ceph osd stat" \notin DOMAIN v.lost =>
          Says(v, "ceph osd stat") = Says(t, "ceph osd stat")
    BY Kept DEF Same
  <2> QED
    BY <2>1, <1>8 DEF CephData
<1>11. "ceph health" \notin DOMAIN v.lost /\ ~Ok(v, "ceph health") /\ v.user = "root" =>
         CephData(v) = CephData(t)
  <2>1. "ceph health" \notin DOMAIN v.lost /\ ~Ok(v, "ceph health") => ~Ok(t, "ceph health")
    BY Kept DEF Same
  <2>2. /\ t.user = "root"
        /\ Exists(v, "/etc/ceph/ceph.conf") <=> Exists(t, "/etc/ceph/ceph.conf")
    BY <1>2 DEF Reads, Sees
  <2> QED
    BY <2>1, <2>2 DEF CephData, Mark
<1>12. CephData(v) = CephData(t) => R(v) = R(t)
  BY <1>1, <1>5
<1>13. Ok(v, "ceph health") /\ CephData(v).flags = CephData(t).flags => R(v) = R(t)
  BY <1>1, <1>5, <1>8 DEF CheckCeph
<1>14. ASSUME Ok(v, "ceph health"), There(v)
       PROVE  Outweighs(R(t), R(v), "Ceph")
  <2>1. CASE CephData(v).flags = CephData(t).flags
    BY <2>1, <1>14, <1>13 DEF Outweighs
  <2>2. CASE CephData(v).flags = {}
    <3>1. /\ R(v) = CheckCeph(CephData(v)) /\ "unavailable" \notin CephData(v).flags
          /\ "osdsDown" \notin CephData(v).flags
      BY <1>1, <2>2, <1>14
    <3>2. R(t) = CheckCeph(CephData(t)) /\ "unavailable" \notin CephData(t).flags
      BY <1>1, <1>14, <1>5, <1>9
    <3>3. CephData(v).state = CephData(t).state
      BY <1>14, <1>8
    <3> HIDE DEF R
    <3> QED
      BY <3>1, <3>2, <3>3, Seen, Missed, Nothing DEF CheckCeph, When, Outweighs
  <2> QED
    BY <2>1, <2>2, <1>14, <1>9
<1> HIDE DEF There, R
<1>15. DOMAIN v.lost \cap Silent("Ceph") = {} => Unseen(R(v)) \/ Outweighs(R(v), R(t), "Ceph")
  BY <1>6, <1>7, <1>10, <1>11, <1>12, <1>13, Missed DEF Silent, Sees, Outweighs
<1>16. DOMAIN v.lost \cap Accusing("Ceph") = {} => Outweighs(R(t), R(v), "Ceph")
  BY <1>6, <1>7, <1>11, <1>12, <1>14, Missed DEF Accusing, Sees, Outweighs
<1> QED
  BY <1>4, <1>15, <1>16, Comparing DEF R

\* Where both the daemon and the maps fail, that is told; either will do.
LEMMA MultipathCompared ==
  ASSUME NEW v, NEW t, Sees(v, t)
  PROVE  Compared("Multipath", v, t)
<1> DEFINE There(x) == MultipathPresent(x)
           Paths(x) == Says(x, PathSource(x))
           Found_(x) == MultipathFound(x)
           R(x) == Report("Multipath", x)
<1>1. ASSUME NEW x
      PROVE  R(x) = IF Found_(x) THEN CheckMultipath(MultipathData(x)) ELSE {}
  <2>1. ResultOf("Multipath", x) = Where(Found_(x), MultipathData(x))
    BY DEF ResultOf, SystemResultOf, StorageResultOf
  <2>2. Scored("Multipath", MultipathData(x), x) = CheckMultipath(MultipathData(x))
    BY DEF Scored, ApplyOne, SystemInsights, MachineInsights, ServiceInsights, DeviceInsights,
           GuestInsights, UpkeepInsights
  <2>3. (Found_(x)) \in BOOLEAN
    BY DEF MultipathFound, MultipathPresent, Exists, Ok
  <2> QED
    BY <2>1, <2>2, <2>3, Collected
<1>2. /\ Reads(v, t, "multipathd") /\ Reads(v, t, "/run/multipathd.sock")
      /\ Reads(v, t, "/sys/block") /\ Reads(v, t, "multipathd show paths")
      /\ Reads(v, t, "multipath -l")
  BY DEF Sees
<1>3. \A x : R(x) = IF ~There(x) THEN {}
                   ELSE IF ~Ok(x, PathSource(x)) THEN {UnreadAt("WARN", "Multipath")}
                   ELSE UNION {MultipathDevice(d) : d \in Paths(x)}
  <2> TAKE x
  <2>1. MultipathData(x).devices = Paths(x)
        /\ ("pathsUnreadable" \in MultipathData(x).flags <=> ~Ok(x, PathSource(x)))
    BY DEF MultipathData, Mark
  <2>2. CheckMultipath(MultipathData(x)) =
          IF ~Ok(x, PathSource(x)) THEN {UnreadAt("WARN", "Multipath")}
          ELSE UNION {MultipathDevice(d) : d \in Paths(x)}
    BY <2>1 DEF CheckMultipath
  <2>3. Found_(x) <=> There(x) /\ (~Ok(x, PathSource(x)) \/ Paths(x) # {})
    BY DEF MultipathFound
  <2>4. Paths(x) = {} => UNION {MultipathDevice(d) : d \in Paths(x)} = {}
    OBVIOUS
  <2> HIDE DEF There, Paths, Found_
  <2> QED
    BY <1>1, <2>2, <2>3, <2>4
<1>4. \A S : Only(UNION {MultipathDevice(d) : d \in S}, "Multipath")
  BY Kinds DEF Only, MultipathDevice, Levels
<1>5. \A x : Only(R(x), "Multipath")
  BY <1>3, <1>4, Missed, Nothing
<1>6. There(v) => There(t)
  BY <1>2 DEF Reads, MultipathPresent
<1>7. DOMAIN v.lost \cap Silent("Multipath") = {} => (There(t) => There(v))
  BY <1>2 DEF Reads, MultipathPresent, Silent
<1>8. Ok(v, PathSource(v)) => Ok(t, PathSource(t)) /\ Paths(v) = Paths(t)
  <2>1. Ok(v, "multipathd show paths") => PathSource(v) = PathSource(t)
    BY <1>2 DEF Reads, PathSource
  <2>2. ~Ok(v, "multipathd show paths") => PathSource(v) = "multipath -l"
    BY DEF PathSource
  <2>3. Ok(t, "multipathd show paths") /\ Ok(t, "multipath -l") =>
          Says(t, PathSource(t)) = Says(t, "multipath -l")
    BY DEF PathSource, Sees, Coherent
  <2>4. ~Ok(t, "multipathd show paths") => PathSource(t) = "multipath -l"
    BY DEF PathSource
  <2>5. /\ Ok(v, "multipath -l") =>
             Ok(t, "multipath -l") /\ Says(v, "multipath -l") = Says(t, "multipath -l")
        /\ Ok(v, "multipathd show paths") => /\ Ok(t, "multipathd show paths")
                                             /\ Says(v, "multipathd show paths") =
                                                  Says(t, "multipathd show paths")
    BY <1>2 DEF Reads
  <2>6. Ok(t, "multipathd show paths") => PathSource(t) = "multipathd show paths"
    BY DEF PathSource
  <2> QED
    BY <2>1, <2>2, <2>3, <2>4, <2>5, <2>6
<1> HIDE DEF There, Paths, Found_, R
<1>9. DOMAIN v.lost \cap Silent("Multipath") = {} =>
        Unseen(R(v)) \/ Outweighs(R(v), R(t), "Multipath")
  BY <1>3, <1>6, <1>7, <1>8, Missed, Nothing DEF Outweighs
<1>10. DOMAIN v.lost \cap Accusing("Multipath") = {} => Outweighs(R(t), R(v), "Multipath")
  BY <1>3, <1>6, <1>8, Missed, Nothing DEF Outweighs
<1> QED
  BY <1>5, <1>9, <1>10, Comparing DEF R

\* Ports whose state or counters could not be read are told one by one.
LEMMA HBACompared ==
  ASSUME NEW v, NEW t, Sees(v, t)
  PROVE  Compared("HBA", v, t)
<1> DEFINE Ports(x) == Says(x, "/sys/class/fc_host")
           Read(x, p) == [state |-> IF Ok(x, "port_state") THEN p.state ELSE "unread",
                          failures |-> IF Ok(x, "fc_host statistics") THEN p.failures ELSE 0,
                          lossOfSync |-> IF Ok(x, "fc_host statistics") THEN p.lossOfSync
                            ELSE 0,
                          flags |-> Mark(~Ok(x, "fc_host statistics"), "countersUnreadable")]
           State(x, p) == IF ~Ok(x, "port_state") \/
             p.state = "unread" THEN {UnreadAt("WARN", "HBA")}
                          ELSE When(p.state \notin {"online", "linkup"}, Found("CRIT", "HBA"))
           Faulty(p) == p.failures > 10 \/ p.lossOfSync > 100
           Counted(x, p) == IF ~Ok(x, "fc_host statistics") THEN {Unread("HBA")}
                            ELSE When(Faulty(p), Found("WARN", "HBA"))
           Hurt(x, p) == State(x, p) \cup Counted(x, p)
           R(x) == Report("HBA", x)
<1>1. ASSUME NEW x
      PROVE  R(x) = IF Says(x, "/sys/class/fc_host") # {} THEN CheckHBA(HBAData(x)) ELSE {}
  <2>1. ResultOf("HBA", x) = Where(Says(x, "/sys/class/fc_host") # {}, HBAData(x))
    BY DEF ResultOf, SystemResultOf, StorageResultOf
  <2>2. Scored("HBA", HBAData(x), x) = CheckHBA(HBAData(x))
    BY DEF Scored, ApplyOne, SystemInsights, MachineInsights, ServiceInsights, DeviceInsights,
           GuestInsights, UpkeepInsights
  <2>3. (Says(x, "/sys/class/fc_host") # {}) \in BOOLEAN
    BY DEF Exists, Ok
  <2> QED
    BY <2>1, <2>2, <2>3, Collected
<1>2. /\ Reads(v, t, "/sys/class/fc_host") /\ Reads(v, t, "port_state")
      /\ Reads(v, t, "fc_host statistics")
  BY DEF Sees
<1>3. \A x, p : HBAPort(Read(x, p)) = Hurt(x, p)
  <2> TAKE x, p
  <2>1. (IF Read(x, p).state = "unread" THEN {UnreadAt("WARN", "HBA")}
         ELSE When(Read(x, p).state \notin {"online", "linkup"}, Found("CRIT", "HBA")))
        = State(x, p)
    OBVIOUS
  <2>2. (IF Read(x, p).failures > 10 \/ Read(x, p).lossOfSync > 100 THEN {Found("WARN", "HBA")}
         ELSE When("countersUnreadable" \in Read(x, p).flags, Unread("HBA"))) = Counted(x, p)
    <3>1. CASE Ok(x, "fc_host statistics")
      BY <3>1 DEF Mark, When
    <3>2. CASE ~Ok(x, "fc_host statistics")
      <4>1. Read(x, p).failures = 0 /\ Read(x, p).lossOfSync = 0
        BY <3>2
      <4>2. "countersUnreadable" \in Read(x, p).flags
        BY <3>2 DEF Mark
      <4>3. Counted(x, p) = {Unread("HBA")}
        BY <3>2
      <4> HIDE DEF Read, Counted
      <4> QED
        BY <4>1, <4>2, <4>3 DEF When
    <3> QED
      BY <3>1, <3>2
  <2> QED
    BY <2>1, <2>2 DEF HBAPort
<1>4. \A x : R(x) = UNION {Hurt(x, p) : p \in Ports(x)}
  <2> TAKE x
  <2>1. HBAData(x).ports = {Read(x, p) : p \in Ports(x)}
    BY DEF HBAData
  <2>2. CheckHBA(HBAData(x)) = UNION {HBAPort(Read(x, p)) : p \in Ports(x)}
    BY <2>1 DEF CheckHBA
  <2>3. {HBAPort(Read(x, p)) : p \in Ports(x)} = {Hurt(x, p) : p \in Ports(x)}
    <3> HIDE DEF Read, Hurt
    <3> QED
      BY <1>3
  <2> HIDE DEF Read, Hurt, R
  <2> QED
    BY <1>1, <2>2, <2>3
<1>5. Ports(v) = Ports(t) \/ Ports(v) = {}
  BY <1>2 DEF Reads
<1>6. \A p : Unseen(Hurt(v, p)) \/ Hurt(v, p) = Hurt(t, p)
  <2>1. /\ ~Ok(v, "port_state") => \A p : Unseen(State(v, p))
        /\ ~Ok(v, "fc_host statistics") => \A p : Unseen(Counted(v, p))
    BY Missed
  <2>2. /\ Ok(v, "port_state") => Ok(t, "port_state")
        /\ Ok(v, "fc_host statistics") => Ok(t, "fc_host statistics")
    BY <1>2 DEF Reads
  <2> QED
    BY <2>1, <2>2, Both
<1>7. \A p : State(v, p) = State(t, p) \/
        (~Alarms(State(v, p), "HBA") /\ ~Warns(State(v, p), "HBA"))
  BY <1>2, Missed DEF Reads
<1>8. \A p : Counted(v, p) = Counted(t, p) \/
        (~Alarms(Counted(v, p), "HBA") /\ ~Warns(Counted(v, p), "HBA"))
  BY <1>2, Missed DEF Reads
<1>9. \A x, p : Only(State(x, p), "HBA")
  BY Seen, Missed, Nothing DEF When
<1>10. \A x, p : Only(Counted(x, p), "HBA")
  BY Seen, Missed, Nothing DEF When
<1> HIDE DEF Ports, Read, State, Faulty, Counted, Hurt, R
<1>11. ASSUME NEW x, NEW p
       PROVE  /\ Alarms(Hurt(x, p), "HBA") <=>
                   Alarms(State(x, p), "HBA") \/ Alarms(Counted(x, p), "HBA")
              /\ Warns(Hurt(x, p), "HBA") <=>
                   Warns(State(x, p), "HBA") \/ Warns(Counted(x, p), "HBA")
              /\ Only(Hurt(x, p), "HBA") <=>
                   Only(State(x, p), "HBA") /\ Only(Counted(x, p), "HBA")
  BY Both DEF Hurt
<1>12. ASSUME NEW x
       PROVE  /\ Only(R(x), "HBA") <=> \A p \in Ports(x) : Only(Hurt(x, p), "HBA")
              /\ Unseen(R(x)) <=> \E p \in Ports(x) : Unseen(Hurt(x, p))
              /\ Alarms(R(x), "HBA") <=> \E p \in Ports(x) : Alarms(Hurt(x, p), "HBA")
              /\ Warns(R(x), "HBA") <=> \E p \in Ports(x) : Warns(Hurt(x, p), "HBA")
  <2> DEFINE U == {Hurt(x, p) : p \in Ports(x)}
  <2>1. R(x) = UNION U
    BY <1>4
  <2>2. /\ (\A a \in U : Only(a, "HBA")) <=> \A p \in Ports(x) : Only(Hurt(x, p), "HBA")
        /\ (\E a \in U : Unseen(a)) <=> \E p \in Ports(x) : Unseen(Hurt(x, p))
        /\ (\E a \in U : Alarms(a, "HBA")) <=> \E p \in Ports(x) : Alarms(Hurt(x, p), "HBA")
        /\ (\E a \in U : Warns(a, "HBA")) <=> \E p \in Ports(x) : Warns(Hurt(x, p), "HBA")
    OBVIOUS
  <2> HIDE DEF U
  <2> QED
    BY <2>1, <2>2, All
<1>13. \A x : Only(R(x), "HBA")
  BY <1>12, <1>9, <1>10, <1>11
<1>14. DOMAIN v.lost \cap Silent("HBA") = {} => Ports(v) = Ports(t)
  BY Kept DEF Silent, Same, Ports
<1>15. DOMAIN v.lost \cap Silent("HBA") = {} => Unseen(R(v)) \/ Outweighs(R(v), R(t), "HBA")
  BY <1>14, <1>12, <1>6 DEF Outweighs
<1>16. DOMAIN v.lost \cap Accusing("HBA") = {} => Outweighs(R(t), R(v), "HBA")
  BY <1>5, <1>12, <1>7, <1>8, <1>11 DEF Outweighs
<1> QED
  BY <1>13, <1>15, <1>16, Comparing DEF R

\* Sessions iscsiadm refuses to list are told.
LEMMA ISCSICompared ==
  ASSUME NEW v, NEW t, Sees(v, t)
  PROVE  Compared("iSCSI", v, t)
<1> DEFINE There(x) == ISCSIFound(x)
           Unknown(x) == ~Ok(x, "iscsiadm -m session")
           R(x) == Report("iSCSI", x)
<1>1. ASSUME NEW x
      PROVE  R(x) = IF There(x) THEN CheckISCSI(ISCSIData(x)) ELSE {}
  <2>1. ResultOf("iSCSI", x) = Where(There(x), ISCSIData(x))
    BY DEF ResultOf, SystemResultOf, StorageResultOf
  <2>2. Scored("iSCSI", ISCSIData(x), x) = CheckISCSI(ISCSIData(x))
    BY DEF Scored, ApplyOne, SystemInsights, MachineInsights, ServiceInsights, DeviceInsights,
           GuestInsights, UpkeepInsights
  <2>3. (There(x)) \in BOOLEAN
    BY DEF ISCSIFound, Exists
  <2> QED
    BY <2>1, <2>2, <2>3, Collected
<1>2. /\ Reads(v, t, "iscsiadm -m session") /\ Reads(v, t, "/sys/class/iscsi_session")
  BY DEF Sees
<1>3. \A x : Only(R(x), "iSCSI")
  BY <1>1, Kinds DEF Only, CheckISCSI, When, Levels
<1>4. Unknown(v) => R(v) \in {{}, {Unread("iSCSI")}}
  BY <1>1 DEF ISCSIData, CheckISCSI
<1>5. ~Unknown(v) \/ (~Unknown(t) /\ "iscsiadm -m session" \notin DOMAIN v.lost) => R(v) = R(t)
  BY <1>1, <1>2 DEF Reads, ISCSIFound, ISCSIData
<1>6. Unknown(v) => ~Alarms(R(v), "iSCSI") /\ ~Warns(R(v), "iSCSI")
  BY <1>4, Missed, Nothing
<1>7. Unknown(t) => R(v) = R(t)
  BY <1>1, <1>2 DEF Reads, ISCSIFound, ISCSIData
<1> HIDE DEF There, Unknown, R
<1>8. DOMAIN v.lost \cap Silent("iSCSI") = {} => "iscsiadm -m session" \notin DOMAIN v.lost
  BY DEF Silent
<1>9. DOMAIN v.lost \cap Silent("iSCSI") = {} => Unseen(R(v)) \/ Outweighs(R(v), R(t), "iSCSI")
  BY <1>5, <1>7, <1>8 DEF Outweighs
<1>10. DOMAIN v.lost \cap Accusing("iSCSI") = {} => Outweighs(R(t), R(v), "iSCSI")
  BY <1>6, <1>5 DEF Outweighs
<1> QED
  BY <1>3, <1>9, <1>10, Comparing DEF R

\* A bond that cannot be read is left out, as Silent has it.
LEMMA BondingCompared ==
  ASSUME NEW v, NEW t, Sees(v, t)
  PROVE  Compared("Bonding", v, t)
<1> DEFINE Bonds(x) == Says(x, "/proc/net/bonding")
           Slaves(b) == Links(b)
           Down(b) == LinksDown(b)
           Failing(b) == LinkFailures(b)
           Read(x, b) == BondRead(x, b)
           Hurt(x, b) == Bond(Read(x, b))
           R(x) == Report("Bonding", x)
<1>1. ASSUME NEW x
      PROVE  R(x) = IF Says(x, "/proc/net/bonding") # {} THEN CheckBonding(BondingData(x))
               ELSE {}
  <2>1. ResultOf("Bonding", x) = Where(Says(x, "/proc/net/bonding") # {}, BondingData(x))
    BY DEF ResultOf, SystemResultOf, StorageResultOf
  <2>2. Scored("Bonding", BondingData(x), x) = CheckBonding(BondingData(x))
    BY DEF Scored, ApplyOne, SystemInsights, MachineInsights, ServiceInsights, DeviceInsights,
           GuestInsights, UpkeepInsights
  <2>3. (Says(x, "/proc/net/bonding") # {}) \in BOOLEAN
    BY DEF Exists, Ok
  <2> QED
    BY <2>1, <2>2, <2>3, Collected
<1>2. Reads(v, t, "/proc/net/bonding")
  BY DEF Sees
<1>3. \A x : R(x) = UNION {Hurt(x, b) : b \in Bonds(x)}
  <2> TAKE x
  <2>1. BondingData(x).bonds = {Read(x, b) : b \in Bonds(x)}
    BY DEF BondingData
  <2>2. CheckBonding(BondingData(x)) = UNION {Hurt(x, b) : b \in Bonds(x)}
    <3> HIDE DEF Read
    <3> QED
      BY <2>1 DEF CheckBonding
  <2> HIDE DEF Read, Hurt, R
  <2> QED
    BY <1>1, <2>2
<1>4. ASSUME NEW x, NEW b
      PROVE  /\ Read(x, b).slaves = Slaves(b) /\ Read(x, b).down = Down(b)
             /\ "notAggregating" \in Read(x, b).flags <=> NotAggregating(b)
             /\ "linkFailures" \in Read(x, b).flags <=> Failing(b)
  <2> DEFINE usb == USBSlave(x, b)
  <2>1. /\ Read(x, b).slaves = Slaves(b) /\ Read(x, b).down = Down(b)
        /\ Read(x, b).flags = Mark(NotAggregating(b), "notAggregating")
                              \cup Mark(usb, "usbSlave") \cup Mark(Failing(b), "linkFailures")
    <3>1. Read(x, b) = [slaves |-> Slaves(b), down |-> Down(b),
                        flags |-> Mark(NotAggregating(b), "notAggregating")
                                  \cup Mark(usb, "usbSlave") \cup Mark(Failing(b), "linkFailures")]
      BY DEF BondRead
    <3> HIDE DEF Read, Slaves, Down, Failing, usb
    <3> QED
      BY <3>1
  <2> HIDE DEF Read, Slaves, Down, Failing, usb
  <2> QED
    BY <2>1 DEF Mark
<1>5. ASSUME NEW x, NEW b
      PROVE  /\ Only(Hurt(x, b), "Bonding")
             /\ Alarms(Hurt(x, b), "Bonding") <=> Down(b) # 0 /\ Down(b) = Slaves(b)
             /\ Warns(Hurt(x, b), "Bonding") <=> \/ Slaves(b) < 2 \/ NotAggregating(b)
                                                 \/ /\ Down(b) # 0
                                                    /\ Down(b) # Slaves(b) \/ Failing(b)
  <2> HIDE DEF Read, Slaves, Down, Failing
  <2> DEFINE q == Read(x, b)
             few == When(q.slaves < 2 \/ "notAggregating" \in q.flags, Found("WARN", "Bonding"))
             usb == When("usbSlave" \in q.flags, Found("INFO", "Bonding"))
             down == {Found(IF q.down = q.slaves THEN "CRIT" ELSE "WARN", "Bonding"),
                      Found("INFO", "Bonding")}
             failing == When("linkFailures" \in q.flags, Found("WARN", "Bonding"))
  <2>1. Hurt(x, b) = few \cup (IF Down(b) = 0 THEN usb ELSE down \cup failing)
    BY <1>4 DEF Bond
  <2>2. /\ Only(few, "Bonding") /\ ~Alarms(few, "Bonding")
        /\ Warns(few, "Bonding") <=> Slaves(b) < 2 \/ NotAggregating(b)
    BY <1>4, Seen, Nothing DEF When
  <2>3. Only(usb, "Bonding") /\ ~Alarms(usb, "Bonding") /\ ~Warns(usb, "Bonding")
    BY Seen, Nothing DEF When
  <2>4. /\ Only(down, "Bonding") /\ (Alarms(down, "Bonding") <=> Down(b) = Slaves(b))
        /\ Warns(down, "Bonding") <=> Down(b) # Slaves(b)
    BY <1>4, Kinds DEF Only, Alarms, Warns, Levels
  <2>5. /\ Only(failing, "Bonding") /\ ~Alarms(failing, "Bonding")
        /\ Warns(failing, "Bonding") <=> Failing(b)
    BY <1>4, Seen, Nothing DEF When
  <2> HIDE DEF few, usb, down, failing, Hurt
  <2>6. CASE Down(b) = 0
    BY <2>1, <2>2, <2>3, <2>6, Both
  <2>7. CASE Down(b) # 0
    <3> DEFINE rest == down \cup failing
    <3>1. Hurt(x, b) = few \cup rest
      BY <2>1, <2>7
    <3>2. /\ Only(rest, "Bonding") /\ (Alarms(rest, "Bonding") <=> Down(b) = Slaves(b))
          /\ Warns(rest, "Bonding") <=> Down(b) # Slaves(b) \/ Failing(b)
      BY <2>4, <2>5, Both
    <3> HIDE DEF rest
    <3>3. /\ Only(Hurt(x, b), "Bonding")
          /\ Alarms(Hurt(x, b), "Bonding") <=> Alarms(few, "Bonding") \/ Alarms(rest, "Bonding")
          /\ Warns(Hurt(x, b), "Bonding") <=> Warns(few, "Bonding") \/ Warns(rest, "Bonding")
      BY <3>1, <3>2, <2>2, Both
    <3> QED
      BY <3>2, <3>3, <2>2, <2>7
  <2> QED
    BY <2>6, <2>7
<1> HIDE DEF Bonds, Slaves, Down, Failing, Read, Hurt, R
<1>6. ASSUME NEW x
      PROVE  /\ Only(R(x), "Bonding") <=> \A p \in Bonds(x) : Only(Hurt(x, p), "Bonding")
             /\ Unseen(R(x)) <=> \E p \in Bonds(x) : Unseen(Hurt(x, p))
             /\ Alarms(R(x), "Bonding") <=> \E p \in Bonds(x) : Alarms(Hurt(x, p), "Bonding")
             /\ Warns(R(x), "Bonding") <=> \E p \in Bonds(x) : Warns(Hurt(x, p), "Bonding")
  <2> DEFINE U == {Hurt(x, p) : p \in Bonds(x)}
  <2>1. R(x) = UNION U
    BY <1>3
  <2>2. /\ (\A a \in U : Only(a, "Bonding")) <=> \A p \in Bonds(x) : Only(Hurt(x, p), "Bonding")
        /\ (\E a \in U : Unseen(a)) <=> \E p \in Bonds(x) : Unseen(Hurt(x, p))
        /\ (\E a \in U : Alarms(a, "Bonding")) <=>
             \E p \in Bonds(x) : Alarms(Hurt(x, p), "Bonding")
        /\ (\E a \in U : Warns(a, "Bonding")) <=>
             \E p \in Bonds(x) : Warns(Hurt(x, p), "Bonding")
    OBVIOUS
  <2> HIDE DEF U
  <2> QED
    BY <2>1, <2>2, All
<1>7. \A x : Only(R(x), "Bonding")
  BY <1>6, <1>5
<1>8. Bonds(v) = Bonds(t) \/ Bonds(v) = {}
  BY <1>2 DEF Reads, Bonds
<1>9. DOMAIN v.lost \cap Silent("Bonding") = {} => Bonds(v) = Bonds(t)
  BY Kept DEF Silent, Same, Bonds
<1>10. DOMAIN v.lost \cap Silent("Bonding") = {} =>
         Unseen(R(v)) \/ Outweighs(R(v), R(t), "Bonding")
  BY <1>9, <1>6, <1>5 DEF Outweighs
<1>11. DOMAIN v.lost \cap Accusing("Bonding") = {} => Outweighs(R(t), R(v), "Bonding")
  BY <1>8, <1>6, <1>5 DEF Outweighs
<1> QED
  BY <1>7, <1>10, <1>11, Comparing DEF R

-------------------------------------------------------------------------------
(* The run. *)

\* The collectors followed here.
Shown ==
  {"Bonding", "Ceph", "Clock", "DBus", "DRBD", "Entropy", "Fstab", "HBA", "HardwareRAID",
   "HugePages", "Kdump", "Kernel", "KernelRetention", "Ksplice", "LivePatch", "Multipath",
   "Pressure", "RAID", "RootFS", "ServiceRestart", "Sessions", "Snapshots", "Swap",
   "Transactional", "Tuned", "ZFS", "iSCSI"}

LEMMA ShownCompared ==
  ASSUME NEW v, NEW t, Sees(v, t), NEW c \in Shown
  PROVE  Compared(c, v, t)
BY KdumpCompared, TunedCompared, KspliceCompared, TransactionalCompared,
   ServiceRestartCompared, KernelCompared, KernelRetentionCompared, LivePatchCompared,
   ClockCompared, SwapCompared, HugePagesCompared, PressureCompared, EntropyCompared,
   DBusCompared, SessionsCompared, RootFSCompared, FstabCompared, SnapshotsCompared,
   RAIDCompared, HardwareRAIDCompared, ZFSCompared, DRBDCompared, CephCompared,
   MultipathCompared, HBACompared, ISCSICompared, BondingCompared DEF Shown

Observed ==
  /\ collector \in Collectors /\ host \in HostsOf[collector]
  /\ phase \in {"idle", "collected", "judged"}
  /\ phase # "idle" =>
       /\ \E user \in {"root", "other"}, lost \in LossesOf[collector] :
            view = View(host, user, lost)
       /\ result = ResultOf(collector, view)
  /\ phase = "judged" => insights = Report(collector, view)

\* Collect and Judge: what a run reports is what its check says of what its collector
\* returns of one view of the host.
THEOREM ReportOfOneView == Spec => []Observed
<1>1. Init => Observed
  BY DEF Init, Observed
<1>2. ASSUME Observed, [Next]_vars
      PROVE  Observed'
  <2>1. CASE Collect
    <3>1. /\ collector' = collector /\ host' = host /\ phase' = "collected"
          /\ result' = ResultOf(collector, view')
      BY <2>1 DEF Collect
    <3>2. \E user \in {"root", "other"}, lost \in LossesOf[collector] :
            view' = View(host, user, lost)
      BY <2>1 DEF Collect
    <3> QED
      BY <1>2, <3>1, <3>2 DEF Observed
  <2>2. CASE Judge
    <3>1. /\ collector' = collector /\ host' = host /\ phase' = "judged"
          /\ view' = view /\ result' = result /\ phase = "collected"
          /\ insights' = Judgement(collector, result, view)
      BY <2>2 DEF Judge
    <3> QED
      BY <1>2, <3>1 DEF Observed, Report
  <2>3. CASE UNCHANGED vars
    BY <1>2, <2>3 DEF Observed, vars
  <2> QED
    BY <1>2, <2>1, <2>2, <2>3 DEF Next
<1> QED
  BY <1>1, <1>2, PTL DEF Spec

LEMMA JudgedCompared ==
  ASSUME Observed, collector \in Shown, phase = "judged"
  PROVE  FailureNeverClears /\ FailureNeverAccuses
<1> DEFINE everything == View(host, "root", NothingLost)
<1>1. PICK user \in {"root", "other"}, lost \in LossesOf[collector] :
        view = View(host, user, lost)
  BY DEF Observed
<1>2. collector \in Collectors /\ host \in HostsOf[collector]
      /\ insights = Report(collector, view)
  BY DEF Observed
<1>3. Sees(view, everything)
  <2>1. /\ DOMAIN lost \cap Certain = {}
        /\ \A s \in DOMAIN lost : lost[s] \in {"denied", "failed"}
        /\ \A s \in DOMAIN lost \cap Refused : lost[s] = "denied"
    BY <1>2, LossesAssumption
  <2>2. Coherent(everything)
    BY <1>2, PathsAssumption
  <2> HIDE DEF everything
  <2> QED
    BY <1>1, <2>1, <2>2, Sight DEF everything
<1>4. Compared(collector, view, everything)
  BY <1>3, ShownCompared
<1>5. Truth = Report(collector, everything)
  BY DEF Truth, Report
<1> HIDE DEF everything
<1> QED
  BY <1>2, <1>4, <1>5 DEF Compared, FailureNeverClears, FailureNeverAccuses, Lost

\* checks_never_silent_test.go:18: whatever the host and whatever could not be read,
\* outside the losses Silent names, a problem of the host is reported at its level or
\* the check says that it could not see everything.
THEOREM ShownNeverClear == Spec => [](collector \in Shown => FailureNeverClears)
<1>1. Observed => (collector \in Shown => FailureNeverClears)
  BY JudgedCompared DEF FailureNeverClears
<1> QED
  BY <1>1, ReportOfOneView, PTL

\* Nor, outside the losses Accusing names, does a source that could not be read make a
\* run report a problem, or a level, the host does not have.
THEOREM ShownNeverAccuse == Spec => [](collector \in Shown => FailureNeverAccuses)
<1>1. Observed => (collector \in Shown => FailureNeverAccuses)
  BY JudgedCompared DEF FailureNeverAccuses
<1> QED
  BY <1>1, ReportOfOneView, PTL

===============================================================================
