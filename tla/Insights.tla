------------------------------- MODULE Insights -------------------------------
(***************************************************************************)
(* What every check of analysis.ApplyThresholds is written with.           *)
(*                                                                         *)
(* A check maps the data of its collector to the set of its insights,      *)
(* without their wording.  Data is a record of numbers, of states and, for *)
(* the fields that say yes or no, of the set "flags" of those that hold;   *)
(* a field that holds a set has such a record for every part the collector *)
(* looked at (a pool, a drive, an array).  A field of which the check only *)
(* asks whether it has passed one bound is a flag.  t is the Thresholds,   *)
(* host what the run knows of its surroundings: [user, container].         *)
(***************************************************************************)
EXTENDS Integers

Levels == {"OK", "INFO", "WARN", "CRIT"}

\* sight: "seen" is a finding; "unread" is an Unverified insight and
\* "needsRoot" one that only root could have read.
Found(level, check) == [check |-> check, level |-> level, sight |-> "seen"]

\* unverifiedInsight
UnreadAt(level, check) == [check |-> check, level |-> level, sight |-> "unread"]
Unread(check) == UnreadAt("INFO", check)

\* needsRootInsight: to root, a permission failure has some other cause.
NeedsRoot(check, host) ==
  [check |-> check, level |-> "INFO",
   sight |-> IF host.user = "root" THEN "unread" ELSE "needsRoot"]

When(condition, insight) == IF condition THEN {insight} ELSE {}

\* levelPct: crit is looked at first, whichever of the two is larger.
LevelPct(check, value, warn, crit) ==
  IF value >= crit THEN {Found("CRIT", check)}
  ELSE When(value >= warn, Found("WARN", check))

\* A state of four tiers; one that no tier names has not been understood, and is
\* never taken for a healthy one.
ByState(check, state, crit, warn, info, fine) ==
  IF state \in crit THEN {Found("CRIT", check)}
  ELSE IF state \in warn THEN {Found("WARN", check)}
  ELSE IF state \in info THEN {Found("INFO", check)}
  ELSE When(state \notin fine, Unread(check))

===============================================================================
