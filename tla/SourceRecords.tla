----------------------------- MODULE SourceRecords -----------------------------
(***************************************************************************)
(* internal/source: what the Recorder keeps of one access to the host,     *)
(* what Save and Load make of it, and what a Replay answers from it.       *)
(*                                                                         *)
(* Contents are abstracted away: an access has an outcome, and a record is *)
(* the set of those of its fields that are set.                            *)
(***************************************************************************)

\* The methods of source.Source.
Ops == {"ReadFile", "Readlink", "Stat", "Statfs", "ReadDir", "Glob", "Cached", "Run"}

\* What an access to the live host returns.  "notFound" is exec.ErrNotFound,
\* "failed" any other error: for Run a context that had ended, or a spawn error.
\* A command that exits non-zero or is killed by its deadline returns data.
LiveOutcomes(op) ==
  IF op = "Run" THEN {"data", "notFound", "failed"}
  ELSE IF op = "Glob" THEN {"data", "failed"}
  ELSE {"data", "notExist", "denied", "failed"}

\* A replay may also answer with success but no data, or with ErrNotRecorded.
Answers == {"data", "notExist", "denied", "failed", "notFound", "empty", "gap"}

\* The fields of fileRec, linkRec, statRec, statfsRec, dirErrRec and cmdRec.
Fields == {"data", "notExist", "permission", "errText", "absent"}

\* No entry in the bundle's maps.
Unrecorded == {}

\* putFile, and likewise putLink, putStat, putStatfs, putDir and putDirErr, keep
\* whether the thing was absent or unreadable.
PutFile(out) ==
  IF out = "data" THEN {"data"}
  ELSE IF out = "notExist" THEN {"notExist"}
  ELSE IF out = "denied" THEN {"permission", "errText"}
  ELSE {"errText"}

\* putCmd takes any error for an absent tool.
PutCmd(out) == IF out = "data" THEN {"data"} ELSE {"absent", "errText"}

\* The Recorder.  It keeps nothing of a failed Glob.
RecordOf(op, out) ==
  IF op = "Run" THEN PutCmd(out)
  ELSE IF op = "Glob" /\ out # "data" THEN Unrecorded
  ELSE PutFile(out)

\* Save writes a blob only for a file that was read; Load restores the fields.
Persisted(op, rec) ==
  IF op \in {"ReadFile", "Cached"} /\ rec \cap {"notExist", "errText"} # {}
  THEN rec \ {"data"} ELSE rec

\* Replay.Run: every failure comes back as a missing tool.
ReplayCmd(rec) == IF "absent" \in rec THEN "notFound" ELSE "data"

\* Replay.Cached looks at the error text alone.
ReplayCached(rec) ==
  IF "errText" \in rec THEN "failed" ELSE IF "data" \in rec THEN "data" ELSE "empty"

\* Faulty: an unreadable file is told apart by its text alone.
ReplayWithoutPermission(rec) ==
  IF "notExist" \in rec THEN "notExist"
  ELSE IF "errText" \in rec THEN "failed" ELSE "data"

\* Replay.ReadFile, ReadDir, Readlink, Stat, Statfs, Glob.
ReplayFile(rec) ==
  IF "notExist" \in rec THEN "notExist"
  ELSE IF "permission" \in rec THEN "denied"
  ELSE IF "errText" \in rec THEN "failed" ELSE "data"

ReplayOf(op, rec) ==
  IF rec = Unrecorded THEN "gap"
  ELSE IF op = "Run" THEN ReplayCmd(rec)
  ELSE IF op = "Cached" THEN ReplayCached(rec)
  ELSE ReplayFile(rec)

\* What a bundle written to a file answers for an access that had outcome out.
RoundTrip(op, out) == ReplayOf(op, Persisted(op, RecordOf(op, out)))

\* Outcomes that do not come back as they were.
Lossy(op, out) ==
  \/ op = "Run" /\ out = "failed"
  \/ op = "Glob" /\ out = "failed"
  \/ op = "Cached" /\ out \in {"notExist", "denied"}

===============================================================================
