# Verification of dsd (DashDiag)

`dsd` is a single Go binary that examines a Linux, macOS or Windows host: it runs a few dozen
collectors, turns their data into insights by thresholds, explains several insights by one cause,
reports a verdict, and keeps snapshots and a history so that the next run can say what changed. It
can do the same for a list of hosts over ssh, check a host against the CIS benchmarks, record
everything a run reads into a bundle and replay it elsewhere, serve the checks to an agent over MCP,
and update itself.

What can go wrong without a unit test noticing lies in six places:

- goroutines that wait for collectors which may never return (`internal/runner`), and collectors
  that go on reading after nobody waits for them (`internal/source`, `cmd/capture_raw.go`, `cmd/mcp.go`);
- files that concurrent, failing and dying processes share (`internal/store`, `internal/baseline`,
  `internal/tips`, `internal/selfupdate`);
- one answer derived by several pieces of code that must agree (`internal/analysis`,
  `internal/render`, `internal/baseline`, `cmd/migrate.go`, `internal/cis`);
- several hundred reads, each of which may fail on its own, whose failure must not look like a clean
  or like a faulty host (`internal/collectors`, `internal/cvedata`, `internal/analysis`);
- rules that rest on one another's findings (`internal/analysis/correlate.go`);
- a pool of ssh sessions with deadlines and a cleanup that must happen anyway (`internal/fleet`).

Contents: 1 inventory, 2 modules and what they stand for, 3 runs, 4 fairness, 5 proofs,
6 disagreements and remarks, 7 what is not modelled, 8 plan. Paths are relative to `src/`; file
names without a directory in sections 6 and 7 are those of the package under discussion.

## 1. Inventory

### Components, their state, and what makes them correct

| component | state | operations | hard behaviour | correct when |
|---|---|---|---|---|
| runner (`internal/runner`) | per collector two goroutines, a one-slot channel, a deadline; the result channel; the replay source's gap counter | `RunAll`, `runOne`, `IsAvailable` | panics, hangs, late answers, cancelled callers, abandoned goroutines | one Result per collector, the channel closes after the last send, the caller's loop always ends, a gap in a recording is never lost |
| store (`internal/store`) | one JSONL file, a lock on a file beside it | `withLock`, `PersistAndPrune`, `Append`, `Prune`, `ReadAll` | several processes and hosts, crashes, short writes, a file replaced under an open descriptor | an acknowledged run can be read until newer ones push it out; nobody removes another host's lines |
| collectors (`internal/collectors`, `internal/cvedata`) | none beyond a run | `Collect` of each: files, commands, sockets, APIs | every source may be refused, fail or be absent; fallbacks from one source to another | a failed read hides no problem without a word and invents none |
| heuristics (`internal/analysis`) | none | `ApplyThresholds`, its `check...` functions, `Correlate` | data with missing parts; policies and containers move thresholds; one check reads another's data | what could not be read is disclosed; diagnoses do not contradict each other |
| cis (`internal/cis`, `cmd/cis.go`) | none | 330 rules, `Evaluate`, `RollupNIS2`, `RollupBSI` | two benchmarks that supersede each other's rules; users who may read less | each control once; a user sees less, never something else; a failed rule shows in its groups |
| verdict and coverage (`internal/analysis`, `internal/render`) | none | `Verdict`, `Coverage`, `SnapshotVerdict`, `PrintSummary`'s exit code, the nagios line, the policy gate | five derivations of one answer; "could not be read" must never look like "fine" | all outputs agree; what is unknown never improves |
| baseline (`internal/baseline`) | three kinds of files per host: timestamped, latest, previous | `BuildSnapshot`, `SaveBaseline`, `LoadBaseline`, `ComputeDiff` | no lock: runs interleave, fail and die between renames; names with a local time | `--diff` compares with the last completed run; a completed run is never lost |
| migrate (`cmd/migrate.go`) | none | `certifyVerdict` | regressions among readings of different privilege | PASS means that nothing got worse or unknown |
| fleet (`internal/fleet`) | a goroutine per host, a semaphore, a results slice, a file on every machine | `Run`, `runHost`, `cleanupRemoteBin`, `Summarize`, `WorstExitCode`, `AggregateIssues` | upload, run and removal fail independently under two deadlines; host names that are one machine | `Run` returns a complete slice within its limit; what is left on a machine is reported |
| source (`internal/source`), capture, replay, MCP (`cmd`) | the process-global source, the bundle of recorded inputs, the bundle file | `Recorder`, `Replay`, `Sanitize`, `Save`; the tools' exchange of the source under a mutex | abandoned collectors go on reading through whatever source is active | a call counts only reads of its own source; a replay gives every read the outcome it had |
| local files (`internal/tips`, `internal/selfupdate`) | `state.json`, `update-check.json`, the executable | load, count, save; refresh; `Apply` | no lock, one temporary name, kills, wrong downloads | saves are atomic without overlap; what is installed is what was announced |

The rest of the program (rendering of text and HTML, drill-downs, platform detection, sharing,
configuration, per-subsystem commands, packaging) keeps no state of its own beyond a run;
`PROJECT.json` lists it with the reason it is left out.

### How they interact

    caller (health, mcp, capture, replay)
      | RunAll: a channel of Results                 fleet: ssh HOST dsd health --json
      v                                                       |
    runner --Collect--> collectors --reads--> source           v
      |                                         (live | Recorder | Replay)
      v Results
    analysis.ApplyThresholds --> insights --> Verdict, Coverage, exit code, JSON, nagios
                                     |    \-> Correlate --> diagnoses --> top catch
                                     v
                     BuildSnapshot --> LoadBaseline + ComputeDiff --> SaveBaseline
                                     |
                                     v
                     PersistAndPrune (history), state.json, update-check.json

`printHealthResults` (`cmd/health.go`) fixes the order of the second half: build the snapshot, read
the last one for `--diff`, compare, save; then `persistHealthRun` appends to the history. The
components meet in data, not in shared memory: the results channel between runner and caller,
the snapshot files between runs, the history file between processes and hosts, the gap counter
between the runner and the replay source; the one exception is the process-global source, and
`Capture` is about it. Each module therefore takes its neighbours' behaviour as
an input: Runner lets a collector do anything, RunReport takes any list of results and findings,
Baseline and Store know a run by its number, Diagnosis takes any data a collector may return.
Where two components are composed, the module says so: `RunReport` composes analysis, render and
baseline, `Capture` the runner's abandoned collectors with source, cmd and the bundle file,
`Diagnosis` the heuristics with the correlation and the top catch, `Collection` the collectors with
the heuristics, `CIS` two collectors with the rules and the rollups.

## 2. The modules

    Runner -- ResultStream            Insights -- Heuristics, Heuristics{Storage,System,Network,
    Store  -- HistoryLog                          Hardware,Virt,Services} -- Checks
    RunReport                         Correlation, Checks -- Diagnosis (Readings in MCDiagnosis)
    Baseline                          HostCollectors -- Platform-, Storage-, Security-,
    Fleet                               SystemCollectors, Checks -- Collection
    SourceRecords -- Capture          CISRules, SecurityFacts -- CIS
    LocalFiles

`MC...` modules give the constants their values for TLC, `...Proofs` hold the theorems. `JudgementProofs` is about Diagnosis and CIS and
`SnapshotProofs` about RunReport and Baseline; each extends both, which is why the initial states and steps of CIS and of Baseline have names of their own
(`CISInit`, `CISNext`, `CISSpec`; `BaselineInit`, `BaselineNext`, `BaselineSpec`).

### Runner, ResultStream (`internal/runner/runner.go`, its caller in `cmd/health.go`)

A collector has two goroutines. `pc[c]` is where `runOne` is (waiting in the outer select, in the inner
one after the deadline, settled, sent); `body[c]` is the goroutine that calls `Collect` and may return,
panic, come late or never end. `done[c]` is the one-slot channel between them. `expired` and `cancelled`
are the two ways `tctx` ends. `sent`, `taken` and `closed` are the result channel, whose capacity is the number
of collectors. In a serial run, chosen in `Init`, the loop that replay uses runs instead: one collector at a time, with the
gap counter `gaps` compared before (`before`) and after; an abandoned body of an earlier collector may
still increase it. Actions are the select cases, the timers and the statements of the loop; both
cases of a select may be ready, and either may be taken. `hit` is a history variable: whether and when a
collector touched an unrecorded input itself.

`ResultStream` is what RunAll promises: it delivers one Result for every collector it owes one, in
some order, and then closes. `Stream == INSTANCE ResultStream` maps `owing` to the
collectors that have not sent.

### Store, HistoryLog (`internal/store`, `persistHealthRun` in `cmd/health.go`)

`holder` is the flock on the sidecar file; `file` the lines at the path, each known by the `place` of
its write and the host it names (`Unreadable` when it does not parse); `torn` the last line if it lacks its
newline; `gen` and `fd` say whether an open descriptor is still the file at the path or one that
Prune's rename replaced. A run opens, appends one line, closes, and Prune reads all lines, writes those it keeps aside and
renames. `AppendFails` and `Crash` may leave any part of a line behind; `StepFails` is any other error
return. The next write after a torn line continues that line. `acked` and
`merged` are history variables: what was acknowledged, and what was glued to a torn line.

`HistoryLog` is what a reader of the last MaxEntries runs of a host is promised: runs recorded one at a time in the
host's own window, each recording disturbing no other host; a failed run uses up a number. `Store`
implements it with the window made of a host's newest whole lines.

### RunReport (`internal/analysis`, `internal/render`, `internal/baseline`, `cmd/health.go`, `cmd/migrate.go`)

Pure operators for `ApplyThresholds`' handling of failed collectors, `Verdict` with and without results, `Coverage` (with `classifyResult`
and `addItem`), the nagios line, the policy gate, `BuildSnapshot`, `ComputeDiff` and `certifyVerdict`, each named as in the
source, over results and findings. A finding is abstracted to what these functions look at: the part of
the check it is about, its level, and whether the reading was seen, not read, or readable by root only.
Which findings the heuristics make is left open here (within what `insight`, `unverifiedInsight` and
`needsRootInsight` can construct). Two actions make them a program: a run is observed and compared with
the stored snapshot (`Compare`), and its snapshot replaces the stored one (`Store`).

### Baseline (`internal/baseline`, `printHealthResults` in `cmd/health.go`)

`files`, `latest` and `prev` are the timestamped files and the two rotating ones per host; a
snapshot is known by the number of its run. One action per file operation of `LoadBaseline("")` and
`SaveBaseline`, since nothing locks the directory; `StopEarly` is a failed write or a dead process. `wall` is the local
time in seconds, which may be set back. `compared` is what `--diff` has read; `lastDone`, `seen`, `done` and
`interrupted` are history variables.

### Fleet (`internal/fleet/fleet.go`)

`pc[h]` follows the goroutine of a host through slot, validation, upload, run, removal, report and release. `sem`
is the semaphore, `done` the done channel, `expired[h]` the deadline that upload and run share (the removal has
its own), `results` the slice. A host is its place in the list, and `MachineOf` says which machine a host
names: two entries of the list may be one machine, and then share the one remote path `file[m]`. Machines
stop and resume answering on their own; scp may fail at any moment having written nothing,
a part or everything. `Summarize`, `WorstExitCode`, `AggregateIssues` and `classifyScope` are operators over `results`.

### SourceRecords, Capture (`internal/source`, `cmd/capture_raw.go`, `cmd/mcp.go`, `collectors/collector.go`)

`SourceRecords` holds the pure part: what each method of the Recorder keeps of an access with a given outcome
(`RecordOf`), what saving and loading make of it (`Persisted`), and what Replay answers from it (`ReplayOf`), over the outcomes data, empty,
absent, refused, failed, not found.

`Capture` is one process and its calls, each a health run, a capture or a replay. `active` is the process-global source;
`call[k]` remembers which source it put aside; `body` are the goroutines of the collectors, which look
the source up (`LookUp`), let the host answer (`Observe`) and record or replay (`Answer`) in three steps, since `curSource()` is read per
access. `GiveUp` is the runner's deadline: the body goes on, through any later phase of the call and of the next
ones. `Sanitize` and `Save` work on the bundle while it may still be written to.

### LocalFiles (`internal/tips/state.go`, `internal/selfupdate`, `cmd/health.go`, `cmd/update.go`)

`disk[f]` is what FILE and FILE.tmp name, where both may be one inode that a second process truncates while the first
writes (`OpenTmp`, `Write`, `Rename`). A file's content is none, part or whole with its length and value, so that a longer text under a shorter one is
a part. A process is `dsd health` (load, count, perhaps refresh the cache, save) or `dsd update` (fetch
the sums of the latest release, stage, download, compare, rename over the executable); `Kill` may
end it anywhere. `raced` and `counted` are history variables.

### Insights, Heuristics..., Checks (`internal/analysis/heuristics*.go`, `thresholds.go`, `policy.go`)

A check maps a collector's data to a set of insights `[check, level, sight]`, without their wording. Data is a record of
numbers, of states and of the set `flags` of the yes-or-no fields that hold; a field of which a check asks only whether it passes one bound is
a flag. One operator per `check...` function, in six modules by the source's files. `Checks` has the dispatch, the thresholds,
container adjustments and policy, what one collector's data says to another's check (`prescanContext`), and the
insight of a failed collector.

### Correlation, Diagnosis, Readings (`internal/analysis/correlate.go`, `internal/render/topcatch.go`)

`Correlation` has the sixteen rules over insights and `ComputeTopCatch`. `Diagnosis` is one run: every collector of a panel fails, delivers
nothing or delivers one of its readings, in any order; then the heuristics, then the correlation. `Readings` lists for each
collector quiet data, each finding with one that goes beside it, and every part it may fail to read.

### HostCollectors, PlatformCollectors, StorageCollectors, SecurityCollectors, SystemCollectors, Collection (`internal/collectors`, `internal/cvedata`)

A collector is a function of a view of the host: what its sources say (`Says`, a set of words or
records), count (`Num`), whether they exist (`Exists`) or were read (`Ok`), and who asks. It returns the
record its check of `Checks` takes. What is kept of each is which source is asked, in which order and
under which condition, what a failed read leaves in the record, and which fields are marked as not read; parsing is
abstracted to the words a source may say.

`Collection` runs one collector and its check. `Truth` is what the same program says as root with nothing lost; a run as any
user with losses is compared with it. `Silent` and `Accusing` list, collector by collector, the reads whose failure the code does
not tell from an answer (section 6): the two properties hold for every other read, and each listed read was seen to break them.

### CISRules, SecurityFacts, CIS (`internal/cis`, `internal/models/cis.go`, `cmd/cis.go`)

All 330 rules as data: a rule is the ordered list of the tests its Check function makes, the first that
holds gives the verdict. `SecurityFacts` gives a rule its readings: files it reads itself, and what the collectors Hardening and
KernelSec leave in their fields, for what this user may read. `CIS` is the command: the two collectors deliver or not, rules are selected by benchmark and level
(`Selected`), evaluated with `overrideAmbiguousVerdict`, and rolled up for NIS2 or BSI.

### Variants

Next to some definitions there is a variant marked "Faulty": a plausible mistake in that piece of code. No
specification uses it; substituted for the right definition it makes the property it
is meant for fail, so the property does depend on the code. `PROJECT.json` pairs them under "mutants".

## 3. What the runs check

A "violation" run states one sentence of the repository that the code does not keep; TLC's counterexample shows how.

| run | bounds | properties |
|---|---|---|
| runner | 3 collectors, parallel and serial, 1 gap | `ExactlyOneResult` (and no send after close); `TimeoutOnlyAfterDeadline`; `NoGapLost`; `GapBlamedOnOwner` while no earlier collector has been abandoned; `CallerEventuallyDone`; `ImplementsStream` |
| store | 2 processes on one host, 1 on another, limit 2, 4 runs | `AckedEntryKept`; `WithinLimit` after every prune; `OnlyOwnOldestRemoved`; `ImplementsHistory` |
| report | 1 check with 2 parts and up to 2 findings of any kind, any two runs in succession; 181 050 states | `CoverageMatchesVerdict`; `ExitCodesAgree` (with the nagios line and the policy gate); `SnapshotMirrorsCoverage`; `UnknownNeverImproves`; `EveryProblemInTheDiff`, once; `PassMeansNoRegression` |
| baseline | 2 processes on web, 1 on web-3, 3 runs, 2 seconds, one set-back | `DiffNeverOlder` than the last completed run; `LatestOnlyLostMidSave`; `EveryCompletedRunOnFile` |
| fleet | 3 hosts, the first two of them one machine, up to two of them invalid, 2 slots, 1 outage, with and without `--bin` | types; `CompleteOnReturn`; `NothingLeftUnreported`; `CleanupErrorHasItsOwnCause`; `SummaryIsTrue` (counts, exit code, scopes); `EventuallyReturns` |
| capture | 2 calls of any kind, 2 collectors, 1 access each by one of 4 methods with any outcome; 1 989 928 states | `CountedReadsAreOwn`: a Result that counts rests on its own call's source; `StrayRecordsAreAbandoned`: what `Sanitize` has not seen was made by an abandoned collector; `ReplayReproduces` what was recorded |
| local_files | 3 processes, 2 releases, 2 lengths of a file; 1 341 493 states up to symmetry | `SavesAreAtomic` unless two saves overlapped; `RunsAreCounted` unless two runs overlapped; `UnreadableStateStays` (a step never makes it readable again); `InstalledAsAnnounced` |
| diagnosis | every collector alone with all its readings, 13 panels of two to four, 4 settings of user, container, environment and policy; 604 944 states | `DisclosesUnmeasured`: what a collector could not read shows under its check; `ContradictionsExcluded`: no two diagnoses of one run exclude each other; `TopCatchIsGrounded` |
| cis | a host for each reading of each item some rule tests and hosts on which several sources fail (849), 3 users, 6 command lines, 4 sets of delivered collectors; 198 666 states | `EachControlOnce`; `ViewNeverFlips`: who may read less is told less, never something else; `FailuresShow` in every article and requirement |
| cis_groups | the same | violated: `GroupsDisclose`: a group with a rule that could not be checked is not reported as passed |
| collection | 52 collectors with 10 736 hosts: healthy, each thing that may be wrong, any two of them; root and another user; nothing lost, each single source, everything whose loss is told; 971 428 states | `FailureNeverClears`: a problem of the host is reported at its level or the check says that it could not see everything; `FailureNeverAccuses`: a run never reports as seen a problem or a level the host does not have |
| drives_smart | the SATA and NVMe drives of `collection` | violated: `FailedAssessmentIsCritical`: a drive that fails its own assessment is reported as critical |

Why the bounds are enough to be interesting:

- Three collectors allow one abandoned, one that delivers late and one that is not affected; in replay the abandoned one
  can precede two others. One gap already separates "in time" from "late".
- Two processes of one host race for the lock and a file the other replaces, the third one's host is the bystander. Four
  runs with limit 2 exceed the limit after a crash in every position; the file may start with a line of another version.
- `ComputeDiff`, `Coverage` and the verdict treat checks one by one: every property of `report` quantifies over checks and no operator mixes two,
  except that the verdict is a maximum over all, so one check with two findings shows every combination
  that two checks would. Two findings are needed for order and ties, two parts for `addItem`.
- Baseline's three runs are the least with a completed run, an interrupted one and one that compares; two seconds and one set-back give
  equal and decreasing stamps.
- In Fleet, two slots for three hosts make a host wait, the shared machine makes two goroutines meet in
  one file, and one outage of either machine at any moment is what the cleanup must survive. Reports with no
  issue, one, and two levels of one shape reach each scope.
- Two calls in `capture` give every order of kinds, among them a replay of what was just captured while a
  collector of the capture still reads; the theorems of `CaptureProofs` hold for any number of calls, collectors and accesses.
- Three processes in `local_files` let two overlap in a save while a third loads; two lengths let a longer text lie under a shorter one;
  two releases let a release appear between the sums and the download.
- Every bound the heuristics compare with is crossed by a reading on each side; of the findings each occurs alone and beside one other. The
  panels are the sets of collectors that one correlation rule, or two rules with excluding advice, look at.
- A CIS rule tests items one after another, so hosts that differ from a fine one in one item decide each test; the
  hosts with several are for tests behind another one and for `overrideAmbiguousVerdict`.
- Two things wrong at a time show one problem hidden by the loss of another's source; a single lost source is
  the failure no other part of the run notices. Files can be refused, commands can fail; root is refused nothing.

Deadlock is checked in runner, store, report, baseline, fleet, capture and local_files; `Idle` and `Done` are the states in which everything has ended. `Diagnosis`,
`CIS` and `Collection` are one run of a command, which ends.

## 4. Fairness

Only Runner and Fleet have liveness properties.

- Runner: weak fairness for the steps of `runOne`, the deadline, closing the channel and the caller's loop: the Go scheduler
  runs every runnable goroutine and timers fire. `Collect` has none: it may hang for ever, and
  `CallerEventuallyDone` still holds, because the grace timer lets `runOne` go on.
- Fleet: weak fairness for goroutine steps and timers; strong fairness for obtaining a slot, since a goroutine
  waiting on a channel send is queued and served in turn; and for the end of an ssh or scp whose context has expired:
  `exec.CommandContext` kills it and `WaitDelay` (`platform.ExecWaitDelay`) closes the pipes a grandchild may hold. The removal
  runs under a time limit of its own. Nothing is assumed about scp, ssh or the remote command ending before the
  deadline, nor about a machine ever answering.

Store, Baseline, Capture and LocalFiles make no promise of progress: a process may die at any step, an abandoned collector may hang.

## 5. Proofs

Every theorem holds for all values of the constants under the named assumptions of its module (a set of
collectors `1..N`, a limit of at least one, a host for every process and so on), from the safety part of
the specification. They are checked with tlapm and no step is left without a proof.

- **RunnerProofs.** `TypeCorrect`; `EveryCollectorOnce`; `TimeoutsAreDeserved`; `GapsAreNotLost`; `BlameIsDeserved`;
  `RunAllImplementsStream` (every step delivers an owed Result, closes or stutters). ExactlyOneResult is not inductive: `Bookkeeping` adds
  that a collector occurs in `sent` exactly when its `pc` is "sent" and that `closed` implies all are. For the gaps, `GapInv` adds that
  the serial loop has one collector in hand, and that if this one has hit a gap in time then `gaps > before`; `BlameInv` adds the converse, that a body which
  still runs when its runOne is through was abandoned, so that `gaps > before` has a cause.
- **StoreProofs.** `TypeCorrect`, `MutualExclusion`, `AcknowledgedEntriesKept`, `HistoryWithinLimit`,
  `OnlyPruneRemoves`, `StoreImplementsHistory`. The inductive invariant says that a process past the lock
  holds it (`Mutex`); that nobody else disturbs what it opened, wrote or read (`Undisturbed`: its descriptor is
  the current generation, the last line is whole, its snapshot is the file); that its own entry is kept from the append on (`OwnEntryKept`); and that the file is finite. Lemmas
  on cardinality carry "MaxEntries newer lines" through Prune: the newest
  MaxEntries lines of a host survive, so a line that is out of the window stays out.
- **SnapshotProofs**, of RunReport. `ExitCodeAgrees`, `SnapshotAgrees`, `CoverageAgrees`, `UnknownIsNoImprovement`, `EveryProblemIsReported`,
  `PassIsNoRegression`: all the run checks, for any set of checks and findings. The first three follow from lemmas on `Items` (what `addItem`
  drops is always replaced) and on which results have insights. The last three rest on two: the status a snapshot stores is the highest rank of the
  check's insights (`Worst`, `Stored`; the first of the worst insights exists because the naturals are well-founded), and a diff has at most one entry
  for a check (`DiffOfACheck`), which `ChangeOfACheck` compares with the ranks before and after.
- **SnapshotProofs**, of Baseline. `TypeCorrect`, `LatestIsLastCompleted`, `DiffReadsNothingOlder`, `ARunIsKept`,
  `CompletedRunsOnFile`. The properties are inductive together with `InFlight`: a process that has begun has a number, and after its first
  rename a file of its host and second is there. They need each other: a rotation keeps a run only because the latest file is the last completed run
  or missing.
- **FleetProofs.** `TypeCorrect`, `NeverMoreInFlight`, `ReturnsAWholeSlice`, `LeftoversAreReported`,
  `CleanupIsNotPoisoned`, `SummaryAgrees`. The invariant counts: `sem` is the number of goroutines between taking and releasing a slot and `done` the
  number past their send (`Counted`); results are written from "report" on (`Written`); a file on a machine is explained by a goroutine that has still to remove it
  or by a written result that speaks of it (`Explained`); a machine that does not answer is in `troubled` (`Troubles`).
  For the summary, a second invariant says that a host nothing is known of has no issues (`Silent`); the four counts then partition the hosts
  and the two halves of a scope the hosts that answered (`Apart`).
- **CaptureProofs.** `OutcomesSurvive`: for every method, what the Replay answers from a saved record is what the host
  answered, except the losses of `Lossy` (a command that could not be run comes back as one that is not there, a cached refusal as a plain failure); `TypeCorrect`; `NoCrossContamination`, from
  the invariant that only the one call inside the mutex has exchanged the source and that a settled result stems from a body
  that had looked up the source of its own call; `OnlyAbandonedStray`; `ReplayIsFaithful`: the invariant `RInv` follows an answer from the host through the
  bundle into the file and back. A live source gives what the host says (`HostLive`); the records of a bundle are what the Recorder keeps of that (`Truthful`,
  `Kept`), and what a collector has seen under a capture is in its bundle or came from it (`SeenThroughBundle`); a saved file still holds what the
  counted collectors left, since Sanitize removes no record and only an abandoned collector adds one later (`FileReplayed`).
- **LocalFilesProofs.** `TypeCorrect`, `AtomicWithoutOverlap`, `EveryRunCounted`, `UnreadableForGood`,
  `OnlyTheAnnounced`, `TempsRemoved`. Without an overlap one process owns FILE.tmp from open to rename, and its bytes are what it has
  written; a run that does not overlap with another holds the number it loaded; what is renamed over the executable has the sum of a release that was the
  latest one.
- **JudgementProofs.** `NoContradictions` and `TopCatchGrounded` for any set of insights, not only those the heuristics make: the guards of
  the rules exclude each other pair by pair, and each rule names only checks it has looked for. `FailureIsDisclosed`: a failed collector is named
  in the report, for every panel; it is the part of `DisclosesUnmeasured` that no table decides. `EachControlShownOnce`: `ShownId` is injective on the selected rules, so
  that the report has as many numbers as rules, and a rule that makes way for another one leaves it its number and its level. The theorem is about every command line, any
  `--level` included; what it needs of the table (`TableAssumption`: unique numbers, levels of rules that share one) TLC computes, since the numbers are strings.
  `FailuresAreShown`: only an overridden row, which is neither a pass nor a fail, has fewer references than its rule (`Row`), so the verdicts a group is
  made of contain every failure and nothing foreign. `NoViewFlips` is `ViewNeverFlips` for every host, however many items are at fault at once, and every set of
  root's sources a user may be kept from. An item has one place it can come from (`Zones`), so an item that has another reading for the user than for root was lost
  there (`SourceLost`), and each way to lose one leaves a sign of it or is one of the exceptions the property names (`Losses`, `LosesSilently`, `LosesDefault`).
  Take the first test whose item reads differently: the tests before it gave no verdict, to neither of the two, and from it on the rule comes to the
  sign before any test that what the user sees instead would meet; for the rules on sshd and auditd `Overridden` withholds the verdict (`WhereTheyPart`, `Withheld`). That every rule meets the sign in time is a fact about the
  330 rules, `LossAssumption`, which TLC computes; `HiddenAssumption` (only what belongs to root is hidden) and
  `HostsAssumption` (only a keyword the two parsers of sshd_config differ on is left to its default) say which hosts and users there are.

- **CollectionProofs.** `ShownNeverClear` and `ShownNeverAccuse`: `FailureNeverClears` and `FailureNeverAccuses` of 27 of the 52 collectors (`Shown`), for every
  host, user and set of losses, where the run has hosts with at most two faults and loses one source or all. `ReportOfOneView`: what a run reports is what the
  check says of what the collector returns of one view. `Reads` says how the view of a run and that of root with everything differ at one source: a source that was not lost says the
  same, one that was says nothing, its count is the default, and it is known to have failed. `Sees` is `Reads` for every source, and `Sight` shows that views have it.
  A report is then reduced to what matters of it (`Only` insights of its check, `Alarms`, `Warns`, `Unseen`), which unions preserve (`Both`, `All`), and `Comparing`
  reduces the two properties to two questions of a collector: does the run's report outweigh the truth or say that it could not see, and does the truth outweigh the report. The lemma
  `Compared` of each collector answers them: either the losses that `Silent` (`Accusing`) does not name leave its data as they were, or they leave a flag the check reports, or
  they move the data to the side on which nothing is reported. Assumed of the constants are `LossesAssumption` (what a run knows without reading is not lost; /boot is only refused)
  and `PathsAssumption` (the multipath daemon and the maps tell of the same paths). The proofs found two losses which the run's hosts had been too few to show; `Silent` now names
  them, and the run has such hosts: zypp.conf, which keeps every kernel, and /sys/block, by which multipath is found where its socket is missing.

Only model-checked: liveness (`CallerEventuallyDone`, `EventuallyReturns`), which needs ENABLED; `FailureNeverClears` and `FailureNeverAccuses` of the other 25 collectors,
whose data are records of many readings of which no two are alike; and the rest of `DisclosesUnmeasured`, which is about a large table and holds by what stands in it, not by an argument.

## 6. Where code and documentation disagree, and other remarks

Two runs end in a counterexample; each checks one sentence of the repository.

- **A group reported as passed with a rule that was not checked** (`cis_groups`). `Evaluate` stores the references to NIS2 and BSI in a result and
  then lets `overrideAmbiguousVerdict` replace it by a new one without (internal/cis/rules.go:5914), so that a rule made unverified
  counts in no group, against internal/models/cis.go:32.
- **A failing drive that is only "not verified"** (`drives_smart`). `collectSATADrives` drops what smartctl prints when it exits with
  non-zero, and a failed assessment is one of the bits of its exit code (internal/collectors/nvme_linux.go:348,
  against docs/CHECKS.md:162).

The following was met while modelling and has no run of its own. In each case the model does what the code does.

**Runner, store, baseline, report, fleet**

- A replayed collector that was given up on keeps counting gaps while the next one runs, whose Result is then marked as not
  recorded (runner.go:53, against the comment at 40). What remains true is `GapBlamedOnOwner`, and that no gap is lost.
- After a write that stopped half way the next entry is appended to the torn line, and both are lost to readers though the call succeeded
  (jsonl.go:91, store.go:30); the next prune ends the torn line.
- Between the two renames of a save the latest file does not exist, and `--diff` does not look at the previous one
  (baseline.go:163, 195), which no code reads.
- The pattern of `LoadHistory` for host `web` matches the files of `web-3` (history.go:27); `LoadHistory` is not modelled.
- Of equally bad insights a snapshot keeps the first with its flag; if a read INFO comes before an unread one, the stored run counts as
  OK where the run itself was WARN (baseline.go:295, against verdict_needsroot_test.go:41).
- `ComputeDiff` looks only at the flag of the insight that gave each side its status, so a check that went from WARN to a read INFO while
  another part of it became unreadable counts as improved (baseline.go:374, against 362). A check that vanished takes its flag from the source's
  reading, so `certifyVerdict` calls an absence confirmed that the destination never read (baseline.go:401, against migrate.go:244).
- policy.go:66 says that without `deny` a run exits non-zero on CRIT only; WARN exits 1 whatever `deny` says. A run without results exits 3 (health.go:427).
- A failed scp returns without the cleanup although it may have written the file (fleet.go:256, against docs/fleet-design.md:111).
  What remains true is `NothingLeftUnreported`.

**Capture and local files**

- A command that could not be started replays as one that is not there, an absent file read through `Cached` as empty data, a refused one as a plain failure;
  a failed `Glob` is not recorded and replays as a gap (bundle.go:253, replay.go:140). `clock.go:80` reads the live host on a gap of a replay.
- `state.json` and `update-check.json` are written through one fixed temporary name without a lock, so overlapping saves can leave a file nobody can
  read, which DEFECT-CLASSES.md:36 and :193 count as atomic. An unreadable `state.json` stays so: no run
  writes it again (health.go:130, 350). Builds of a release candidate never update.

**Heuristics and correlation**

- HardOOM, ContainerOOM and DNSResolver rule a check out although its collector failed: `confirmedNot` (correlate.go:166) is true when the check is in the index at another
  level, and the insight of a failed collector is an INFO. `ruleRunQueueSaturation` never fires, since `checkCPU` has IOWait and Steal only at WARN and CRIT.
- `parseSSHConfig` marks an unreadable configuration so that the SSH checks are skipped (security_linux.go:150); `checkSSHHardening` judges passwords and
  forwarding regardless (heuristics_security.go:193, 281).
- Swap paging and the clock's offset are -1 when not measured and say nothing. Several "needs root" readings
  (NVMe, btrfs, Ceph, iSCSI, IPMI, hardware RAID, snapper) use `unverifiedInsight`, which keeps the verdict from OK, instead of `needsRootInsight`.
- More paging lowers a WARN to INFO with zram. A failed zfs-import unit is INFO where the Disk and ZFS collectors failed.
- `DisclosesUnmeasured` leaves out what the checks treat as an answer by intent: a denied Docker or containerd socket (a seen INFO), unread properties of optional
  services (Memcached, KVM guests, time source of clouds, Redis' last save, parts of OCI), Kubernetes services not asked, drives without a tool, sensor values out of range, and unread Proxmox archives,
  for which an empty list is judged CRIT "no backup".

**CIS**

- Rule 6.1.14 is never scanned (`ScanSUIDBinaries` is called in cmd/security.go only) and always passes. A collector that failed or
  timed out is judged from zero values (cmd/cis.go:91), so `ViewNeverFlips` is about runs where both delivered.
- Rules that judge what they could not see, the exceptions of `ViewNeverFlips`: 1.3.2, 3.5.1.5, 6.2.14 to 6.2.16; and, where only the file of
  sshd can be read, V-238213, V-238215 and V-238221. A drop-in stands in for a main file that is refused.
- Helpers skip unreadable files where types.go wants them told: 4.2.4, 5.4.17, 1.2.3 and 2.1.2 pass. A module `usb_storage` that is loaded never matches
  "usb-storage" (1.1.17); "blacklist hfs" is satisfied by "blacklist hfsplus". `auditctl` off the PATH counts as not installed.
- Seven settings and two mounts are checked under two numbers; with `--stig`, the rule in place of 5.4.1 has no references; `--bsi` wins over `--nis2`; no rule yields MANUAL or N/A.

**Collectors.** `Silent` and `Accusing` in `Collection` are the exact list of the reads whose failure is taken for an answer; the most telling:

- *Network*: a failing list of interfaces leaves the primary one "down", a CRIT (network_quick.go:123), although the check speaks of "not measured". Without a route
  table there is no gateway to ask. Without ping and the right to send ICMP, a TCP connection stands in, which knows no loss; the hosts
  of the run all have ping, since without it the two users of one host would see different losses.
- *CPU, memory, IO*: after a failed sample of /proc/stat the load average is judged as usage; offline CPUs are WARN instead of INFO when smt/control
  or the kernel's command line cannot be read; a disk whose `rotational` cannot be read is judged as an SSD; descriptors of other users' processes are passed over.
- *Descriptors*: a process without a limit that has 10000 files open goes to the head of the five that are kept, with a share near 0 % that no check
  objects to (fdlimits.go:231, heuristics_system.go:34): it is not reported itself, against models/fdlimits.go:11, and five of them hide a process at its limit.
- *Clock*: a failing adjtimex is "not synchronised", CRIT; without /etc/adjtime a WARN becomes a CRIT.
- *Auth, OOM*: without entries in the journal the whole auth.log counts as the last 24 hours; a `sshd -T` that fails turns INFO into WARN; dmesg without times
  counts kills of any age.
- *Disk, RAID, DRBD*: three or more stale mounts make the collector itself time out; an unreadable /proc/mdstat leaves RAID out without a word (against raid_linux.go:48);
  one peer's SyncTarget hides another's StandAlone; controllers that did not answer are dropped when another did; `current` counts as a snapshot, so "no snapshots" never fires.
- *Firewall*: a port range is expanded to its first 1025 ports (firewall_linux.go:260), so that a listener beyond is reported as blocked.
- *Hardening*: log times without a zone are taken for UTC (security_linux.go:473), so that west of it no failed login of the last hour counts; a `journalctl -g` without a match counts as a
  failure; the last value of sshd_config is taken where sshd takes the first; a port is found only where it is written literally, so a range gives "SSH not allowed";
  firewalld's list of ports is searched for the text 22/tcp, which 8022/tcp ends in. A failing semanage, matchpathcon or `ls -dZ` leaves no port and no file out of place.
- *Packages, CVE*: a repository list that fails is "no security repository"; "Not Registered" contains "registered" (packages_linux.go:836); zypper and apt name no CVEs, so a known exploited one
  never escalates there; where tdnf's JSON answers but has an incomplete record, a table that fails lists nothing; an older feed answers "not affected" when the package manager's query fails; `dsd cve` exits 0 for UNKNOWN.
- *Docker, Kubernetes, Proxmox*: most reads after the list of containers fail silently; a list of pods or nodes failing alone is silent; systemctl failing is "down"; a subscription
  file that cannot be read is "notfound".
- *Logs, Cron, Systemd*: without /proc/uptime all kernel events are dropped; `@daily` lines are never looked at and log dates get the current year; the 21st failed sshd@ unit and the later
  ones are never looked at (systemd.go:308).
- *KernelRetention, Multipath*: without zypp.conf a host that keeps every kernel has a limit (maintenance_linux.go:456); multipath that is found by its maps only is not looked at where
  /sys/block cannot be read (multipath_linux.go:91).
- *Kernel, KernelSec, Hardware*: a failing `zypper needs-rebooting` means no reboot needed; an audit.log line longer than the scanner's buffer ends the reading; `smartctl
  --scan-open` failing for any reason is "not installed".

## 7. What is not modelled

Within the modelled components:

- Runner: `IsAvailable`, a dispatch. Store: the text of entries, the drift line printed from what was read before the lock. Baseline: leftover temporary files,
  `LoadBaseline` of explicit paths, `LoadHistory`, sub-check names. Fleet: the argument grammar (`ValidateHost`, `validateRemoteCmd`), control sockets, tables; a run starts on machines
  without a left-over binary.
- Source: `StatProbe`, `FromSnapshot`, the limits of the archive, the rules of redaction, exit code -1 of a killed command. LocalFiles: the hook of `dsd hook`, power loss (nothing
  is synced to disk).
- Heuristics: wording, hints and their adaptation to the platform, `CorrelateDeep`, `checkSecurityDrift`, the pieces of a deep run that only print. Bounds that are exclusive in the source are
  modelled over integers, one higher.
- CIS: filtering and printing. The readings of files are abstracted to fine, wrong, unset, absent, refused and what a single rule distinguishes.
- Collectors: 52 of them are modelled on Linux; those of databases and brokers, cloud and VM guests, IPMI, GPU, audit, firmware, power and inventories are inputs of `Diagnosis` only, as are the macOS variants. Of
  those modelled, fields no check judges, AVC grouping, FIPS, USBGuard, jitter, the wireless settings of SteamOS and the wrap of unsigned counters (io.go:108) are left out. A source is lost for the whole of a run, not between two reads of one collector.
- Platform detection is a constant of the run (`Settings`).

Other components: rendering of text and HTML is formatting; drill-downs never change a level; the per-subsystem commands use the same runner, analysis and verdict; sharing, explaining and
configuration are text. The list with reasons is in `PROJECT.json` under "components".

## 8. Plan

Done, in this order: 1 Runner with ResultStream, 2 Store with HistoryLog, 3 RunReport, 4 Baseline, 5 Fleet, 6 SourceRecords with Capture, 7 LocalFiles, 8 the heuristics with Correlation and Diagnosis, 9 CIS, 10 the collectors with
Collection; all with proofs, Collection for 27 collectors.

Next: the collectors of databases, clouds and guests in the manner of `Collection`; named baselines and the security baseline (`baseline/golden.go`, `since_deploy.go`) and `LoadHistory` as operators
over what `Baseline` keeps; watch mode's `InsightChanges`; the version comparisons of `internal/cvedata`.
