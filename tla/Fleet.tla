--------------------------------- MODULE Fleet ---------------------------------
(***************************************************************************)
(* internal/fleet/fleet.go: Run, runHost and Summarize.                    *)
(*                                                                         *)
(* Run starts a goroutine per host; a goroutine works only while it holds  *)
(* one of Concurrency slots.  runHost uploads the dsd binary when --bin    *)
(* was given, runs the health command, removes the binary again and parses *)
(* what the command printed.  The upload and the command share one         *)
(* deadline, the removal has its own.  Every host of a --bin run uses the  *)
(* same remote path, so two entries of the list that name one machine      *)
(* ("web1", "root@web1") meet in one file.                                 *)
(*                                                                         *)
(* Hosts are their places in the list (resolveHosts has dropped repeated   *)
(* entries).  A machine ANSWERS when an ssh connection to it gets through  *)
(* in time; the rest of what ssh and the remote dsd may do is left open.   *)
(***************************************************************************)
EXTENDS Naturals, FiniteSets

CONSTANTS
  N,            \* number of hosts
  Machines,
  MachineOf,    \* the machine each host of the list names
  MayBeInvalid, \* hosts ValidateHost may reject
  Concurrency,  \* opts.Concurrency
  Shapes,       \* issues up to maskNumbers: check and message without numbers
  Reports,      \* sets of issues a remote dsd may report
  NoOutput,     \* output parseHealth rejects
  MaxOutages    \* bound on how often machines stop answering

Hosts == 1..N
Levels == {"CRIT", "WARN"}
Issues == [shape : Shapes, level : Levels]

ASSUME NAssumption == N \in Nat
ASSUME MachineOfAssumption == MachineOf \in [Hosts -> Machines]
ASSUME MayBeInvalidAssumption == MayBeInvalid \subseteq Hosts
ASSUME ConcurrencyAssumption == Concurrency \in Nat \ {0}
ASSUME ReportsAssumption == Reports \subseteq SUBSET Issues
ASSUME NoOutputAssumption == NoOutput \notin Reports
ASSUME MaxOutagesAssumption == MaxOutages \in Nat

VARIABLES
  bin,       \* opts.BinPath # ""
  invalid,   \* the hosts ValidateHost rejects in this run
  pc,        \* where the host's goroutine is
  sem,       \* slots taken
  expired,   \* hctx's deadline has passed
  out,       \* what the health command printed
  results,   \* the results slice
  done,      \* values ever sent on the done channel
  returned,  \* Run has returned
  file,      \* dsd-fleet in the machine's RemoteBinDir
  answers,   \* machines that answer now
  outages,   \* how often a machine has stopped answering
  troubled   \* history: machines that have stopped answering at some time

vars == <<bin, invalid, pc, sem, expired, out, results, done, returned, file, answers,
          outages, troubled>>
world == <<answers, outages, troubled>>
input == <<bin, invalid>>
chan == <<done, returned>>

Working == {"scp", "ssh", "running", "cleanup"}

Errors == {"none", "invalid", "scp", "ssh"}
Result == [reachable : BOOLEAN, worst : {"OK", "WARN", "CRIT", "ERROR"},
           error : Errors, issues : SUBSET Issues, cleanupError : BOOLEAN]
\* make([]Result, n) before a goroutine has written its element.
Zero == [reachable |-> FALSE, worst |-> "", error |-> "none", issues |-> {},
         cleanupError |-> FALSE]

TypeOK ==
  /\ bin \in BOOLEAN
  /\ invalid \in SUBSET MayBeInvalid
  /\ pc \in [Hosts -> Working \cup {"waiting", "admitted", "report", "sent", "gone"}]
  /\ sem \in 0..Concurrency
  /\ expired \in [Hosts -> BOOLEAN]
  /\ out \in [Hosts -> Reports \cup {NoOutput}]
  /\ results \in [Hosts -> Result \cup {Zero}]
  /\ done \in 0..N
  /\ returned \in BOOLEAN
  /\ file \in [Machines -> {"none", "partial", "whole"}]
  /\ answers \subseteq Machines
  /\ outages \in 0..MaxOutages
  /\ troubled \subseteq Machines

\* A run starts on machines that carry no binary of an earlier one.
Init ==
  /\ bin \in BOOLEAN
  /\ invalid \in SUBSET MayBeInvalid
  /\ pc = [h \in Hosts |-> "waiting"]
  /\ sem = 0
  /\ expired = [h \in Hosts |-> FALSE]
  /\ out = [h \in Hosts |-> NoOutput]
  /\ results = [h \in Hosts |-> Zero]
  /\ done = 0
  /\ returned = FALSE
  /\ file = [m \in Machines |-> "none"]
  /\ answers = Machines
  /\ outages = 0
  /\ troubled = {}

-------------------------------------------------------------------------------
(* The environment. *)

StopAnswering(m) ==
  /\ m \in answers
  /\ outages < MaxOutages
  /\ outages' = outages + 1
  /\ answers' = answers \ {m}
  /\ troubled' = troubled \cup {m}
  /\ UNCHANGED <<input, pc, sem, expired, out, results, chan, file>>

AnswerAgain(m) ==
  /\ m \notin answers
  /\ answers' = answers \cup {m}
  /\ UNCHANGED <<input, pc, sem, expired, out, results, chan, file, outages, troubled>>

\* The deadline all of runHost but the cleanup shares passes.
Deadline(h) ==
  /\ pc[h] \in {"scp", "ssh", "running"}
  /\ ~expired[h]
  /\ expired' = [expired EXCEPT ![h] = TRUE]
  /\ UNCHANGED <<input, pc, sem, out, results, chan, file, world>>

Reaches(h) == MachineOf[h] \in answers

-------------------------------------------------------------------------------
(* The goroutine of one host. *)

Goto(h, where) == pc' = [pc EXCEPT ![h] = where]

\* sem <- struct{}{}
Admit(h) ==
  /\ pc[h] = "waiting"
  /\ sem < Concurrency
  /\ sem' = sem + 1
  /\ Goto(h, "admitted")
  /\ UNCHANGED <<input, expired, out, results, chan, file, world>>

\* results[idx] = r, and the locals of runHost (hctx among them) are gone.
Finish(h, r) ==
  /\ results' = [results EXCEPT ![h] = r]
  /\ expired' = [expired EXCEPT ![h] = FALSE]
  /\ Goto(h, "report")

\* No verdict: nothing is known of the host.
Unchecked(error, cleanupFailed) ==
  [reachable |-> FALSE, worst |-> "ERROR", error |-> error, issues |-> {},
   cleanupError |-> cleanupFailed]

\* Faulty: an invalid host returns without going through the deferred release.
RejectAndKeepSlot(h) ==
  /\ pc[h] = "admitted"
  /\ h \in invalid
  /\ results' = [results EXCEPT ![h] = Unchecked("invalid", FALSE)]
  /\ done' = done + 1
  /\ Goto(h, "gone")
  /\ UNCHANGED <<input, sem, expired, out, returned, file, world>>

\* ValidateHost fails: no ssh or scp is started.
Reject(h) ==
  /\ pc[h] = "admitted"
  /\ h \in invalid
  /\ Finish(h, Unchecked("invalid", FALSE))
  /\ UNCHANGED <<input, sem, out, chan, file, world>>

StartHost(h) ==
  /\ pc[h] = "admitted"
  /\ h \notin invalid
  /\ Goto(h, IF bin THEN "scp" ELSE "ssh")
  /\ UNCHANGED <<input, sem, expired, out, results, chan, file, world>>

ScpOk(h) ==
  /\ pc[h] = "scp"
  /\ ~expired[h]
  /\ Reaches(h)
  /\ file' = [file EXCEPT ![MachineOf[h]] = "whole"]
  /\ Goto(h, "ssh")
  /\ UNCHANGED <<input, sem, expired, out, results, chan, world>>

\* Faulty: done is signalled both by the early return and by the goroutine.
ScpFailsAndSignals(h) ==
  /\ pc[h] = "scp"
  /\ \E f \in {file[MachineOf[h]], "partial", "whole"} :
       file' = [file EXCEPT ![MachineOf[h]] = f]
  /\ Finish(h, Unchecked("scp", FALSE))
  /\ done' = done + 1
  /\ UNCHANGED <<input, sem, out, returned, world>>

\* scp reports a failure (refused, full disk, lost connection, killed at the
\* deadline), which says nothing of what it has already written.  runHost
\* returns at once.
ScpFails(h) ==
  /\ pc[h] = "scp"
  /\ \E f \in {file[MachineOf[h]], "partial", "whole"} :
       file' = [file EXCEPT ![MachineOf[h]] = f]
  /\ Finish(h, Unchecked("scp", FALSE))
  /\ UNCHANGED <<input, sem, out, chan, world>>

Worst(issues) ==
  IF \E i \in issues : i.level = "CRIT" THEN "CRIT"
  ELSE IF issues = {} THEN "OK" ELSE "WARN"

\* parseHealth and the end of runHost: the exit status does not matter when a
\* health document was printed.
Verdict(o, cleanupFailed) ==
  IF o \in Reports
  THEN [reachable |-> TRUE, worst |-> Worst(o), error |-> "none", issues |-> o,
        cleanupError |-> cleanupFailed]
  ELSE Unchecked("ssh", cleanupFailed)

\* Faulty: a command that printed nothing returns before the cleanup.
SshEndsEarly(h, o) ==
  IF bin /\ o # NoOutput
  THEN /\ out' = [out EXCEPT ![h] = o]
       /\ Goto(h, "cleanup")
       /\ UNCHANGED <<results, expired>>
  ELSE Finish(h, Verdict(o, FALSE)) /\ UNCHANGED out

\* sshRun has returned o, with or without an error.
SshEnds(h, o) ==
  IF bin
  THEN /\ out' = [out EXCEPT ![h] = o]
       /\ Goto(h, "cleanup")
       /\ UNCHANGED <<results, expired>>
  ELSE Finish(h, Verdict(o, FALSE)) /\ UNCHANGED out

\* ssh is connected: "chmod +x dsd-fleet && dsd-fleet health --json" fails when
\* there is no whole binary, the installed dsd is simply run.
SshConnects(h) ==
  /\ pc[h] = "ssh"
  /\ ~expired[h]
  /\ Reaches(h)
  /\ IF bin /\ file[MachineOf[h]] # "whole"
     THEN SshEnds(h, NoOutput)
     ELSE Goto(h, "running") /\ UNCHANGED <<out, results, expired>>
  /\ UNCHANGED <<input, sem, chan, file, world>>

\* The remote command ends: a health document, or something that is none.
RemoteEnds(h) ==
  /\ pc[h] = "running"
  /\ Reaches(h)
  /\ \E o \in Reports \cup {NoOutput} : SshEnds(h, o)
  /\ UNCHANGED <<input, sem, chan, file, world>>

\* ssh fails or is killed at the deadline, maybe after the document was printed.
SshFails(h) ==
  /\ pc[h] \in {"ssh", "running"}
  /\ expired[h] \/ ~Reaches(h)
  /\ \E o \in {NoOutput} \cup (IF pc[h] = "running" THEN Reports ELSE {}) :
       SshEnds(h, o)
  /\ UNCHANGED <<input, sem, chan, file, world>>

CleanupOk(h) ==
  /\ pc[h] = "cleanup"
  /\ Reaches(h)
  /\ file' = [file EXCEPT ![MachineOf[h]] = "none"]
  /\ Finish(h, Verdict(out[h], FALSE))
  /\ UNCHANGED <<input, sem, out, chan, world>>

\* Another host of the list names the same machine.
Shared(h) == \E g \in Hosts \ {h} : MachineOf[g] = MachineOf[h]

\* Faulty: the cleanup runs under hctx, the deadline of upload and command.
CleanupFailsAfterDeadline(h) ==
  /\ pc[h] = "cleanup"
  /\ expired[h] \/ ~Reaches(h)
  /\ Finish(h, Verdict(out[h], TRUE))
  /\ UNCHANGED <<input, sem, out, chan, file, world>>

\* "rm -f" does not get through in its own time, or may not remove the file of
\* another user of the machine.  It may have removed it all the same.
CleanupFails(h) ==
  /\ pc[h] = "cleanup"
  /\ Reaches(h) => Shared(h)
  /\ \E f \in {file[MachineOf[h]], "none"} :
       file' = [file EXCEPT ![MachineOf[h]] = f]
  /\ Finish(h, Verdict(out[h], TRUE))
  /\ UNCHANGED <<input, sem, out, chan, world>>

\* Faulty: a deferred send besides the one in the body.
ReportTwice(h) ==
  /\ pc[h] = "report"
  /\ done' = done + 2
  /\ Goto(h, "sent")
  /\ UNCHANGED <<input, sem, expired, out, results, returned, file, world>>

\* done <- idx; the channel has room for every host.
Report(h) ==
  /\ pc[h] = "report"
  /\ done' = done + 1
  /\ Goto(h, "sent")
  /\ UNCHANGED <<input, sem, expired, out, results, returned, file, world>>

\* The deferred <-sem.
Release(h) ==
  /\ pc[h] = "sent"
  /\ sem' = sem - 1
  /\ Goto(h, "gone")
  /\ UNCHANGED <<input, expired, out, results, chan, file, world>>

-------------------------------------------------------------------------------
(* Run. *)

\* Run has received one done per host, in whatever order they came.
Return ==
  /\ ~returned
  /\ done = N
  /\ returned' = TRUE
  /\ UNCHANGED <<input, pc, sem, expired, out, results, done, file, world>>

\* Run has returned.
Idle ==
  /\ returned
  /\ UNCHANGED vars

Host(h) ==
  \/ Deadline(h) \/ Admit(h) \/ Reject(h) \/ StartHost(h) \/ ScpOk(h) \/ ScpFails(h)
  \/ SshConnects(h) \/ RemoteEnds(h) \/ SshFails(h)
  \/ CleanupOk(h) \/ CleanupFails(h) \/ Report(h) \/ Release(h)

Next ==
  \/ \E h \in Hosts : Host(h)
  \/ \E m \in Machines : StopAnswering(m) \/ AnswerAgain(m)
  \/ Return
  \/ Idle

\* The Go scheduler runs every runnable goroutine, a freed slot goes to a waiting
\* goroutine sooner or later, timers fire, and exec.CommandContext with WaitDelay
\* ends an ssh or scp whose context has expired.  Nothing says that scp, ssh or
\* the remote command ends before its deadline, or that a machine answers.
Fairness ==
  /\ \A h \in Hosts :
       /\ SF_vars(Admit(h))
       /\ WF_vars(Reject(h) \/ StartHost(h))
       /\ WF_vars(Deadline(h))
       /\ WF_vars(expired[h] /\ (ScpFails(h) \/ SshFails(h)))
       /\ WF_vars(CleanupOk(h) \/ CleanupFails(h))
       /\ WF_vars(Report(h))
       /\ WF_vars(Release(h))
  /\ WF_vars(Return)

Spec == Init /\ [][Next]_vars
LiveSpec == Spec /\ Fairness

-------------------------------------------------------------------------------
(* Summarize. *)

Unreachable(r) == ~r.reachable \/ r.worst = "ERROR"
HostsWhere(P(_)) == Cardinality({h \in Hosts : P(results[h])})

\* Counts, tallied with a switch that looks at Unreachable first.
CountUnreachable == HostsWhere(Unreachable)
CountOf(worst) == HostsWhere(LAMBDA r : ~Unreachable(r) /\ r.worst = worst)

WorstExitCode ==
  IF \E h \in Hosts : results[h].worst \in {"CRIT", "ERROR"} \/ ~results[h].reachable
  THEN 2
  ELSE IF \E h \in Hosts : results[h].worst = "WARN" THEN 1 ELSE 0

\* AggregateIssues
Having(i) == {h \in Hosts : i \in results[h].issues}
ReachableHosts == {h \in Hosts : ~Unreachable(results[h])}

\* Faulty: the share is taken of all hosts, also those nothing is known of.
ScopeOfAll(i) ==
  IF N <= 1 THEN "common"
  ELSE IF Cardinality(Having(i)) = 1 THEN "outlier"
  ELSE IF 2 * Cardinality(Having(i)) > N THEN "fleet-wide"
  ELSE "common"

\* classifyScope
Scope(i) ==
  LET reachable == Cardinality(ReachableHosts)
      count == Cardinality(Having(i)) IN
  IF reachable <= 1 THEN "common"
  ELSE IF count = 1 THEN "outlier"
  ELSE IF 2 * count > reachable THEN "fleet-wide"
  ELSE "common"

-------------------------------------------------------------------------------
(* Properties. *)

\* No more than Concurrency hosts are worked on at a time, cleanup included:
\* Options.Concurrency, "max hosts in flight".
InFlightBounded ==
  Cardinality({h \in Hosts : pc[h] \in Working}) <= Concurrency

\* Run returns no slice with an element still to be written, and no goroutine
\* touches a machine or the slice after it.
CompleteOnReturn ==
  returned => \A h \in Hosts : results[h] # Zero /\ pc[h] \in {"sent", "gone"}

\* A machine that carries dsd-fleet after the run is one the results speak of:
\* an upload or a cleanup for it has failed.  This is what is left of "nothing
\* left behind", also when several hosts of the list share the machine.
NothingLeftUnreported ==
  returned =>
    \A m \in Machines : file[m] # "none" =>
      \E h \in Hosts : /\ MachineOf[h] = m
                       /\ results[h].error = "scp" \/ results[h].cleanupError

\* A wedged health command does not spoil the cleanup: its deadline alone never
\* makes the removal fail, only a machine that has failed to answer or another
\* user of the same machine.
CleanupErrorHasItsOwnCause ==
  \A h \in Hosts :
    results[h].cleanupError => MachineOf[h] \in troubled \/ Shared(h)

\* The exit code, computed by a loop of its own, is that of the counts the same
\* summary prints, and the counts cover every host once.
CountsAgree ==
  /\ CountUnreachable + CountOf("CRIT") + CountOf("WARN") + CountOf("OK") = N
  /\ WorstExitCode = 2 <=> CountUnreachable + CountOf("CRIT") > 0
  /\ WorstExitCode = 0 <=> CountOf("OK") = N

\* What the scopes promise: a group is fleet-wide when, of the hosts that gave an
\* answer, at least two and more than half have the issue; an outlier is the one
\* host of several that has it.
ScopesMeanWhatTheySay ==
  \A i \in Issues : Having(i) # {} =>
    /\ Having(i) \subseteq ReachableHosts
    /\ Scope(i) = "fleet-wide" <=>
         /\ Cardinality(Having(i)) > 1
         /\ Cardinality(Having(i)) > Cardinality(ReachableHosts \ Having(i))
    /\ Scope(i) = "outlier" <=> Cardinality(Having(i)) = 1 /\ ReachableHosts # Having(i)

\* The summary of a run agrees with its results and with itself: counts, exit code
\* and scopes come from three loops over the results.
SummaryIsTrue == returned => CountsAgree /\ ScopesMeanWhatTheySay

\* Run returns, whatever the machines do: no slot is lost and no host waits for
\* another for ever.
EventuallyReturns == <>returned
===============================================================================
