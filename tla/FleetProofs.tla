------------------------------ MODULE FleetProofs ------------------------------
(***************************************************************************)
(* Theorems about Fleet, for any host list, any slots, any machines and    *)
(* any reports, whatever the machines do.                                  *)
(***************************************************************************)
EXTENDS Fleet, FiniteSetTheorems, TLAPS

\* Goroutines that hold a slot, and goroutines that have sent on done.
Held == {h \in Hosts : pc[h] \notin {"waiting", "gone"}}
Told == {h \in Hosts : pc[h] \in {"sent", "gone"}}

\* The two channels hold what the goroutines have put there.
Counted == sem = Cardinality(Held) /\ done = Cardinality(Told)

\* A host's element of results is written exactly at the end of its work.
Written ==
  \A h \in Hosts : IF pc[h] \in {"report", "sent", "gone"}
                   THEN results[h] \in Result ELSE results[h] = Zero

\* Only a --bin run uploads and cleans up.
Uploading == \A h \in Hosts : pc[h] \in {"scp", "cleanup"} => bin

\* A binary on a machine is one a host is working with, or one a result speaks of.
Explained ==
  \A m \in Machines : file[m] # "none" =>
    \E h \in Hosts : /\ MachineOf[h] = m
                     /\ \/ bin /\ pc[h] \in {"ssh", "running", "cleanup"}
                        \/ results[h].error = "scp"
                        \/ results[h].cleanupError

Troubles == Machines \ answers \subseteq troubled

IInv ==
  /\ TypeOK
  /\ Counted
  /\ Written
  /\ Uploading
  /\ Explained
  /\ Troubles
  /\ CleanupErrorHasItsOwnCause
  /\ returned => done = N

-------------------------------------------------------------------------------
(* Facts about the data. *)

LEMMA HostsFinite ==
  /\ IsFiniteSet(Hosts)
  /\ Cardinality(Hosts) = N
BY NAssumption, FS_Interval DEF Hosts

\* Every outcome of a host is a Result, and no Result is the slice's zero value.
LEMMA Outcomes ==
  /\ \A o \in Reports \cup {NoOutput}, failed \in BOOLEAN :
       Verdict(o, failed) \in Result /\ Verdict(o, failed).cleanupError = failed
  /\ \A error \in Errors, failed \in BOOLEAN :
       /\ Unchecked(error, failed) \in Result
       /\ Unchecked(error, failed).cleanupError = failed
       /\ Unchecked(error, failed).error = error
  /\ Zero \notin Result
  /\ Zero.error = "none" /\ Zero.cleanupError = FALSE
<1>1. \A error \in Errors, failed \in BOOLEAN :
        /\ Unchecked(error, failed) \in Result
        /\ Unchecked(error, failed).cleanupError = failed
        /\ Unchecked(error, failed).error = error
  BY DEF Unchecked, Result, Errors
<1>2. ASSUME NEW o \in Reports \cup {NoOutput}, NEW failed \in BOOLEAN
      PROVE  Verdict(o, failed) \in Result /\ Verdict(o, failed).cleanupError = failed
  <2>1. CASE o \in Reports
    <3>1. Worst(o) \in {"OK", "WARN", "CRIT", "ERROR"}
      BY DEF Worst
    <3> QED
      BY <2>1, <3>1, ReportsAssumption DEF Verdict, Result, Errors
  <2>2. CASE o \notin Reports
    BY <1>1, <2>2 DEF Verdict, Errors
  <2> QED
    BY <2>1, <2>2
<1>3. Zero \notin Result
  <2>1. Zero.worst = "" /\ \A r \in Result : r.worst # ""
    BY DEF Zero, Result
  <2> QED
    BY <2>1
<1> QED
  BY <1>1, <1>2, <1>3 DEF Zero

\* What moving one host does to the two counts.
LEMMA CountsOfAMove ==
  ASSUME TypeOK, Counted, NEW h \in Hosts, NEW where, Goto(h, where)
  PROVE  /\ (pc[h] = "waiting" /\ where = "admitted") =>
              Cardinality(Held') = sem + 1 /\ Cardinality(Told') = done
         /\ (pc[h] = "report" /\ where = "sent") =>
              Cardinality(Held') = sem /\ Cardinality(Told') = done + 1
         /\ (pc[h] = "sent" /\ where = "gone") =>
              Cardinality(Held') = sem - 1 /\ Cardinality(Told') = done
         /\ (/\ pc[h] \in Working \cup {"admitted"}
             /\ where \in Working \cup {"report"}) =>
              Cardinality(Held') = sem /\ Cardinality(Told') = done
<1>1. /\ Held \in SUBSET Hosts /\ Told \in SUBSET Hosts
      /\ IsFiniteSet(Held) /\ IsFiniteSet(Told)
  BY HostsFinite, FS_Subset DEF Held, Told
<1>2. /\ pc'[h] = where
      /\ \A g \in Hosts \ {h} : pc'[g] = pc[g]
  BY DEF Goto, TypeOK
<1>3. ASSUME pc[h] = "waiting",
             where = "admitted"
      PROVE  Cardinality(Held') = sem + 1 /\ Cardinality(Told') = done
  <2>1. Held' = Held \cup {h} /\ h \notin Held /\ Told' = Told
    BY <1>2, <1>3 DEF Held, Told
  <2> QED
    BY <1>1, <2>1, FS_AddElement DEF Counted
<1>4. ASSUME pc[h] = "report",
             where = "sent"
      PROVE  Cardinality(Held') = sem /\ Cardinality(Told') = done + 1
  <2>1. Held' = Held /\ Told' = Told \cup {h} /\ h \notin Told
    BY <1>2, <1>4 DEF Held, Told
  <2> QED
    BY <1>1, <2>1, FS_AddElement DEF Counted
<1>5. ASSUME pc[h] = "sent",
             where = "gone"
      PROVE  Cardinality(Held') = sem - 1 /\ Cardinality(Told') = done
  <2>1. Held' = Held \ {h} /\ h \in Held /\ Told' = Told
    BY <1>2, <1>5 DEF Held, Told
  <2> QED
    BY <1>1, <2>1, FS_RemoveElement DEF Counted
<1>6. ASSUME pc[h] \in Working \cup {"admitted"},
             where \in Working \cup {"report"}
      PROVE  Cardinality(Held') = sem /\ Cardinality(Told') = done
  <2>1. Held' = Held /\ Told' = Told
    BY <1>2, <1>6 DEF Held, Told, Working
  <2> QED
    BY <2>1 DEF Counted
<1> QED
  BY <1>3, <1>4, <1>5, <1>6

-------------------------------------------------------------------------------
LEMMA InvariantInitially == Init => IInv
<1> SUFFICES ASSUME Init PROVE IInv
  OBVIOUS
<1>1. TypeOK
  <2>1. 0 \in 0..Concurrency /\ 0 \in 0..N /\ 0 \in 0..MaxOutages
    BY NAssumption, ConcurrencyAssumption, MaxOutagesAssumption
  <2>2. file \in [Machines -> {"none", "partial", "whole"}]
    BY DEF Init
  <2>3. pc \in [Hosts -> Working \cup {"waiting", "admitted", "report", "sent", "gone"}]
    BY DEF Init
  <2> QED
    BY <2>1, <2>2, <2>3 DEF Init, TypeOK
<1>2. Counted
  <2>1. Held = {} /\ Told = {}
    BY DEF Init, Held, Told
  <2> QED
    BY <2>1, FS_EmptySet DEF Init, Counted
<1>3. Written /\ Uploading /\ Explained /\ Troubles
  BY DEF Init, Written, Uploading, Explained, Troubles
<1>4. CleanupErrorHasItsOwnCause
  BY DEF Init, CleanupErrorHasItsOwnCause, Zero
<1> QED
  BY <1>1, <1>2, <1>3, <1>4 DEF Init, IInv

-------------------------------------------------------------------------------
(* Types and counts. *)

\* A goroutine that moves on leaves the counts in step with the channels, and
\* there are never more of them than slots or hosts.
LEMMA CountedStep ==
  ASSUME TypeOK, Counted, [Next]_vars
  PROVE  Counted'
<1> USE DEF Working
<1>1. ASSUME NEW h \in Hosts, Deadline(h) PROVE Counted'
  BY <1>1 DEF Deadline, Counted, Held, Told, chan
<1>2. ASSUME NEW h \in Hosts, Admit(h) PROVE Counted'
  BY <1>2, CountsOfAMove DEF Admit, Counted, chan
<1>3. ASSUME NEW h \in Hosts, Reject(h) PROVE Counted'
  BY <1>3, CountsOfAMove DEF Reject, Finish, Counted, chan
<1>4. ASSUME NEW h \in Hosts, StartHost(h) PROVE Counted'
  BY <1>4, CountsOfAMove DEF StartHost, Counted, chan
<1>5. ASSUME NEW h \in Hosts, ScpOk(h) PROVE Counted'
  BY <1>5, CountsOfAMove DEF ScpOk, Counted, chan
<1>6. ASSUME NEW h \in Hosts, ScpFails(h) PROVE Counted'
  BY <1>6, CountsOfAMove DEF ScpFails, Finish, Counted, chan
<1>7. ASSUME NEW h \in Hosts, SshConnects(h) PROVE Counted'
  <2>1. \E where \in {"running", "cleanup", "report"} : Goto(h, where)
    BY <1>7 DEF SshConnects, SshEnds, Finish
  <2> QED
    BY <1>7, <2>1, CountsOfAMove DEF SshConnects, Counted, chan
<1>8. ASSUME NEW h \in Hosts, RemoteEnds(h) \/ SshFails(h) PROVE Counted'
  <2>1. \E where \in {"cleanup", "report"} : Goto(h, where)
    BY <1>8 DEF RemoteEnds, SshFails, SshEnds, Finish
  <2> QED
    BY <1>8, <2>1, CountsOfAMove DEF RemoteEnds, SshFails, Counted, chan
<1>9. ASSUME NEW h \in Hosts, CleanupOk(h) \/ CleanupFails(h) PROVE Counted'
  BY <1>9, CountsOfAMove DEF CleanupOk, CleanupFails, Finish, Counted, chan
<1>10. ASSUME NEW h \in Hosts, Report(h) PROVE Counted'
  BY <1>10, CountsOfAMove DEF Report, Counted
<1>11. ASSUME NEW h \in Hosts, Release(h) PROVE Counted'
  BY <1>11, CountsOfAMove DEF Release, Counted, chan
<1>12. ASSUME (\E m \in Machines : StopAnswering(m) \/ AnswerAgain(m)) \/ Return \/ UNCHANGED vars
       PROVE  Counted'
  <2>1. UNCHANGED <<pc, sem, done>>
    BY <1>12 DEF StopAnswering, AnswerAgain, Return, vars, chan
  <2> QED
    BY <2>1 DEF Counted, Held, Told
<1> QED
  BY <1>1, <1>2, <1>3, <1>4, <1>5, <1>6, <1>7, <1>8, <1>9, <1>10, <1>11, <1>12
     DEF Next, Host, Idle

\* The values of the data a step writes have their types.
LEMMA TypeStep ==
  ASSUME TypeOK, Counted, Counted', [Next]_vars
  PROVE  TypeOK'
<1>1. done' \in 0..N
  <2>1. Told' \in SUBSET Hosts
    BY DEF Told
  <2>2. Cardinality(Told') <= N /\ Cardinality(Told') \in Nat
    BY <2>1, HostsFinite, FS_Subset, FS_CardinalityType
  <2> QED
    BY <2>2, NAssumption DEF Counted
<1>2. sem' \in 0..Concurrency
  <2>1. sem' \in Nat
    <3>1. Held' \in SUBSET Hosts
      BY DEF Held
    <3> QED
      BY <3>1, HostsFinite, FS_Subset, FS_CardinalityType DEF Counted
  <2>2. sem' <= sem \/ (sem < Concurrency /\ sem' = sem + 1)
    <3> USE DEF TypeOK, chan
    <3>1. ASSUME NEW h \in Hosts, Host(h) PROVE sem' = sem \/ sem' = sem - 1
                                         \/ (sem < Concurrency /\ sem' = sem + 1)
      BY <3>1 DEF Host, Deadline, Admit, Reject, StartHost, ScpOk, ScpFails, SshConnects,
                  RemoteEnds, SshFails, CleanupOk, CleanupFails, Report, Release
    <3>2. ASSUME ~\E h \in Hosts : Host(h) PROVE sem' = sem
      BY <3>2 DEF Next, StopAnswering, AnswerAgain, Return, Idle, vars
    <3> QED
      BY <3>1, <3>2, ConcurrencyAssumption
  <2> QED
    BY <2>1, <2>2, ConcurrencyAssumption DEF TypeOK
<1> USE <1>1, <1>2, Outcomes, MachineOfAssumption
    DEF TypeOK, input, chan, world, Goto, Working
<1>3. ASSUME NEW h \in Hosts, Deadline(h) PROVE TypeOK'
  BY <1>3 DEF Deadline
<1>4. ASSUME NEW h \in Hosts, Admit(h) \/ StartHost(h) \/ Report(h) \/ Release(h) PROVE TypeOK'
  BY <1>4 DEF Admit, StartHost, Report, Release
<1>5. ASSUME NEW h \in Hosts, Reject(h) PROVE TypeOK'
  BY <1>5 DEF Reject, Finish, Errors
<1>6. ASSUME NEW h \in Hosts, ScpOk(h) PROVE TypeOK'
  BY <1>6 DEF ScpOk
<1>7. ASSUME NEW h \in Hosts, ScpFails(h) PROVE TypeOK'
  <2>1. file' \in [Machines -> {"none", "partial", "whole"}]
    BY <1>7 DEF ScpFails
  <2>2. Unchecked("scp", FALSE) \in Result
    BY DEF Errors
  <2>3. Finish(h, Unchecked("scp", FALSE)) /\ UNCHANGED <<input, out, returned, world>>
    BY <1>7 DEF ScpFails
  <2> QED
    BY <2>1, <2>2, <2>3 DEF Finish
<1>8. ASSUME NEW h \in Hosts, NEW o \in Reports \cup {NoOutput}, SshEnds(h, o)
      PROVE  /\ pc' \in [Hosts -> Working \cup {"waiting", "admitted", "report", "sent", "gone"}]
             /\ out' \in [Hosts -> Reports \cup {NoOutput}]
             /\ results' \in [Hosts -> Result \cup {Zero}]
             /\ expired' \in [Hosts -> BOOLEAN]
  BY <1>8 DEF SshEnds, Finish
<1>9. ASSUME NEW h \in Hosts, SshConnects(h) PROVE TypeOK'
  <2>1. CASE SshEnds(h, NoOutput)
    BY <1>8, <1>9, <2>1 DEF SshConnects
  <2>2. CASE Goto(h, "running") /\ UNCHANGED <<out, results, expired>>
    BY <1>9, <2>2 DEF SshConnects
  <2> QED
    BY <1>9, <2>1, <2>2 DEF SshConnects
<1>10. ASSUME NEW h \in Hosts, RemoteEnds(h) \/ SshFails(h) PROVE TypeOK'
  <2>1. \E o \in Reports \cup {NoOutput} : SshEnds(h, o)
    BY <1>10 DEF RemoteEnds, SshFails
  <2>2. UNCHANGED <<input, chan, file, world>>
    BY <1>10 DEF RemoteEnds, SshFails
  <2> QED
    BY <1>8, <2>1, <2>2
<1>11. ASSUME NEW h \in Hosts, CleanupOk(h) \/ CleanupFails(h) PROVE TypeOK'
  <2>1. file' \in [Machines -> {"none", "partial", "whole"}]
    <3>1. CASE CleanupOk(h)
      BY <3>1 DEF CleanupOk
    <3>2. CASE CleanupFails(h)
      <4>1. PICK f \in {file[MachineOf[h]], "none"} :
              file' = [file EXCEPT ![MachineOf[h]] = f]
        BY <3>2 DEF CleanupFails
      <4> QED
        BY <4>1
    <3> QED
      BY <1>11, <3>1, <3>2
  <2>2. PICK failed \in BOOLEAN : Finish(h, Verdict(out[h], failed))
    BY <1>11 DEF CleanupOk, CleanupFails
  <2>3. Verdict(out[h], failed) \in Result
    OBVIOUS
  <2>4. UNCHANGED <<input, out, returned, world>>
    BY <1>11 DEF CleanupOk, CleanupFails
  <2> QED
    BY <2>1, <2>2, <2>3, <2>4 DEF Finish
<1>12. ASSUME NEW m \in Machines, StopAnswering(m) \/ AnswerAgain(m) PROVE TypeOK'
  BY <1>12, MaxOutagesAssumption DEF StopAnswering, AnswerAgain
<1>13. ASSUME Return \/ UNCHANGED vars PROVE TypeOK'
  BY <1>13 DEF Return, vars
<1> QED
  BY <1>3, <1>4, <1>5, <1>6, <1>7, <1>9, <1>10, <1>11, <1>12, <1>13 DEF Next, Host, Idle

-------------------------------------------------------------------------------
(* The results. *)

LEMMA WrittenStep ==
  ASSUME TypeOK, Written, Uploading, [Next]_vars
  PROVE  Written' /\ Uploading'
<1> USE Outcomes DEF TypeOK, Written, Uploading, Goto, Working, Errors, input
<1>1. ASSUME NEW h \in Hosts, NEW r \in Result, Finish(h, r), UNCHANGED bin
      PROVE  Written' /\ Uploading'
  BY <1>1 DEF Finish
<1>2. ASSUME NEW h \in Hosts, NEW where \in Working, Goto(h, where), UNCHANGED <<results, bin>>,
             pc[h] \notin {"report", "sent", "gone"}, where \in {"scp", "cleanup"} => bin
      PROVE  Written' /\ Uploading'
  BY <1>2
<1>3. ASSUME NEW h \in Hosts, NEW o \in Reports \cup {NoOutput}, SshEnds(h, o), UNCHANGED bin,
             pc[h] \in {"ssh", "running"}
      PROVE  Written' /\ Uploading'
  <2>1. CASE bin
    BY <1>2, <1>3, <2>1 DEF SshEnds
  <2>2. CASE ~bin
    BY <1>1, <1>3, <2>2 DEF SshEnds
  <2> QED
    BY <2>1, <2>2
<1>4. ASSUME NEW h \in Hosts, Deadline(h) PROVE Written' /\ Uploading'
  BY <1>4 DEF Deadline
<1>5. ASSUME NEW h \in Hosts, Admit(h) \/ Report(h) \/ Release(h) PROVE Written' /\ Uploading'
  <2>1. UNCHANGED <<bin, results>>
    BY <1>5 DEF Admit, Report, Release
  <2>2. CASE pc[h] = "waiting" /\ Goto(h, "admitted")
    BY <2>1, <2>2
  <2>3. CASE pc[h] = "report" /\ Goto(h, "sent")
    BY <2>1, <2>3
  <2>4. CASE pc[h] = "sent" /\ Goto(h, "gone")
    BY <2>1, <2>4
  <2> QED
    BY <1>5, <2>2, <2>3, <2>4 DEF Admit, Report, Release
<1>6. ASSUME NEW h \in Hosts, Reject(h) \/ ScpFails(h) PROVE Written' /\ Uploading'
  BY <1>1, <1>6 DEF Reject, ScpFails
<1>7. ASSUME NEW h \in Hosts, StartHost(h) \/ ScpOk(h) PROVE Written' /\ Uploading'
  BY <1>2, <1>7 DEF StartHost, ScpOk
<1>8. ASSUME NEW h \in Hosts, SshConnects(h) PROVE Written' /\ Uploading'
  <2>1. CASE SshEnds(h, NoOutput)
    BY <1>3, <1>8, <2>1 DEF SshConnects
  <2>2. CASE Goto(h, "running") /\ UNCHANGED <<out, results, expired>>
    BY <1>2, <1>8, <2>2 DEF SshConnects
  <2> QED
    BY <1>8, <2>1, <2>2 DEF SshConnects
<1>9. ASSUME NEW h \in Hosts, RemoteEnds(h) \/ SshFails(h) PROVE Written' /\ Uploading'
  BY <1>3, <1>9 DEF RemoteEnds, SshFails
<1>10. ASSUME NEW h \in Hosts, CleanupOk(h) \/ CleanupFails(h) PROVE Written' /\ Uploading'
  <2>1. PICK failed \in BOOLEAN : Finish(h, Verdict(out[h], failed))
    BY <1>10 DEF CleanupOk, CleanupFails
  <2> QED
    BY <1>1, <1>10, <2>1 DEF CleanupOk, CleanupFails
<1>11. ASSUME (\E m \in Machines : StopAnswering(m) \/ AnswerAgain(m)) \/ Return \/ UNCHANGED vars
       PROVE  Written' /\ Uploading'
  BY <1>11 DEF StopAnswering, AnswerAgain, Return, vars
<1> QED
  BY <1>4, <1>5, <1>6, <1>7, <1>8, <1>9, <1>10, <1>11 DEF Next, Host, Idle

-------------------------------------------------------------------------------
(* What is left on the machines. *)

\* A step that keeps the binary files and neither loses a worker nor rewrites a
\* result leaves every binary explained.
LEMMA ExplainedKept ==
  ASSUME Explained, UNCHANGED <<file, bin>>,
         \A h \in Hosts :
           /\ pc[h] \in {"ssh", "running", "cleanup"} /\ bin =>
                pc'[h] \in {"ssh", "running", "cleanup"}
           /\ results[h].error = "scp" => results'[h].error = "scp"
           /\ results[h].cleanupError => results'[h].cleanupError
  PROVE  Explained'
BY Zenon DEF Explained

\* A machine other than that of the one host that moves is explained as before.
LEMMA ExplainedElsewhere ==
  ASSUME TypeOK, Explained, NEW h \in Hosts, NEW m \in Machines, m # MachineOf[h],
         UNCHANGED bin, file'[m] = file[m], file'[m] # "none",
         \A g \in Hosts \ {h} : pc'[g] = pc[g] /\ results'[g] = results[g]
  PROVE  \E g \in Hosts : /\ MachineOf[g] = m
                          /\ \/ bin' /\ pc'[g] \in {"ssh", "running", "cleanup"}
                             \/ results'[g].error = "scp"
                             \/ results'[g].cleanupError
<1>1. PICK g \in Hosts : /\ MachineOf[g] = m
                         /\ \/ bin /\ pc[g] \in {"ssh", "running", "cleanup"}
                            \/ results[g].error = "scp"
                            \/ results[g].cleanupError
  BY DEF Explained
<1>2. g \in Hosts \ {h}
  BY <1>1
<1>3. pc'[g] = pc[g] /\ results'[g] = results[g]
  BY <1>2
<1>4. CASE bin /\ pc[g] \in {"ssh", "running", "cleanup"}
  BY <1>1, <1>3, <1>4
<1>5. CASE results[g].error = "scp"
  BY <1>1, <1>3, <1>5
<1>6. CASE results[g].cleanupError
  BY <1>1, <1>3, <1>6, Zenon
<1> QED
  BY <1>1, <1>4, <1>5, <1>6, Zenon

LEMMA ExplainedStep ==
  ASSUME TypeOK, Written, Uploading, Explained, [Next]_vars
  PROVE  Explained'
<1> USE DEF Working, Goto
\* The result of a host that has not finished yet explains nothing.
<1>1. ASSUME NEW h \in Hosts, pc[h] \in Working \cup {"waiting", "admitted"}
      PROVE  results[h].error # "scp" /\ ~results[h].cleanupError
  <2>1. results[h] = Zero
    BY <1>1 DEF Written
  <2> QED
    BY <2>1, Outcomes
\* A host that finishes without having had the binary on its machine.
<1>2. ASSUME NEW h \in Hosts, NEW r, Finish(h, r), UNCHANGED <<file, bin>>,
             pc[h] \in Working \cup {"admitted"},
             ~(bin /\ pc[h] \in {"ssh", "running", "cleanup"})
      PROVE  Explained'
  <2>1. \A g \in Hosts \ {h} : pc'[g] = pc[g] /\ results'[g] = results[g]
    BY <1>2 DEF Finish, TypeOK
  <2>2. results[h].error # "scp" /\ ~results[h].cleanupError
    BY <1>1, <1>2
  <2>3. \A g \in Hosts :
           /\ pc[g] \in {"ssh", "running", "cleanup"} /\ bin =>
                pc'[g] \in {"ssh", "running", "cleanup"}
           /\ results[g].error = "scp" => results'[g].error = "scp"
           /\ results[g].cleanupError => results'[g].cleanupError
    <3> SUFFICES ASSUME NEW g \in Hosts
                 PROVE  /\ pc[g] \in {"ssh", "running", "cleanup"} /\ bin =>
                             pc'[g] \in {"ssh", "running", "cleanup"}
                        /\ results[g].error = "scp" => results'[g].error = "scp"
                        /\ results[g].cleanupError => results'[g].cleanupError
      OBVIOUS
    <3>1. CASE g = h
      BY <1>2, <2>2, <3>1, Zenon
    <3>2. CASE g # h
      BY <2>1, <3>2, Zenon
    <3> QED
      BY <3>1, <3>2
  <2> QED
    BY <1>2, <2>3, ExplainedKept
\* A host that finishes with a result that speaks of its machine.
<1>3. ASSUME NEW h \in Hosts, NEW r, Finish(h, r), UNCHANGED bin,
             \A m \in Machines \ {MachineOf[h]} : file'[m] = file[m],
             r.error = "scp" \/ r.cleanupError
      PROVE  Explained'
  <2>1. \A g \in Hosts \ {h} : pc'[g] = pc[g] /\ results'[g] = results[g]
    BY <1>3 DEF Finish, TypeOK
  <2>2. results'[h] = r
    BY <1>3 DEF Finish, TypeOK
  <2> SUFFICES ASSUME NEW m \in Machines, file'[m] # "none"
               PROVE  \E g \in Hosts : /\ MachineOf[g] = m
                                       /\ \/ bin' /\ pc'[g] \in {"ssh", "running", "cleanup"}
                                          \/ results'[g].error = "scp"
                                          \/ results'[g].cleanupError
    BY DEF Explained
  <2>3. CASE m = MachineOf[h]
    BY <1>3, <2>2, <2>3, Zenon
  <2>4. CASE m # MachineOf[h]
    BY <1>3, <2>1, <2>4, ExplainedElsewhere
  <2> QED
    BY <2>3, <2>4
\* A host that keeps the binary on its machine, or has just put it there.
<1>4. ASSUME NEW h \in Hosts, NEW where \in {"ssh", "running", "cleanup"}, Goto(h, where),
             UNCHANGED <<bin, results>>, bin,
             \A m \in Machines \ {MachineOf[h]} : file'[m] = file[m]
      PROVE  Explained'
  <2>1. \A g \in Hosts \ {h} : pc'[g] = pc[g] /\ results'[g] = results[g]
    BY <1>4 DEF TypeOK
  <2>2. pc'[h] = where
    BY <1>4 DEF TypeOK
  <2> SUFFICES ASSUME NEW m \in Machines, file'[m] # "none"
               PROVE  \E g \in Hosts : /\ MachineOf[g] = m
                                       /\ \/ bin' /\ pc'[g] \in {"ssh", "running", "cleanup"}
                                          \/ results'[g].error = "scp"
                                          \/ results'[g].cleanupError
    BY DEF Explained
  <2>3. CASE m = MachineOf[h]
    BY <1>4, <2>2, <2>3
  <2>4. CASE m # MachineOf[h]
    BY <1>4, <2>1, <2>4, ExplainedElsewhere
  <2> QED
    BY <2>3, <2>4
\* A host that moves on without a binary and without a result.
<1>5. ASSUME NEW h \in Hosts, NEW where, Goto(h, where), UNCHANGED <<bin, results, file>>,
             ~(bin /\ pc[h] \in {"ssh", "running", "cleanup"})
      PROVE  Explained'
  <2>1. \A g \in Hosts \ {h} : pc'[g] = pc[g]
    BY <1>5 DEF TypeOK
  <2> QED
    BY <1>5, <2>1, ExplainedKept, Zenon
\* The command ends: with --bin the cleanup is next.
<1>6. ASSUME NEW h \in Hosts, NEW o, SshEnds(h, o), UNCHANGED <<bin, file>>,
             pc[h] \in {"ssh", "running"}
      PROVE  Explained'
  <2>1. CASE bin
    BY <1>4, <1>6, <2>1 DEF SshEnds
  <2>2. CASE ~bin
    BY <1>2, <1>6, <2>2 DEF SshEnds
  <2> QED
    BY <2>1, <2>2
<1>7. ASSUME NEW h \in Hosts, Deadline(h) PROVE Explained'
  BY <1>7, ExplainedKept, Zenon DEF Deadline, input
<1>8. ASSUME NEW h \in Hosts, Admit(h) \/ StartHost(h) \/ Report(h) \/ Release(h)
      PROVE  Explained'
  <2>1. pc[h] \notin {"ssh", "running", "cleanup"} /\ UNCHANGED <<bin, results, file>>
    BY <1>8 DEF Admit, StartHost, Report, Release, input
  <2>2. \E where : Goto(h, where)
    BY <1>8 DEF Admit, StartHost, Report, Release
  <2> QED
    BY <1>5, <2>1, <2>2
<1>9. ASSUME NEW h \in Hosts, Reject(h) PROVE Explained'
  BY <1>2, <1>9 DEF Reject, input
<1>10. ASSUME NEW h \in Hosts, ScpOk(h) PROVE Explained'
  <2>1. bin
    BY <1>10 DEF ScpOk, Uploading
  <2>2. \A m \in Machines \ {MachineOf[h]} : file'[m] = file[m]
    BY <1>10 DEF ScpOk, TypeOK
  <2> QED
    BY <1>4, <1>10, <2>1, <2>2 DEF ScpOk, input
<1>11. ASSUME NEW h \in Hosts, ScpFails(h) PROVE Explained'
  <2>1. \A m \in Machines \ {MachineOf[h]} : file'[m] = file[m]
    BY <1>11 DEF ScpFails, TypeOK
  <2>2. Unchecked("scp", FALSE).error = "scp"
    BY DEF Unchecked
  <2> QED
    BY <1>3, <1>11, <2>1, <2>2 DEF ScpFails, input
<1>12. ASSUME NEW h \in Hosts, SshConnects(h) PROVE Explained'
  <2>1. CASE SshEnds(h, NoOutput)
    BY <1>6, <1>12, <2>1 DEF SshConnects, input
  <2>2. CASE Goto(h, "running") /\ UNCHANGED <<out, results, expired>>
    <3>1. CASE bin
      BY <1>4, <1>12, <2>2, <3>1 DEF SshConnects, input
    <3>2. CASE ~bin
      BY <1>5, <1>12, <2>2, <3>2 DEF SshConnects, input
    <3> QED
      BY <3>1, <3>2
  <2> QED
    BY <1>12, <2>1, <2>2 DEF SshConnects
<1>13. ASSUME NEW h \in Hosts, RemoteEnds(h) \/ SshFails(h) PROVE Explained'
  BY <1>6, <1>13 DEF RemoteEnds, SshFails, input
<1>14. ASSUME NEW h \in Hosts, CleanupOk(h) PROVE Explained'
  <2>1. /\ \A g \in Hosts \ {h} : pc'[g] = pc[g] /\ results'[g] = results[g]
        /\ UNCHANGED bin
    BY <1>14 DEF CleanupOk, Finish, TypeOK, input
  <2>2. /\ \A m \in Machines \ {MachineOf[h]} : file'[m] = file[m]
        /\ \A m \in Machines : m = MachineOf[h] => file'[m] = "none"
    BY <1>14 DEF CleanupOk, TypeOK
  <2> SUFFICES ASSUME NEW m \in Machines, file'[m] # "none"
               PROVE  \E g \in Hosts : /\ MachineOf[g] = m
                                       /\ \/ bin' /\ pc'[g] \in {"ssh", "running", "cleanup"}
                                          \/ results'[g].error = "scp"
                                          \/ results'[g].cleanupError
    BY DEF Explained
  <2>3. m # MachineOf[h]
    BY <2>2
  <2> QED
    BY <2>1, <2>2, <2>3, ExplainedElsewhere
<1>15. ASSUME NEW h \in Hosts, CleanupFails(h) PROVE Explained'
  <2>1. \A m \in Machines \ {MachineOf[h]} : file'[m] = file[m]
    BY <1>15 DEF CleanupFails, TypeOK
  <2>2. Verdict(out[h], TRUE).cleanupError
    BY Outcomes DEF TypeOK
  <2> QED
    BY <1>3, <1>15, <2>1, <2>2 DEF CleanupFails, input
<1>16. ASSUME (\E m \in Machines : StopAnswering(m) \/ AnswerAgain(m)) \/ Return \/ UNCHANGED vars
       PROVE  Explained'
  <2>1. UNCHANGED <<bin, pc, results, file>>
    BY <1>16 DEF StopAnswering, AnswerAgain, Return, vars, input
  <2> QED
    BY <2>1, ExplainedKept, Zenon
<1> QED
  BY <1>7, <1>8, <1>9, <1>10, <1>11, <1>12, <1>13, <1>14, <1>15, <1>16 DEF Next, Host, Idle

-------------------------------------------------------------------------------
(* Why cleanups fail. *)

LEMMA CauseStep ==
  ASSUME TypeOK, Troubles, CleanupErrorHasItsOwnCause, [Next]_vars
  PROVE  Troubles' /\ CleanupErrorHasItsOwnCause'
<1> USE MachineOfAssumption DEF Shared
\* Machines come and go; no result changes.
<1>1. ASSUME NEW m \in Machines, StopAnswering(m) \/ AnswerAgain(m)
      PROVE  Troubles' /\ CleanupErrorHasItsOwnCause'
  <2>1. UNCHANGED results /\ troubled \subseteq troubled'
    BY <1>1 DEF StopAnswering, AnswerAgain
  <2>2. Troubles'
    BY <1>1 DEF StopAnswering, AnswerAgain, Troubles
  <2>3. CleanupErrorHasItsOwnCause'
    BY <2>1, Zenon DEF CleanupErrorHasItsOwnCause
  <2> QED
    BY <2>2, <2>3
\* A host finishes, and a cleanup error has a cause.
<1>2. ASSUME NEW h \in Hosts, NEW r, Finish(h, r), UNCHANGED world,
             r.cleanupError => MachineOf[h] \in troubled \/ Shared(h)
      PROVE  Troubles' /\ CleanupErrorHasItsOwnCause'
  <2>1. UNCHANGED <<answers, troubled>>
    BY <1>2 DEF world
  <2>2. results'[h] = r /\ \A g \in Hosts \ {h} : results'[g] = results[g]
    BY <1>2 DEF Finish, TypeOK
  <2>3. ASSUME NEW g \in Hosts, results'[g].cleanupError
        PROVE  MachineOf[g] \in troubled' \/ Shared(g)
    <3>1. CASE g = h
      BY <1>2, <2>1, <2>2, <2>3, <3>1, Zenon
    <3>2. CASE g # h
      <4>1. results[g].cleanupError
        BY <2>2, <2>3, <3>2, Zenon
      <4> QED
        BY <2>1, <4>1, Zenon DEF CleanupErrorHasItsOwnCause
    <3> QED
      BY <3>1, <3>2
  <2>4. CleanupErrorHasItsOwnCause'
    BY <2>3, Zenon DEF CleanupErrorHasItsOwnCause
  <2> QED
    BY <2>1, <2>4 DEF Troubles
\* No result is written.
<1>3. ASSUME UNCHANGED <<results, world>> PROVE Troubles' /\ CleanupErrorHasItsOwnCause'
  <2>1. UNCHANGED <<results, answers, troubled>>
    BY <1>3 DEF world
  <2>2. CleanupErrorHasItsOwnCause'
    BY <2>1, Zenon DEF CleanupErrorHasItsOwnCause
  <2> QED
    BY <2>1, <2>2 DEF Troubles
\* The command ends, with or without a cleanup to come.
<1>4. ASSUME NEW h \in Hosts, NEW o \in Reports \cup {NoOutput}, SshEnds(h, o), UNCHANGED world
      PROVE  Troubles' /\ CleanupErrorHasItsOwnCause'
  <2>1. CASE bin
    BY <1>3, <1>4, <2>1 DEF SshEnds
  <2>2. CASE ~bin
    <3>1. Verdict(o, FALSE).cleanupError = FALSE
      BY Outcomes
    <3> QED
      BY <1>2, <1>4, <2>2, <3>1 DEF SshEnds
  <2> QED
    BY <2>1, <2>2
<1>5. ASSUME NEW h \in Hosts,
             \/ Deadline(h) \/ Admit(h) \/ StartHost(h) \/ ScpOk(h) \/ Report(h) \/ Release(h)
      PROVE  Troubles' /\ CleanupErrorHasItsOwnCause'
  BY <1>3, <1>5 DEF Deadline, Admit, StartHost, ScpOk, Report, Release
<1>6. ASSUME NEW h \in Hosts, Reject(h) \/ ScpFails(h)
      PROVE  Troubles' /\ CleanupErrorHasItsOwnCause'
  <2>1. \E error \in {"invalid", "scp"} : Finish(h, Unchecked(error, FALSE))
    BY <1>6 DEF Reject, ScpFails
  <2>2. \A error : Unchecked(error, FALSE).cleanupError = FALSE
    BY DEF Unchecked
  <2> QED
    BY <1>2, <1>6, <2>1, <2>2 DEF Reject, ScpFails
<1>7. ASSUME NEW h \in Hosts, SshConnects(h) PROVE Troubles' /\ CleanupErrorHasItsOwnCause'
  BY <1>3, <1>4, <1>7 DEF SshConnects
<1>8. ASSUME NEW h \in Hosts, RemoteEnds(h) \/ SshFails(h)
      PROVE  Troubles' /\ CleanupErrorHasItsOwnCause'
  BY <1>4, <1>8 DEF RemoteEnds, SshFails
<1>9. ASSUME NEW h \in Hosts, CleanupOk(h) PROVE Troubles' /\ CleanupErrorHasItsOwnCause'
  <2>1. Verdict(out[h], FALSE).cleanupError = FALSE
    BY Outcomes DEF TypeOK
  <2> QED
    BY <1>2, <1>9, <2>1 DEF CleanupOk
<1>10. ASSUME NEW h \in Hosts, CleanupFails(h) PROVE Troubles' /\ CleanupErrorHasItsOwnCause'
  <2>1. MachineOf[h] \in troubled \/ Shared(h)
    BY <1>10 DEF CleanupFails, Reaches, Troubles
  <2> QED
    BY <1>2, <1>10, <2>1 DEF CleanupFails
<1>11. ASSUME Return \/ UNCHANGED vars PROVE Troubles' /\ CleanupErrorHasItsOwnCause'
  BY <1>3, <1>11 DEF Return, vars, world
<1> QED
  BY <1>1, <1>5, <1>6, <1>7, <1>8, <1>9, <1>10, <1>11 DEF Next, Host, Idle

-------------------------------------------------------------------------------
LEMMA InvariantStep == IInv /\ [Next]_vars => IInv'
<1> SUFFICES ASSUME IInv, [Next]_vars PROVE IInv'
  OBVIOUS
<1>1. Counted'
  BY CountedStep DEF IInv
<1>2. TypeOK'
  BY <1>1, TypeStep DEF IInv
<1>3. Written' /\ Uploading'
  BY WrittenStep DEF IInv
<1>4. Explained'
  BY ExplainedStep DEF IInv
<1>5. Troubles' /\ CleanupErrorHasItsOwnCause'
  BY CauseStep DEF IInv
\* All done are in before Run returns, and no host can send another.
<1>6. returned' => done' = N
  <2>1. CASE Return
    BY <2>1 DEF Return
  <2>2. CASE ~Return
    <3>1. returned' = returned
      <4>1. ASSUME NEW h \in Hosts, Host(h) PROVE returned' = returned
        BY <4>1 DEF Host, Deadline, Admit, Reject, StartHost, ScpOk, ScpFails, SshConnects,
                    RemoteEnds, SshFails, CleanupOk, CleanupFails, Report, Release, chan
      <4>2. ASSUME ~\E h \in Hosts : Host(h) PROVE returned' = returned
        BY <2>2, <4>2 DEF Next, StopAnswering, AnswerAgain, Idle, vars, chan
      <4> QED
        BY <4>1, <4>2
    <3>2. done' = done \/ done' = done + 1
      <4>1. ASSUME NEW h \in Hosts, Host(h) PROVE done' = done \/ done' = done + 1
        BY <4>1 DEF Host, Deadline, Admit, Reject, StartHost, ScpOk, ScpFails, SshConnects,
                    RemoteEnds, SshFails, CleanupOk, CleanupFails, Report, Release, chan
      <4>2. ASSUME ~\E h \in Hosts : Host(h) PROVE done' = done
        BY <2>2, <4>2 DEF Next, StopAnswering, AnswerAgain, Idle, vars, chan
      <4> QED
        BY <4>1, <4>2
    <3> QED
      BY <1>2, <3>1, <3>2, NAssumption DEF IInv, TypeOK
  <2> QED
    BY <2>1, <2>2
<1> QED
  BY <1>1, <1>2, <1>3, <1>4, <1>5, <1>6 DEF IInv

LEMMA InvariantHolds == Spec => []IInv
<1>1. Init => IInv
  BY InvariantInitially
<1>2. IInv /\ [Next]_vars => IInv'
  BY InvariantStep
<1> QED
  BY <1>1, <1>2, PTL DEF Spec

-------------------------------------------------------------------------------
\* The state of a fleet run keeps its type: no channel holds more than its
\* capacity (Run, runHost).
THEOREM TypeCorrect == Spec => []TypeOK
<1>1. IInv => TypeOK
  BY DEF IInv
<1> QED
  BY <1>1, InvariantHolds, PTL

\* Never more than Concurrency hosts in flight (the sem channel of Run).
THEOREM NeverMoreInFlight == Spec => []InFlightBounded
<1>1. IInv => InFlightBounded
  <2> SUFFICES ASSUME IInv PROVE InFlightBounded
    OBVIOUS
  <2> DEFINE Busy == {h \in Hosts : pc[h] \in Working}
  <2>1. Busy \in SUBSET Held /\ Held \in SUBSET Hosts
    BY DEF Held, Working
  <2>2. IsFiniteSet(Held)
    BY <2>1, HostsFinite, FS_Subset
  <2>3. Cardinality(Busy) <= Cardinality(Held) /\ Cardinality(Busy) \in Nat
    BY <2>1, <2>2, FS_Subset, FS_CardinalityType
  <2>4. Cardinality(Held) <= Concurrency
    BY ConcurrencyAssumption DEF IInv, Counted, TypeOK
  <2>5. Cardinality(Held) \in Nat
    BY <2>2, FS_CardinalityType
  <2> QED
    BY <2>3, <2>4, <2>5, ConcurrencyAssumption DEF InFlightBounded
<1> QED
  BY <1>1, InvariantHolds, PTL

\* When Run returns, every element of its slice is written and every goroutine
\* is past its last write (the done channel of Run).
LEMMA AllToldOnReturn == IInv => (returned => \A h \in Hosts : h \in Told)
<1> SUFFICES ASSUME IInv, returned PROVE \A h \in Hosts : h \in Told
  OBVIOUS
<1>1. Told \in SUBSET Hosts /\ Cardinality(Told) = Cardinality(Hosts)
  BY HostsFinite DEF IInv, Counted, Told
<1>2. Told = Hosts
  BY <1>1, HostsFinite, FS_Subset
<1> QED
  BY <1>2

THEOREM ReturnsAWholeSlice == Spec => []CompleteOnReturn
<1>1. IInv => CompleteOnReturn
  <2> SUFFICES ASSUME IInv, returned, NEW h \in Hosts
               PROVE  results[h] # Zero /\ pc[h] \in {"sent", "gone"}
    BY DEF CompleteOnReturn
  <2>1. pc[h] \in {"sent", "gone"}
    BY AllToldOnReturn DEF Told
  <2>2. results[h] \in Result
    BY <2>1 DEF IInv, Written
  <2> QED
    BY <2>1, <2>2, Outcomes
<1> QED
  BY <1>1, InvariantHolds, PTL

\* A binary that is still on a machine after Run is one some result speaks of,
\* whichever uploads, commands and cleanups failed, and whoever shares a machine.
THEOREM LeftoversAreReported == Spec => []NothingLeftUnreported
<1>1. IInv => NothingLeftUnreported
  <2> SUFFICES ASSUME IInv, returned, NEW m \in Machines, file[m] # "none"
               PROVE  \E h \in Hosts : /\ MachineOf[h] = m
                                       /\ results[h].error = "scp" \/ results[h].cleanupError
    BY DEF NothingLeftUnreported
  <2>1. PICK h \in Hosts : /\ MachineOf[h] = m
                           /\ \/ bin /\ pc[h] \in {"ssh", "running", "cleanup"}
                              \/ results[h].error = "scp"
                              \/ results[h].cleanupError
    BY Zenon DEF IInv, Explained
  <2>2. pc[h] \notin {"ssh", "running", "cleanup"}
    BY AllToldOnReturn DEF Told
  <2> QED
    BY <2>1, <2>2, Zenon
<1> QED
  BY <1>1, InvariantHolds, PTL

\* The deadline of the health command alone never makes a cleanup fail.
THEOREM CleanupIsNotPoisoned == Spec => []CleanupErrorHasItsOwnCause
<1>1. IInv => CleanupErrorHasItsOwnCause
  BY DEF IInv
<1> QED
  BY <1>1, InvariantHolds, PTL

-------------------------------------------------------------------------------
(* Summarize. *)

\* A host nothing is known of has no issues.
Silent == \A h \in Hosts : Unreachable(results[h]) => results[h].issues = {}

LEMMA SilentOutcomes ==
  /\ \A error, failed : Unchecked(error, failed).issues = {}
  /\ \A o, failed : Unreachable(Verdict(o, failed)) => Verdict(o, failed).issues = {}
  /\ Zero.issues = {}
<1>1. \A error, failed : Unchecked(error, failed).issues = {}
  BY DEF Unchecked
<1>2. ASSUME NEW o, NEW failed, o \in Reports PROVE ~Unreachable(Verdict(o, failed))
  <2>1. Worst(o) # "ERROR"
    BY DEF Worst
  <2> QED
    BY <1>2, <2>1 DEF Verdict, Unreachable
<1> QED
  BY <1>1, <1>2 DEF Verdict, Zero

\* Only Finish writes the slice, and only with an outcome.
LEMMA SilentStep ==
  ASSUME TypeOK, Silent, [Next]_vars
  PROVE  Silent'
<1> USE SilentOutcomes DEF Silent
<1>1. ASSUME NEW h \in Hosts, NEW r, Finish(h, r), Unreachable(r) => r.issues = {}
      PROVE  Silent'
  <2>1. results' = [results EXCEPT ![h] = r] /\ results \in [Hosts -> Result \cup {Zero}]
    BY <1>1 DEF Finish, TypeOK
  <2>2. \A g \in Hosts : results'[g] = IF g = h THEN r ELSE results[g]
    BY <2>1
  <2> QED
    BY <1>1, <2>2
<1>2. ASSUME UNCHANGED results PROVE Silent'
  BY <1>2
<1>3. ASSUME NEW h \in Hosts, NEW o, SshEnds(h, o) PROVE Silent'
  <2>1. CASE bin
    BY <1>2, <1>3, <2>1 DEF SshEnds
  <2>2. CASE ~bin
    BY <1>1, <1>3, <2>2 DEF SshEnds
  <2> QED
    BY <2>1, <2>2
<1>4. ASSUME NEW h \in Hosts,
             Deadline(h) \/ Admit(h) \/ StartHost(h) \/ ScpOk(h) \/ Report(h) \/ Release(h)
      PROVE  Silent'
  BY <1>2, <1>4 DEF Deadline, Admit, StartHost, ScpOk, Report, Release
<1>5. ASSUME NEW h \in Hosts, Reject(h) \/ ScpFails(h) PROVE Silent'
  BY <1>1, <1>5 DEF Reject, ScpFails
<1>6. ASSUME NEW h \in Hosts, SshConnects(h) \/ RemoteEnds(h) \/ SshFails(h) PROVE Silent'
  BY <1>2, <1>3, <1>6 DEF SshConnects, RemoteEnds, SshFails
<1>7. ASSUME NEW h \in Hosts, CleanupOk(h) \/ CleanupFails(h) PROVE Silent'
  BY <1>1, <1>7 DEF CleanupOk, CleanupFails
<1>8. ASSUME (\E m \in Machines : StopAnswering(m) \/ AnswerAgain(m)) \/ Return \/ UNCHANGED vars
      PROVE  Silent'
  BY <1>2, <1>8 DEF StopAnswering, AnswerAgain, Return, vars
<1> QED
  BY <1>4, <1>5, <1>6, <1>7, <1>8 DEF Next, Host, Idle

LEMMA SilentHolds == Spec => []Silent
<1>1. Init => Silent
  BY SilentOutcomes DEF Init, Silent
<1>2. IInv /\ Silent /\ [Next]_vars => Silent'
  BY SilentStep DEF IInv
<1> QED
  BY <1>1, <1>2, InvariantHolds, PTL DEF Spec

\* Two sets of hosts without a host in common.
LEMMA Apart ==
  ASSUME NEW S \in SUBSET Hosts, NEW T \in SUBSET Hosts, S \cap T = {}
  PROVE  /\ Cardinality(S) \in Nat /\ Cardinality(T) \in Nat
         /\ Cardinality(S \cup T) = Cardinality(S) + Cardinality(T)
         /\ Cardinality(S) = 0 <=> S = {}
<1>1. IsFiniteSet(S) /\ IsFiniteSet(T)
  BY HostsFinite, FS_Subset
<1>2. Cardinality(S) \in Nat /\ Cardinality(T) \in Nat
  BY <1>1, FS_CardinalityType
<1>3. Cardinality(S \cup T) = Cardinality(S) + Cardinality(T) - Cardinality({})
  BY <1>1, FS_Union
<1> QED
  BY <1>1, <1>2, <1>3, FS_EmptySet

\* Every host is counted once: the switch of Summarize takes one branch.
LEMMA CountsOfWrittenResults ==
  ASSUME \A h \in Hosts : results[h] \in Result
  PROVE  CountsAgree
<1> DEFINE U == {h \in Hosts : Unreachable(results[h])}
           At(worst) == {h \in Hosts : ~Unreachable(results[h]) /\ results[h].worst = worst}
           C == At("CRIT")
           W == At("WARN")
           K == At("OK")
<1>1. /\ CountUnreachable = Cardinality(U)
      /\ CountOf("CRIT") = Cardinality(C)
      /\ CountOf("WARN") = Cardinality(W)
      /\ CountOf("OK") = Cardinality(K)
  BY DEF CountUnreachable, CountOf, HostsWhere
<1>2. /\ Hosts = ((U \cup C) \cup W) \cup K
      /\ U \cap C = {} /\ (U \cup C) \cap W = {} /\ ((U \cup C) \cup W) \cap K = {}
  BY DEF Unreachable, Result
<1>3. /\ WorstExitCode = 2 <=> U \cup C # {}
      /\ WorstExitCode = 0 <=> U \cup C = {} /\ W = {}
  BY DEF WorstExitCode, Unreachable, Result
<1>4. U \in SUBSET Hosts /\ C \in SUBSET Hosts /\ W \in SUBSET Hosts /\ K \in SUBSET Hosts
  OBVIOUS
<1> HIDE DEF U, C, W, K
<1>5. Cardinality(U \cup C) = Cardinality(U) + Cardinality(C)
  BY <1>2, <1>4, Apart
<1>6. Cardinality((U \cup C) \cup W) = Cardinality(U \cup C) + Cardinality(W)
  BY <1>2, <1>4, Apart
<1>7. N = Cardinality((U \cup C) \cup W) + Cardinality(K)
  BY <1>2, <1>4, Apart, HostsFinite
<1>8. /\ Cardinality(U) \in Nat /\ Cardinality(C) \in Nat
      /\ Cardinality(W) \in Nat /\ Cardinality(K) \in Nat
      /\ Cardinality(U \cup C) \in Nat /\ Cardinality((U \cup C) \cup W) \in Nat
  BY <1>4, HostsFinite, FS_Subset, FS_CardinalityType
<1>9. /\ Cardinality(U \cup C) > 0 <=> U \cup C # {}
      /\ Cardinality(W) = 0 <=> W = {}
  <2>1. IsFiniteSet(U \cup C) /\ IsFiniteSet(W)
    BY <1>4, HostsFinite, FS_Subset
  <2> QED
    BY <1>8, <2>1, FS_EmptySet
<1>10. /\ CountUnreachable + CountOf("CRIT") + CountOf("WARN") + CountOf("OK") = N
       /\ WorstExitCode = 2 <=> CountUnreachable + CountOf("CRIT") > 0
  BY <1>1, <1>3, <1>5, <1>6, <1>7, <1>8, <1>9
<1>11. WorstExitCode = 0 <=> CountOf("OK") = N
  BY <1>1, <1>3, <1>5, <1>6, <1>7, <1>8, <1>9
<1> QED
  BY <1>10, <1>11 DEF CountsAgree

\* classifyScope against what the scopes promise.
LEMMA ScopesOfSilentHosts ==
  ASSUME Silent
  PROVE  ScopesMeanWhatTheySay
<1> SUFFICES ASSUME NEW i \in Issues, Having(i) # {}
             PROVE  /\ Having(i) \subseteq ReachableHosts
                    /\ Scope(i) = "fleet-wide" <=>
                         /\ Cardinality(Having(i)) > 1
                         /\ Cardinality(Having(i)) > Cardinality(ReachableHosts \ Having(i))
                    /\ Scope(i) = "outlier" <=>
                         Cardinality(Having(i)) = 1 /\ ReachableHosts # Having(i)
  BY DEF ScopesMeanWhatTheySay
<1> DEFINE H == Having(i)
           R == ReachableHosts
<1>1. H \in SUBSET Hosts /\ R \in SUBSET Hosts /\ H \subseteq R
  BY DEF Silent, Having, ReachableHosts
<1>2. /\ Scope(i) = "fleet-wide" <=>
           Cardinality(R) > 1 /\ Cardinality(H) # 1 /\ 2 * Cardinality(H) > Cardinality(R)
      /\ Scope(i) = "outlier" <=> Cardinality(R) > 1 /\ Cardinality(H) = 1
  <2>1. Cardinality(R) \in Nat /\ Cardinality(H) \in Nat
    BY <1>1, HostsFinite, FS_Subset, FS_CardinalityType
  <2> HIDE DEF H, R
  <2>2. Scope(i) = IF Cardinality(R) <= 1 THEN "common"
                   ELSE IF Cardinality(H) = 1 THEN "outlier"
                   ELSE IF 2 * Cardinality(H) > Cardinality(R) THEN "fleet-wide" ELSE "common"
    BY DEF Scope, H, R
  <2> QED
    BY <2>1, <2>2
<1> HIDE DEF H, R
<1>3. /\ H \cap (R \ H) = {} /\ H \cup (R \ H) = R
      /\ R \ H \in SUBSET Hosts
      /\ R \ H = {} <=> R = H
  BY <1>1
<1>4. /\ Cardinality(R) = Cardinality(H) + Cardinality(R \ H)
      /\ Cardinality(H) \in Nat /\ Cardinality(R \ H) \in Nat
      /\ Cardinality(H) # 0
      /\ Cardinality(R \ H) = 0 <=> R = H
  <2>1. /\ Cardinality(H \cup (R \ H)) = Cardinality(H) + Cardinality(R \ H)
        /\ Cardinality(H) \in Nat /\ Cardinality(R \ H) \in Nat
        /\ Cardinality(H) = 0 <=> H = {}
    BY <1>1, <1>3, Apart
  <2>2. Cardinality(R \ H) = 0 <=> R \ H = {}
    BY <1>1, <1>3, Apart
  <2>3. H # {}
    BY DEF H
  <2> QED
    BY <1>3, <2>1, <2>2, <2>3
<1>5. /\ Scope(i) = "fleet-wide" <=>
           Cardinality(H) > 1 /\ Cardinality(H) > Cardinality(R \ H)
      /\ Scope(i) = "outlier" <=> Cardinality(H) = 1 /\ R # H
  BY <1>2, <1>4
<1> QED
  BY <1>1, <1>5 DEF H, R

\* The summary of a run that has returned agrees with its results and with
\* itself, for any number of hosts, none and one among them (Summarize,
\* WorstExitCode, classifyScope).
THEOREM SummaryAgrees == Spec => []SummaryIsTrue
<1>1. IInv /\ Silent => SummaryIsTrue
  <2> SUFFICES ASSUME IInv, Silent, returned PROVE CountsAgree /\ ScopesMeanWhatTheySay
    BY DEF SummaryIsTrue
  <2>1. \A h \in Hosts : results[h] \in Result
    BY AllToldOnReturn DEF IInv, Written, Told
  <2> QED
    BY <2>1, CountsOfWrittenResults, ScopesOfSilentHosts
<1> QED
  BY <1>1, InvariantHolds, SilentHolds, PTL
===============================================================================
