-------------------------------- MODULE Runner --------------------------------
(***************************************************************************)
(* internal/runner/runner.go: RunAll and runOne.                           *)
(*                                                                         *)
(* Every collector has two goroutines: runOne, which waits, and the body   *)
(* that calls Collect and may panic, return late or never return.  runOne  *)
(* gives up on a body that outlives its deadline and a grace period, so    *)
(* the body of an ABANDONED collector keeps running beside the rest.       *)
(*                                                                         *)
(* Live runs start every runOne at once.  With GapCount set (dsd replay)   *)
(* RunAll runs them one at a time and compares the gap counter of the      *)
(* replay source before and after, to tell which Result hit a gap.         *)
(***************************************************************************)
EXTENDS Naturals, Sequences

CONSTANTS
  N,        \* number of collectors passed to RunAll
  MaxGaps   \* bound on the replay source's gap counter

ASSUME NAssumption == N \in Nat \ {0}
ASSUME MaxGapsAssumption == MaxGaps \in Nat

VARIABLES
  serial,     \* GapCount # nil: RunAll was called for a replay
  pc,         \* where runOne(c) is
  body,       \* where the goroutine that calls c.Collect is
  done,       \* runOne's one-slot done channel: how Collect ended, or "empty"
  expired,    \* tctx's own deadline has passed
  cancelled,  \* the caller's ctx has been cancelled
  outcome,    \* the result r runOne(c) settled on, "none" before
  gaps,       \* source.Replay.gaps: inputs refused because never recorded
  before,     \* the serial loop's snapshot of gaps
  sent,       \* every Result sent on ch, oldest first
  taken,      \* how many of them the caller has received
  closed,     \* ch is closed
  hit         \* history: when c itself first touched an unrecorded input

vars == <<serial, pc, body, done, expired, cancelled, outcome, gaps, before, sent,
          taken, closed, hit>>

bodyVars == <<body, done, hit, gaps>>
chanVars == <<sent, taken, closed>>
timeVars == <<expired, cancelled>>

Collectors == 1..N
\* How Collect ends by itself: it returns (data, an error, or both; a
\* context-respecting one returns ctx.Err()) or it panics.
Ends == {"returned", "panic"}
\* "timeout" is the Result runOne synthesizes for a stuck collector.
Outcomes == Ends \cup {"timeout"}
Results == [col : Collectors, kind : Outcomes, notRecorded : BOOLEAN]

TypeOK ==
  /\ serial \in BOOLEAN
  /\ pc \in [Collectors -> {"idle", "select", "grace", "settled", "sent"}]
  /\ body \in [Collectors -> {"none", "running", "returned"}]
  /\ done \in [Collectors -> Ends \cup {"empty"}]
  /\ expired \in [Collectors -> BOOLEAN]
  /\ cancelled \in BOOLEAN
  /\ outcome \in [Collectors -> Outcomes \cup {"none"}]
  /\ gaps \in Nat
  /\ before \in 0..gaps
  /\ sent \in Seq(Results)
  /\ taken \in 0..Len(sent)
  /\ closed \in BOOLEAN
  /\ hit \in [Collectors -> {"never", "intime", "late"}]
  /\ \A c \in Collectors :
       outcome[c] \in Outcomes <=> pc[c] \in {"settled", "sent"}

Init ==
  /\ serial \in BOOLEAN
  /\ pc = [c \in Collectors |-> "idle"]
  /\ body = [c \in Collectors |-> "none"]
  /\ done = [c \in Collectors |-> "empty"]
  /\ expired = [c \in Collectors |-> FALSE]
  /\ cancelled = FALSE
  /\ outcome = [c \in Collectors |-> "none"]
  /\ gaps = 0
  /\ before = 0
  /\ sent = <<>>
  /\ taken = 0
  /\ closed = FALSE
  /\ hit = [c \in Collectors |-> "never"]

-------------------------------------------------------------------------------
(* The goroutine that runs Collect. *)

\* Faulty: a body that outlives its runOne still reports on ch by itself.
CollectEndsAndReportsLate(c) ==
  /\ body[c] = "running"
  /\ body' = [body EXCEPT ![c] = "returned"]
  /\ \E e \in Ends :
       /\ done' = [done EXCEPT ![c] = e]
       /\ sent' = IF pc[c] = "sent" /\ ~closed
                  THEN Append(sent, [col |-> c, kind |-> e, notRecorded |-> FALSE])
                  ELSE sent
  /\ UNCHANGED <<serial, pc, timeVars, outcome, gaps, before, taken, closed, hit>>

\* Collect returns or panics; either way the deferred recover or the next line
\* fills the one-slot done channel, also when runOne has stopped listening.
CollectEnds(c) ==
  /\ body[c] = "running"
  /\ body' = [body EXCEPT ![c] = "returned"]
  /\ \E e \in Ends : done' = [done EXCEPT ![c] = e]
  /\ UNCHANGED <<serial, pc, timeVars, outcome, gaps, before, chanVars, hit>>

\* Collect reads an input the bundle never recorded (only a Replay source
\* counts): source.Replay.miss.
HitGap(c) ==
  /\ serial
  /\ body[c] = "running"
  /\ gaps < MaxGaps
  /\ gaps' = gaps + 1
  /\ hit' = [hit EXCEPT ![c] =
               IF @ # "never" THEN @
               ELSE IF pc[c] \in {"select", "grace"} THEN "intime" ELSE "late"]
  /\ UNCHANGED <<serial, pc, body, done, timeVars, outcome, before, chanVars>>

-------------------------------------------------------------------------------
(* runOne and the loop around it. *)

MyTurn(c) == serial => \A d \in Collectors : d < c => pc[d] = "sent"

\* Faulty: the serial loop takes its snapshot once, not per collector.
StartWithoutSnapshot(c) ==
  /\ pc[c] = "idle"
  /\ MyTurn(c)
  /\ pc' = [pc EXCEPT ![c] = "select"]
  /\ body' = [body EXCEPT ![c] = "running"]
  /\ UNCHANGED <<serial, done, timeVars, outcome, gaps, before, chanVars, hit>>

\* before := gaps(), the context with its timeout, and the body goroutine.
Start(c) ==
  /\ pc[c] = "idle"
  /\ MyTurn(c)
  /\ before' = IF serial THEN gaps ELSE before
  /\ pc' = [pc EXCEPT ![c] = "select"]
  /\ body' = [body EXCEPT ![c] = "running"]
  /\ UNCHANGED <<serial, done, timeVars, outcome, gaps, chanVars, hit>>

DeadlinePasses(c) ==
  /\ pc[c] = "select"
  /\ ~expired[c]
  /\ expired' = [expired EXCEPT ![c] = TRUE]
  /\ UNCHANGED <<serial, pc, bodyVars, cancelled, outcome, before, chanVars>>

\* The caller's context ends: Ctrl-C, or an MCP tool call's own time limit.
Cancel ==
  /\ ~cancelled
  /\ ~closed
  /\ cancelled' = TRUE
  /\ UNCHANGED <<serial, pc, bodyVars, expired, outcome, before, chanVars>>

\* case r = <-done, in the outer or in the inner select.
TakeResult(c) ==
  /\ pc[c] \in {"select", "grace"}
  /\ done[c] # "empty"
  /\ outcome' = [outcome EXCEPT ![c] = done[c]]
  /\ pc' = [pc EXCEPT ![c] = "settled"]
  /\ UNCHANGED <<serial, bodyVars, timeVars, before, chanVars>>

\* case <-tctx.Done().
SeeDeadline(c) ==
  /\ pc[c] = "select"
  /\ expired[c] \/ cancelled
  /\ pc' = [pc EXCEPT ![c] = "grace"]
  /\ UNCHANGED <<serial, bodyVars, timeVars, outcome, before, chanVars>>

\* Faulty: no inner time.After, the runner waits for the body for good.
GraceNeverPasses(c) ==
  /\ pc[c] = "grace"
  /\ done[c] # "empty"
  /\ outcome' = [outcome EXCEPT ![c] = "timeout"]
  /\ pc' = [pc EXCEPT ![c] = "settled"]
  /\ UNCHANGED <<serial, bodyVars, timeVars, before, chanVars>>

\* Faulty: one select with the grace timer beside the other two cases.
GracePassesFromTheStart(c) ==
  /\ pc[c] \in {"select", "grace"}
  /\ outcome' = [outcome EXCEPT ![c] = "timeout"]
  /\ pc' = [pc EXCEPT ![c] = "settled"]
  /\ UNCHANGED <<serial, bodyVars, timeVars, before, chanVars>>

\* case <-time.After(collectGrace): a synthesized DeadlineExceeded.
GracePasses(c) ==
  /\ pc[c] = "grace"
  /\ outcome' = [outcome EXCEPT ![c] = "timeout"]
  /\ pc' = [pc EXCEPT ![c] = "settled"]
  /\ UNCHANGED <<serial, bodyVars, timeVars, before, chanVars>>

\* Faulty: the Result of a timed-out collector is never marked.
SendIgnoringTimeouts(c) ==
  /\ pc[c] = "settled"
  /\ Len(sent) - taken < N
  /\ sent' = Append(sent, [col |-> c, kind |-> outcome[c],
                           notRecorded |-> serial /\ outcome[c] # "timeout"
                                                  /\ gaps > before])
  /\ pc' = [pc EXCEPT ![c] = "sent"]
  /\ UNCHANGED <<serial, bodyVars, timeVars, outcome, before, taken, closed>>

\* r.NotRecorded = gaps() > before, then ch <- r.  ch has room for N results.
Send(c) ==
  /\ pc[c] = "settled"
  /\ Len(sent) - taken < N
  /\ sent' = Append(sent, [col |-> c, kind |-> outcome[c],
                           notRecorded |-> serial /\ gaps > before])
  /\ pc' = [pc EXCEPT ![c] = "sent"]
  /\ UNCHANGED <<serial, bodyVars, timeVars, outcome, before, taken, closed>>

\* Faulty: ch is closed when every collector has been started (no wg.Wait).
CloseWithoutWait ==
  /\ ~closed
  /\ \A c \in Collectors : pc[c] # "idle"
  /\ closed' = TRUE
  /\ UNCHANGED <<serial, pc, bodyVars, timeVars, outcome, before, sent, taken>>

\* wg.Wait(); close(ch), or the deferred close of the serial loop.
Close ==
  /\ ~closed
  /\ \A c \in Collectors : pc[c] = "sent"
  /\ closed' = TRUE
  /\ UNCHANGED <<serial, pc, bodyVars, timeVars, outcome, before, sent, taken>>

\* One iteration of the caller's for r := range RunAll(...).
Receive ==
  /\ taken < Len(sent)
  /\ taken' = taken + 1
  /\ UNCHANGED <<serial, pc, bodyVars, timeVars, outcome, before, sent, closed>>

\* The caller's loop has ended; abandoned bodies may still be running.
CallerDone == closed /\ taken = Len(sent)

Idle == CallerDone /\ UNCHANGED vars

RunOne(c) ==
  Start(c) \/ TakeResult(c) \/ SeeDeadline(c) \/ GracePasses(c) \/ Send(c)

Next ==
  \/ \E c \in Collectors :
       \/ CollectEnds(c) \/ HitGap(c) \/ DeadlinePasses(c) \/ RunOne(c)
  \/ Cancel
  \/ Close
  \/ Receive
  \/ Idle

SafeSpec == Init /\ [][Next]_vars

\* The Go scheduler runs every runnable goroutine and timers fire.  Collect is
\* given no fairness: a body may hang for good.
Fairness ==
  /\ \A c \in Collectors : WF_vars(RunOne(c)) /\ WF_vars(DeadlinePasses(c))
  /\ WF_vars(Close)
  /\ WF_vars(Receive)

Spec == SafeSpec /\ Fairness

-------------------------------------------------------------------------------
(* Properties. *)

\* runOne of c still has a send on ch ahead of it.
MustSend(c) == pc[c] # "sent"

\* RunAll's channel carries no second Result for a collector (its body ending
\* late must not add one), and once ch is closed every collector has been
\* reported and no goroutine has a send left, which would panic the process.
ExactlyOneResult ==
  /\ \A i, j \in 1..Len(sent) : sent[i].col = sent[j].col => i = j
  /\ closed => \A c \in Collectors :
                 ~MustSend(c) /\ \E i \in 1..Len(sent) : sent[i].col = c

\* runOne blames a collector with a timeout only when its deadline had passed or
\* the caller had given up.
TimeoutOnlyAfterDeadline ==
  \A c \in Collectors : outcome[c] = "timeout" => expired[c] \/ cancelled

\* Replay: no gap is lost.  A collector that touched an unrecorded input before
\* its Result was settled has its Result marked NotRecorded.
NoGapLost ==
  \A i \in 1..Len(sent) : hit[sent[i].col] = "intime" => sent[i].notRecorded

\* c's body was abandoned: its Result was settled while it still ran.
Abandoned(c) == outcome[c] = "timeout"

\* Replay: as long as no earlier collector was abandoned, a marked Result is
\* that of a collector which hit a gap itself.
GapBlamedOnOwner ==
  \A i \in 1..Len(sent) :
    sent[i].notRecorded =>
      \/ hit[sent[i].col] # "never"
      \/ \E d \in Collectors : d < sent[i].col /\ Abandoned(d)

\* The caller's loop ends although bodies may hang: "must NOT be able to hang
\* the whole run" (runOne).
CallerEventuallyDone == <>CallerDone

\* RunAll implements the stream of one Result per collector.
Stream == INSTANCE ResultStream WITH
  owing <- {c \in Collectors : MustSend(c)}, stream <- sent

ImplementsStream == Stream!Spec

===============================================================================
