-------------------------------- MODULE Capture --------------------------------
(***************************************************************************)
(* dsd capture --raw, dsd replay and the tools of dsd mcp (cmd/mcp.go):    *)
(* calls that exchange the process-global input source, run the collectors *)
(* against it and put the earlier source back.                             *)
(*                                                                         *)
(* A collector looks up the active source at each access (curSource in     *)
(* collectors/collector.go).  One that the runner gave up on (see Runner)  *)
(* goes on reading, through whatever source is active by then, also while  *)
(* a recorded bundle is sanitized and written and after the next call has  *)
(* begun.  Calls of the MCP server exclude each other (mcpPipelineMu); the *)
(* commands are the case of a single call.                                 *)
(***************************************************************************)
EXTENDS Naturals, Sequences, SourceRecords

CONSTANTS
  Methods,    \* the methods of source.Source that inputs are read with
  Cols,       \* collectors of a run: 1..n, in registry order
  MaxInputs,  \* every collector makes the accesses 1..MaxInputs, in order
  MaxCalls    \* bound on the calls of one process

ASSUME MethodsAssumption == Methods \subseteq Ops
ASSUME ColsAssumption == Cols \subseteq Nat
ASSUME MaxInputsAssumption == MaxInputs \in Nat \ {0}
ASSUME MaxCallsAssumption == MaxCalls \in Nat

VARIABLES
  op,      \* the method each access uses
  host,    \* what the host answers; a command that is there may also fail
  call,    \* kind, phase and remembered source of every call
  active,  \* activeSource: 0 is source.Live, k the Recorder or Replay of call k
  bundle,  \* the bundle behind the source of call k
  body,    \* the goroutines that run Collect, by call and collector
  result,  \* what runOne of that call settled on
  saved    \* the bundle file

vars == <<op, host, call, active, bundle, body, result, saved>>

Inputs == 1..MaxInputs
Calls == 1..MaxCalls
Bodies == Calls \X Cols
Live == 0
Kinds == {"health", "capture", "replay"}
Busy == {"run", "sanitized", "unsanitized"}

\* A record of the bundle, with the body that made it, the outcome it stands for
\* and whether Sanitize has been over it.
Recs == [flags : SUBSET Fields, by : Bodies, was : Answers, text : {"raw", "clean"}]
Missing == [flags |-> Unrecorded, by |-> <<0, 0>>, was |-> "gap", text |-> "clean"]
EmptyBundle == [i \in Inputs |-> Missing]
NoFile == [state |-> "none", call |-> 0, as |-> "none", recs |-> EmptyBundle]
TornFile == [NoFile EXCEPT !.state = "torn"]
Entries == Recs \cup {Missing}

NotStarted == [at |-> "none", src |-> Live, obs |-> <<>>, via |-> {}]

TypeOK ==
  /\ op \in [Inputs -> Methods]
  /\ host \in [Inputs -> Answers]
  /\ call \in [Calls -> [kind : Kinds \cup {"none"},
                         phase : Busy \cup {"idle", "done"}, prev : {Live} \cup Calls]]
  /\ active \in {Live} \cup Calls
  /\ bundle \in [Calls -> [Inputs -> Entries]]
  /\ body \in [Bodies -> [at : {"none", "between", "reading", "ended"},
                          src : {Live} \cup Calls,
                          obs : Seq(Answers), via : SUBSET ({Live} \cup Calls)]]
  /\ \A b \in Bodies : body[b].at # "ended" => Len(body[b].obs) < MaxInputs
  /\ result \in [Bodies -> {"open", "counted", "timeout"}]
  /\ saved \in [state : {"none", "torn", "whole"}, call : {0} \cup Calls,
               as : {"none", "sanitized", "unsanitized"}, recs : [Inputs -> Entries]]
  /\ saved.state = "whole" => saved.call \in Calls

Init ==
  /\ op \in [Inputs -> Methods]
  /\ host \in [Inputs -> Answers]
  /\ \A i \in Inputs : host[i] \in LiveOutcomes(op[i]) /\ (op[i] = "Run" => host[i] # "failed")
  /\ call = [k \in Calls |-> [kind |-> "none", phase |-> "idle", prev |-> Live]]
  /\ active = Live
  /\ bundle = [k \in Calls |-> EmptyBundle]
  /\ body = [b \in Bodies |-> NotStarted]
  /\ result = [b \in Bodies |-> "open"]
  /\ saved = NoFile

-------------------------------------------------------------------------------
(* The calls. *)

\* RunAll starts the goroutines of a call at once, for a replay one by one.
Started(k, cs) == [b \in Bodies |-> IF b \in {k} \X cs THEN [body[b] EXCEPT !.at = "between"]
                                   ELSE body[b]]

MutexFree == \A j \in Calls : call[j].phase \notin Busy
IsNext(k) == call[k].phase = "idle" /\ \A j \in Calls : j < k => call[j].phase # "idle"

\* Faulty: the calls do not exclude each other.
EnterWithoutMutex(k) == IsNext(k)

\* mcpPipelineMu.Lock().
Enter(k) == IsNext(k) /\ MutexFree

\* toolHealth: the source stays.
BeginHealth(k) ==
  /\ Enter(k)
  /\ call' = [call EXCEPT ![k] = [kind |-> "health", phase |-> "run", prev |-> active]]
  /\ body' = Started(k, Cols)
  /\ UNCHANGED <<op, host, active, bundle, result, saved>>

\* toolCapture, runCaptureRaw: a Recorder over the active source takes its place.
BeginCapture(k) ==
  /\ Enter(k)
  /\ call' = [call EXCEPT ![k] = [kind |-> "capture", phase |-> "run", prev |-> active]]
  /\ active' = k
  /\ body' = Started(k, Cols)
  /\ UNCHANGED <<op, host, bundle, result, saved>>

\* toolReplay, replayBundle: a Replay over the loaded bundle takes its place.
BeginReplay(k) ==
  /\ Enter(k)
  /\ saved.state = "whole"
  /\ call' = [call EXCEPT ![k] = [kind |-> "replay", phase |-> "run", prev |-> active]]
  /\ active' = k
  /\ bundle' = [bundle EXCEPT ![k] = saved.recs]
  /\ UNCHANGED <<op, host, body, result, saved>>

\* loadBundle fails: the call returns its error before it touches the source.
RefuseReplay(k) ==
  /\ Enter(k)
  /\ saved.state # "whole"
  /\ call' = [call EXCEPT ![k] = [kind |-> "replay", phase |-> "done", prev |-> active]]
  /\ UNCHANGED <<op, host, active, bundle, body, result, saved>>

AllSettled(k) == \A c \in Cols : result[<<k, c>>] # "open"

\* The deferred SetSource(prev) and Unlock of call k.
Return(k) ==
  /\ call' = [call EXCEPT ![k].phase = "done"]
  /\ active' = IF call[k].kind = "health" THEN active ELSE call[k].prev

\* runHealthOnce is through and the verdict rendered.
EndRun(k) ==
  /\ call[k].phase = "run" /\ call[k].kind # "capture"
  /\ AllSettled(k)
  /\ Return(k)
  /\ UNCHANGED <<op, host, bundle, body, result, saved>>

\* Faulty: Sanitize does not wait for the collectors.
SanitizeEarly(k) ==
  /\ call[k].phase = "run" /\ call[k].kind = "capture"
  /\ bundle' = [bundle EXCEPT ![k] = [i \in Inputs |-> [@[i] EXCEPT !.text = "clean"]]]
  /\ call' = [call EXCEPT ![k].phase = "sanitized"]
  /\ UNCHANGED <<op, host, active, body, result, saved>>

\* The manifest and the rendered report go into the bundle; Sanitize holds the
\* bundle's lock and goes over every record in it.
Sanitize(k) ==
  /\ call[k].phase = "run" /\ call[k].kind = "capture"
  /\ AllSettled(k)
  /\ bundle' = [bundle EXCEPT ![k] = [i \in Inputs |-> [@[i] EXCEPT !.text = "clean"]]]
  /\ call' = [call EXCEPT ![k].phase = "sanitized"]
  /\ UNCHANGED <<op, host, active, body, result, saved>>

DoNotSanitize(k) ==
  /\ call[k].phase = "run" /\ call[k].kind = "capture"
  /\ AllSettled(k)
  /\ call' = [call EXCEPT ![k].phase = "unsanitized"]
  /\ UNCHANGED <<op, host, active, bundle, body, result, saved>>

\* What SaveTarball puts into the file: Save reads the bundle under its lock.
FileOf(k) ==
  [state |-> "whole", call |-> k, as |-> call[k].phase,
   recs |-> [i \in Inputs |-> [bundle[k][i] EXCEPT !.flags = Persisted(op[i], @)]]]

\* SaveTarball, which may fail half way, and the return.
Save(k) ==
  /\ call[k].phase \in {"sanitized", "unsanitized"}
  /\ saved' \in {FileOf(k), TornFile, saved}
  /\ Return(k)
  /\ UNCHANGED <<op, host, bundle, body, result>>

-------------------------------------------------------------------------------
(* The collectors of a call. *)

\* The next collector of a replay.
StartBody(k, c) ==
  /\ call[k].phase = "run" /\ call[k].kind = "replay"
  /\ body[<<k, c>>].at = "none"
  /\ \A d \in Cols : d < c => result[<<k, d>>] # "open"
  /\ body' = Started(k, {c})
  /\ UNCHANGED <<op, host, call, active, bundle, result, saved>>

\* The process ends with its last call, and the abandoned bodies with it.
Running == \E k \in Calls : call[k].phase # "done"

\* curSource(): the access is bound to the source that is active now.
LookUp(b) ==
  /\ Running
  /\ body[b].at = "between"
  /\ body' = [body EXCEPT ![b].at = "reading", ![b].src = active]
  /\ UNCHANGED <<op, host, call, active, bundle, result, saved>>

\* What the live host answers to access i: a command may fail any time.
HostAnswers(i) == {host[i]} \cup IF op[i] = "Run" THEN {"failed"} ELSE {}

\* The last answer ends Collect; runOne counts the result unless it had given up.
Observe(b, out) ==
  LET last == Len(body[b].obs) + 1 = MaxInputs IN
  /\ body' = [body EXCEPT ![b].at = IF last THEN "ended" ELSE "between", ![b].src = Live,
                          ![b].obs = Append(@, out), ![b].via = @ \cup {body[b].src}]
  /\ result' = [result EXCEPT ![b] = IF last /\ @ = "open" THEN "counted" ELSE @]

\* A Recorder tees what it saw into its bundle.
Tee(b, i, out) ==
  LET k == body[b].src
      flags == RecordOf(op[i], out) IN
  bundle' = IF flags = Unrecorded THEN bundle
            ELSE [bundle EXCEPT ![k][i] =
                    [flags |-> flags, by |-> b, was |-> out, text |-> "raw"]]

\* The access returns to the collector.
Answer(b) ==
  /\ Running
  /\ body[b].at = "reading"
  /\ LET i == Len(body[b].obs) + 1
         s == body[b].src IN
     \/ /\ s = Live
        /\ \E out \in HostAnswers(i) : Observe(b, out)
        /\ UNCHANGED bundle
     \/ /\ s # Live /\ call[s].kind = "capture"
        /\ \E out \in HostAnswers(i) : Observe(b, out) /\ Tee(b, i, out)
     \/ /\ s # Live /\ call[s].kind = "replay"
        /\ Observe(b, ReplayOf(op[i], bundle[s][i].flags))
        /\ UNCHANGED bundle
  /\ UNCHANGED <<op, host, call, active, saved>>

\* runOne gives up on a collector; its body is abandoned.
GiveUp(b) ==
  /\ result[b] = "open"
  /\ body[b].at \in {"between", "reading"}
  /\ result' = [result EXCEPT ![b] = "timeout"]
  /\ UNCHANGED <<op, host, call, active, bundle, body, saved>>

\* All calls are made.
Idle ==
  /\ \A k \in Calls : call[k].phase = "done"
  /\ UNCHANGED vars

Next ==
  \/ \E k \in Calls :
       \/ BeginHealth(k) \/ BeginCapture(k) \/ BeginReplay(k) \/ RefuseReplay(k)
       \/ EndRun(k) \/ Sanitize(k) \/ DoNotSanitize(k) \/ Save(k)
       \/ \E c \in Cols : StartBody(k, c)
  \/ \E b \in Bodies : LookUp(b) \/ Answer(b) \/ GiveUp(b)
  \/ Idle

Spec == Init /\ [][Next]_vars

-------------------------------------------------------------------------------
(* Properties. *)

\* The source a call runs its collectors against.
OwnSource(k) == IF call[k].kind = "health" THEN Live ELSE k

\* mcp.go:195: a result a call counts rests on accesses through the source that
\* call installed and on no other, and outside of calls the host is read live.
CountedReadsAreOwn ==
  /\ \A b \in Bodies : result[b] = "counted" => body[b].via \subseteq {OwnSource(b[1])}
  /\ MutexFree => active = Live

\* A record in a bundle file that Sanitize has not seen, or that another call's
\* collector made, was made by a body its runOne had given up on.
StrayRecordsAreAbandoned ==
  saved.state = "whole" =>
    \A i \in Inputs :
      saved.recs[i].flags # Unrecorded =>
        \/ result[saved.recs[i].by] = "timeout"
        \/ saved.recs[i].by[1] = saved.call /\ (saved.as = "sanitized" => saved.recs[i].text = "clean")

\* ADR 0003: what a replayed collector sees is what the same collector saw when
\* the bundle was recorded, except for outcomes that do not survive recording
\* and for commands of which some access failed.  Only an input that no
\* collector got round to, or that failed unrecordably, is a gap.
ReplayReproduces ==
  \A k \in Calls, c \in Cols : \A i \in Inputs :
    LET seen == body[<<k, c>>].obs
        then == body[<<saved.call, c>>].obs IN
    /\ saved.state = "whole"
    /\ call[k].kind = "replay" /\ k > saved.call /\ i <= Len(seen)
    /\ result[<<k, c>>] = "counted" /\ result[<<saved.call, c>>] = "counted"
    => \/ seen[i] = then[i]
       \/ Lossy(op[i], then[i])
       \/ saved.recs[i].flags # Unrecorded /\ Lossy(op[i], saved.recs[i].was)

===============================================================================
