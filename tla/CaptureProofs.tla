----------------------------- MODULE CaptureProofs -----------------------------
(***************************************************************************)
(* Theorems about Capture and SourceRecords, for any number of calls,      *)
(* collectors and inputs.                                                  *)
(***************************************************************************)
EXTENDS Capture, TLAPS

(* What a bundle keeps. *)

LEMMA RecordType ==
  ASSUME NEW m, NEW out
  PROVE  RecordOf(m, out) \in SUBSET Fields
BY DEF RecordOf, PutFile, PutCmd, Unrecorded, Fields

LEMMA PersistedType ==
  ASSUME NEW m, NEW rec \in SUBSET Fields
  PROVE  Persisted(m, rec) \in SUBSET Fields
BY DEF Persisted

LEMMA ReplayType ==
  ASSUME NEW m, NEW rec
  PROVE  ReplayOf(m, rec) \in Answers
BY DEF ReplayOf, ReplayCmd, ReplayCached, ReplayFile, Answers

\* An outcome of a host access survives recording, saving, loading and replaying
\* (Recorder, Bundle.Save, Load, Replay) unless it is one of those Lossy lists:
\* an error of a command or of a glob, a cached value absent or refused.
THEOREM OutcomesSurvive ==
  ASSUME NEW m \in Ops, NEW out \in LiveOutcomes(m), ~Lossy(m, out)
  PROVE  RoundTrip(m, out) = out
<1> USE DEF RoundTrip, ReplayOf, Persisted, RecordOf, Unrecorded, Lossy, LiveOutcomes
<1>1. CASE m = "Run"
  BY <1>1 DEF PutCmd, ReplayCmd
<1>2. CASE m = "Glob"
  BY <1>2 DEF PutFile, ReplayFile
<1>3. CASE m = "Cached"
  BY <1>3 DEF PutFile, ReplayCached
<1>4. CASE m \notin {"Run", "Glob", "Cached"}
  BY <1>4 DEF PutFile, ReplayFile
<1> QED
  BY <1>1, <1>2, <1>3, <1>4

-------------------------------------------------------------------------------
(* The type invariant. *)

LEMMA TypeInitially == Init => TypeOK
<1> SUFFICES ASSUME Init PROVE TypeOK
  OBVIOUS
<1>1. EmptyBundle \in [Inputs -> Entries]
  BY DEF EmptyBundle, Entries
<1>2. saved \in [state : {"none", "torn", "whole"}, call : {0} \cup Calls,
                as : {"none", "sanitized", "unsanitized"}, recs : [Inputs -> Entries]]
  BY <1>1 DEF Init, NoFile
<1>3. host \in [Inputs -> Answers]
  BY DEF Init
<1>4. \A b \in Bodies : body[b] = NotStarted
  BY DEF Init
<1>5. <<>> \in Seq(Answers) /\ Len(<<>>) = 0
  OBVIOUS
<1>6. body \in [Bodies -> [at : {"none", "between", "reading", "ended"},
                          src : {Live} \cup Calls,
                          obs : Seq(Answers), via : SUBSET ({Live} \cup Calls)]]
  BY <1>5 DEF Init, NotStarted
<1>7. \A b \in Bodies : Len(body[b].obs) < MaxInputs
  BY <1>4, <1>5, MaxInputsAssumption DEF NotStarted
<1> QED
  BY <1>1, <1>2, <1>3, <1>6, <1>7 DEF Init, TypeOK, Kinds, NoFile

BodyTypes ==
  /\ body \in [Bodies -> [at : {"none", "between", "reading", "ended"},
                          src : {Live} \cup Calls,
                          obs : Seq(Answers), via : SUBSET ({Live} \cup Calls)]]
  /\ \A b \in Bodies : body[b].at # "ended" => Len(body[b].obs) < MaxInputs

\* The goroutines that begin leave their type: they had not ended.
LEMMA StartedType ==
  ASSUME BodyTypes, NEW k, NEW cs, body' = Started(k, cs),
         \A b \in Bodies : b \in {k} \X cs => body[b].at = "none"
  PROVE  BodyTypes'
<1> DEFINE T == [at : {"none", "between", "reading", "ended"}, src : {Live} \cup Calls,
                 obs : Seq(Answers), via : SUBSET ({Live} \cup Calls)]
<1> SUFFICES ASSUME NEW b \in Bodies
             PROVE  /\ body'[b] \in T
                    /\ body'[b].at # "ended" => Len(body'[b].obs) < MaxInputs
  BY DEF BodyTypes, Started
<1>1. body[b] \in T /\ (body[b].at # "ended" => Len(body[b].obs) < MaxInputs)
  BY DEF BodyTypes
<1>2. body'[b] = body[b] \/ (body'[b] = [body[b] EXCEPT !.at = "between"]
                             /\ body[b].at = "none")
  BY DEF Started
<1> QED
  BY <1>1, <1>2

\* An answer to a body leaves the types of bodies and results.
LEMMA ObserveType ==
  ASSUME BodyTypes, NEW b \in Bodies, NEW out \in Answers, Observe(b, out),
         body[b].at = "reading", result \in [Bodies -> {"open", "counted", "timeout"}]
  PROVE  BodyTypes' /\ result' \in [Bodies -> {"open", "counted", "timeout"}]
<1> DEFINE T == [at : {"none", "between", "reading", "ended"}, src : {Live} \cup Calls,
                 obs : Seq(Answers), via : SUBSET ({Live} \cup Calls)]
<1> DEFINE last == Len(body[b].obs) + 1 = MaxInputs
<1> DEFINE new == [body[b] EXCEPT !.at = IF last THEN "ended" ELSE "between", !.src = Live,
                   !.obs = Append(@, out), !.via = @ \cup {body[b].src}]
<1>1. body[b] \in T /\ Len(body[b].obs) < MaxInputs
  BY DEF BodyTypes
<1>2. Append(body[b].obs, out) \in Seq(Answers)
      /\ Len(Append(body[b].obs, out)) = Len(body[b].obs) + 1
  BY <1>1
<1>3. new \in T
  BY <1>1, <1>2
<1>4. new.at # "ended" => Len(new.obs) < MaxInputs
  BY <1>1, <1>2, MaxInputsAssumption
<1>5. body' = [body EXCEPT ![b] = new]
  BY DEF Observe
<1>6. result' \in [Bodies -> {"open", "counted", "timeout"}]
  BY DEF Observe
<1> QED
  BY <1>3, <1>4, <1>5, <1>6 DEF BodyTypes

\* What a Recorder adds to its bundle is an entry.
LEMMA TeeType ==
  ASSUME bundle \in [Calls -> [Inputs -> Entries]], NEW b \in Bodies, NEW i \in Inputs,
         NEW out \in Answers, body[b].src \in Calls, Tee(b, i, out)
  PROVE  bundle' \in [Calls -> [Inputs -> Entries]]
<1> DEFINE e == [flags |-> RecordOf(op[i], out), by |-> b, was |-> out, text |-> "raw"]
<1>1. e \in Entries
  BY RecordType DEF Entries, Recs
<1> QED
  BY <1>1 DEF Tee

LEMMA AnswerType ==
  ASSUME TypeOK, NEW b \in Bodies, Answer(b)
  PROVE  TypeOK'
<1>1. BodyTypes /\ body[b].at = "reading"
  BY DEF TypeOK, BodyTypes, Answer
<1> DEFINE i == Len(body[b].obs) + 1
<1>2. body[b] \in [at : {"none", "between", "reading", "ended"}, src : {Live} \cup Calls,
                   obs : Seq(Answers), via : SUBSET ({Live} \cup Calls)]
      /\ Len(body[b].obs) < MaxInputs
  BY <1>1 DEF BodyTypes
<1>3. i \in Inputs
  BY <1>2, MaxInputsAssumption DEF Inputs
<1>4. \A out \in HostAnswers(i) : out \in Answers
  BY <1>3 DEF HostAnswers, TypeOK, Answers
<1>5. PICK out \in Answers :
        /\ Observe(b, out)
        /\ \/ Tee(b, i, out) /\ body[b].src # Live
           \/ UNCHANGED bundle
  BY <1>4, ReplayType DEF Answer
<1>6. BodyTypes' /\ result' \in [Bodies -> {"open", "counted", "timeout"}]
  BY <1>1, <1>5, ObserveType DEF TypeOK
<1>7. bundle' \in [Calls -> [Inputs -> Entries]]
  BY <1>2, <1>3, <1>5, TeeType DEF TypeOK
<1> QED
  BY <1>6, <1>7 DEF TypeOK, BodyTypes, Answer

-------------------------------------------------------------------------------
(* A call has the sources for itself. *)

\* Before a call begins none of its goroutines does.
IdleUntouched == \A b \in Bodies : call[b[1]].phase = "idle" => body[b].at = "none"

OneCall == \A j, k \in Calls : call[j].phase \in Busy /\ call[k].phase \in Busy => j = k

\* The source in place is the running call's, to be followed by the live one.
InPlace ==
  /\ \A k \in Calls : call[k].phase \in Busy =>
       call[k].prev = Live /\ active = OwnSource(k)
  /\ MutexFree => active = Live

\* A result that is still open belongs to a call that runs its collectors.
OpenReadsAreOwn ==
  \A b \in Bodies :
    /\ body[b].at = "none" => body[b].via = {}
    /\ result[b] = "counted" => body[b].at = "ended" /\ body[b].via \subseteq {OwnSource(b[1])}
    /\ result[b] = "open" =>
         /\ body[b].at # "ended"
         /\ body[b].via \subseteq {OwnSource(b[1])}
         /\ body[b].at # "none" => call[b[1]].phase = "run"
         /\ body[b].at = "reading" => body[b].src = OwnSource(b[1])

\* A bundle is written when the results are in.
SavedWhenSettled ==
  \A k \in Calls : call[k].phase \in {"sanitized", "unsanitized"} => AllSettled(k)

IInv == TypeOK /\ IdleUntouched /\ OneCall /\ InPlace /\ OpenReadsAreOwn /\ SavedWhenSettled

LEMMA InvariantInitially == Init => IInv
<1> SUFFICES ASSUME Init PROVE IInv
  OBVIOUS
<1>1. \A k \in Calls : call[k].phase = "idle" /\ "idle" \notin Busy
  BY DEF Init, Busy
<1>2. \A b \in Bodies : body[b].at = "none" /\ body[b].via = {} /\ result[b] = "open"
  BY DEF Init, NotStarted
<1> QED
  BY <1>1, <1>2, TypeInitially
     DEF IInv, IdleUntouched, OneCall, InPlace, OpenReadsAreOwn, SavedWhenSettled, Init

\* How a call begins: the goroutines of all or none of its collectors start, and
\* the source stays or becomes the call's own.
BeginsAs(k, kind) ==
  /\ Enter(k)
  /\ call' = [call EXCEPT ![k] = [kind |-> kind, phase |-> "run", prev |-> active]]
  /\ active' = IF kind = "health" THEN active ELSE k
  /\ body' \in {Started(k, Cols), body}
  /\ UNCHANGED <<op, host, result, saved>>

LEMMA BeginStep ==
  ASSUME IInv, NEW k \in Calls, NEW kind \in Kinds, BeginsAs(k, kind),
         bundle' \in [Calls -> [Inputs -> Entries]]
  PROVE  IInv'
<1>1. /\ call[k].phase = "idle" /\ MutexFree /\ active = Live
      /\ \A j \in Calls : call[j].phase \notin Busy
  BY DEF BeginsAs, Enter, IsNext, MutexFree, IInv, InPlace
<1>2. /\ call'[k] = [kind |-> kind, phase |-> "run", prev |-> Live]
      /\ \A j \in Calls \ {k} : call'[j] = call[j]
  BY <1>1 DEF BeginsAs, IInv, TypeOK
<1>3. OwnSource(k)' = active' /\ \A j \in Calls \ {k} : OwnSource(j)' = OwnSource(j)
  BY <1>1, <1>2 DEF OwnSource, BeginsAs
<1>4. \A b \in Bodies : b[1] \in Calls
  BY DEF Bodies
<1>5. \A b \in Bodies : b[1] = k => body[b].at = "none"
  BY <1>1 DEF IInv, IdleUntouched
<1>6. \A b \in Bodies :
        \/ body'[b] = body[b]
        \/ b[1] = k /\ body'[b] = [body[b] EXCEPT !.at = "between"]
  BY DEF BeginsAs, Started
<1>7. TypeOK'
  <2>1. BodyTypes'
    <3>1. CASE body' = body
      BY <3>1 DEF IInv, TypeOK, BodyTypes
    <3>2. CASE body' = Started(k, Cols)
      <4>1. \A b \in Bodies : b \in {k} \X Cols => body[b].at = "none"
        BY <1>5
      <4> QED
        BY <3>2, <4>1, StartedType DEF IInv, TypeOK, BodyTypes
    <3> QED
      BY <3>1, <3>2 DEF BeginsAs
  <2>2. call' \in [Calls -> [kind : Kinds \cup {"none"},
                            phase : Busy \cup {"idle", "done"}, prev : {Live} \cup Calls]]
        /\ active' \in {Live} \cup Calls
    BY <1>1 DEF BeginsAs, IInv, TypeOK, Busy
  <2> QED
    BY <2>1, <2>2 DEF IInv, TypeOK, BodyTypes, BeginsAs
<1>8. IdleUntouched'
  <2> SUFFICES ASSUME NEW b \in Bodies, call'[b[1]].phase = "idle"
               PROVE  body'[b].at = "none"
    BY DEF IdleUntouched
  <2>1. b[1] # k
    BY <1>2
  <2>2. body'[b] = body[b] /\ call[b[1]].phase = "idle"
    BY <1>2, <1>4, <1>6, <2>1
  <2> QED
    BY <2>2 DEF IInv, IdleUntouched
<1>9. OneCall' /\ InPlace'
  <2>1. \A j \in Calls : call'[j].phase \in Busy => j = k
    BY <1>1, <1>2
  <2>2. call'[k].phase \in Busy /\ call'[k].prev = Live
    BY <1>2 DEF Busy
  <2> QED
    BY <1>3, <2>1, <2>2 DEF OneCall, InPlace, MutexFree
<1>10. OpenReadsAreOwn'
  <2> SUFFICES ASSUME NEW b \in Bodies
      PROVE /\ body'[b].at = "none" => body'[b].via = {}
            /\ result'[b] = "counted" =>
                 body'[b].at = "ended" /\ body'[b].via \subseteq {OwnSource(b[1])'}
            /\ result'[b] = "open" =>
                 /\ body'[b].at # "ended"
                 /\ body'[b].via \subseteq {OwnSource(b[1])'}
                 /\ body'[b].at # "none" => call'[b[1]].phase = "run"
                 /\ body'[b].at = "reading" => body'[b].src = OwnSource(b[1])'
    BY DEF OpenReadsAreOwn
  <2>0. /\ result'[b] = result[b]
        /\ body[b].at = "none" => body[b].via = {}
        /\ result[b] = "counted" => body[b].at = "ended" /\ body[b].via \subseteq {OwnSource(b[1])}
        /\ result[b] = "open" =>
             /\ body[b].at # "ended"
             /\ body[b].via \subseteq {OwnSource(b[1])}
             /\ body[b].at # "none" => call[b[1]].phase = "run"
             /\ body[b].at = "reading" => body[b].src = OwnSource(b[1])
    BY DEF IInv, OpenReadsAreOwn, BeginsAs
  <2>1. CASE b[1] # k
    BY <1>2, <1>3, <1>4, <1>6, <2>0, <2>1
  <2>2. CASE b[1] = k
    <3>1. body[b].at = "none" /\ body[b].via = {} /\ result[b] # "counted"
      BY <1>5, <2>0, <2>2
    <3>2. body'[b].via = {} /\ body'[b].at \in {"none", "between"}
      BY <1>6, <3>1 DEF IInv, TypeOK
    <3> QED
      BY <1>2, <2>0, <2>2, <3>1, <3>2
  <2> QED
    BY <2>1, <2>2
<1>11. SavedWhenSettled'
  BY <1>2 DEF IInv, SavedWhenSettled, AllSettled, BeginsAs
<1> QED
  BY <1>7, <1>8, <1>9, <1>10, <1>11 DEF IInv

\* A step that leaves bodies, results and the kinds of the calls alone and takes
\* call k, whose results are settled, to phase p.
SettledCallMovesTo(k, p) ==
  /\ call[k].phase \in Busy /\ AllSettled(k)
  /\ call' = [call EXCEPT ![k].phase = p]
  /\ UNCHANGED <<op, host, body, result>>

LEMMA SettledStep ==
  ASSUME IInv, NEW k \in Calls, NEW p \in {"sanitized", "unsanitized", "done"},
         SettledCallMovesTo(k, p)
  PROVE  IdleUntouched' /\ OpenReadsAreOwn' /\ SavedWhenSettled'
<1>1. /\ call'[k] = [call[k] EXCEPT !.phase = p]
      /\ \A j \in Calls \ {k} : call'[j] = call[j]
  BY DEF SettledCallMovesTo, IInv, TypeOK
<1>2. \A j \in Calls : call'[j].kind = call[j].kind /\ (call'[j].phase = "idle" => call[j].phase = "idle")
  BY <1>1 DEF IInv, TypeOK
<1>3. \A b \in Bodies : b[1] \in Calls /\ b[2] \in Cols /\ b = <<b[1], b[2]>>
  BY DEF Bodies
<1>4. \A b \in Bodies : OwnSource(b[1])' = OwnSource(b[1])
  BY <1>2, <1>3 DEF OwnSource
<1>5. IdleUntouched'
  BY <1>2, <1>3 DEF IInv, IdleUntouched, SettledCallMovesTo
<1>6. \A b \in Bodies : result[b] = "open" => call'[b[1]] = call[b[1]]
  BY <1>1, <1>3 DEF SettledCallMovesTo, AllSettled
<1>7. OpenReadsAreOwn'
  BY <1>4, <1>6 DEF IInv, OpenReadsAreOwn, SettledCallMovesTo
<1>8. SavedWhenSettled'
  BY <1>1 DEF IInv, SavedWhenSettled, AllSettled, SettledCallMovesTo
<1> QED
  BY <1>5, <1>7, <1>8

LEMMA ReturnStep ==
  ASSUME IInv, NEW k \in Calls, call[k].phase \in Busy, AllSettled(k), Return(k),
         UNCHANGED <<op, host, bundle, body, result>>,
         \/ saved' \in {TornFile, saved}
         \/ saved' = FileOf(k) /\ call[k].phase \in {"sanitized", "unsanitized"}
  PROVE  IInv'
<1>1. IdleUntouched' /\ OpenReadsAreOwn' /\ SavedWhenSettled'
  BY SettledStep DEF SettledCallMovesTo, Return
<1>2. /\ call'[k].phase = "done"
      /\ \A j \in Calls \ {k} : call'[j] = call[j] /\ call[j].phase \notin Busy
  BY DEF Return, IInv, TypeOK, OneCall
<1>3. active' = Live
  BY DEF Return, IInv, InPlace, OwnSource
<1>4. OneCall' /\ InPlace'
  <2>1. \A j \in Calls : call'[j].phase \notin Busy
    BY <1>2 DEF Busy
  <2> QED
    BY <1>3, <2>1 DEF OneCall, InPlace
<1>5. saved' \in [state : {"none", "torn", "whole"}, call : {0} \cup Calls,
                 as : {"none", "sanitized", "unsanitized"}, recs : [Inputs -> Entries]]
      /\ (saved'.state = "whole" => saved'.call \in Calls)
  <2>1. \A i \in Inputs : [bundle[k][i] EXCEPT !.flags = Persisted(op[i], @)] \in Entries
    <3> SUFFICES ASSUME NEW i \in Inputs
                 PROVE  [bundle[k][i] EXCEPT !.flags = Persisted(op[i], @)] \in Entries
      OBVIOUS
    <3>1. bundle[k][i] \in Entries
      BY DEF IInv, TypeOK
    <3>2. CASE bundle[k][i] \in Recs
      BY <3>2, PersistedType DEF Recs, Entries
    <3>3. CASE bundle[k][i] = Missing
      <4>1. Persisted(op[i], Missing.flags) = Missing.flags
        BY DEF Persisted, Missing, Unrecorded
      <4>2. [Missing EXCEPT !.flags = Missing.flags] = Missing
        BY DEF Missing
      <4> QED
        BY <3>3, <4>1, <4>2 DEF Entries
    <3> QED
      BY <3>1, <3>2, <3>3 DEF Entries
  <2>2. call[k].phase \in {"sanitized", "unsanitized"} => FileOf(k) \in [state : {"none", "torn", "whole"}, call : {0} \cup Calls,
                      as : {"none", "sanitized", "unsanitized"}, recs : [Inputs -> Entries]]
        /\ FileOf(k).call \in Calls
    <3> DEFINE rs == [i \in Inputs |-> [bundle[k][i] EXCEPT !.flags = Persisted(op[i], @)]]
    <3>1. rs \in [Inputs -> Entries]
      BY <2>1
    <3>2. FileOf(k) = [state |-> "whole", call |-> k,
                       as |-> call[k].phase, recs |-> rs]
      BY DEF FileOf
    <3> HIDE DEF rs
    <3> QED
      BY <3>1, <3>2
  <2>3. TornFile \in [state : {"none", "torn", "whole"}, call : {0} \cup Calls,
                      as : {"none", "sanitized", "unsanitized"}, recs : [Inputs -> Entries]]
        /\ TornFile.state # "whole"
    BY DEF TornFile, NoFile, EmptyBundle, Entries
  <2> QED
    BY <2>2, <2>3 DEF IInv, TypeOK
<1>6. call' \in [Calls -> [kind : Kinds \cup {"none"},
                          phase : Busy \cup {"idle", "done"}, prev : {Live} \cup Calls]]
  <2>1. call \in [Calls -> [kind : Kinds \cup {"none"},
                            phase : Busy \cup {"idle", "done"}, prev : {Live} \cup Calls]]
    BY DEF IInv, TypeOK
  <2>2. call' = [call EXCEPT ![k].phase = "done"]
    BY DEF Return
  <2> QED
    BY <2>1, <2>2
<1>7. TypeOK'
  BY <1>3, <1>5, <1>6 DEF IInv, TypeOK
<1> QED
  BY <1>1, <1>4, <1>7 DEF IInv

\* Sanitize and DoNotSanitize.
LEMMA SanitizeStep ==
  ASSUME IInv, NEW k \in Calls, Sanitize(k) \/ DoNotSanitize(k)
  PROVE  IInv'
<1>1. PICK p \in {"sanitized", "unsanitized"} : SettledCallMovesTo(k, p)
  BY DEF Sanitize, DoNotSanitize, SettledCallMovesTo, Busy
<1>2. IdleUntouched' /\ OpenReadsAreOwn' /\ SavedWhenSettled'
  BY <1>1, SettledStep
<1>3. /\ call[k].phase = "run"
      /\ call'[k] = [call[k] EXCEPT !.phase = p]
      /\ \A j \in Calls \ {k} : call'[j] = call[j]
      /\ active' = active
  BY <1>1 DEF SettledCallMovesTo, IInv, TypeOK, Sanitize, DoNotSanitize
<1>4. \A j \in Calls : /\ call'[j].phase \in Busy <=> call[j].phase \in Busy
                      /\ call'[j].prev = call[j].prev
                      /\ call'[j].kind = call[j].kind
  BY <1>3 DEF Busy, IInv, TypeOK
<1>5. OneCall' /\ InPlace'
  BY <1>3, <1>4 DEF IInv, OneCall, InPlace, MutexFree, OwnSource
<1>6. bundle' \in [Calls -> [Inputs -> Entries]]
  <2>1. \A e \in Entries : [e EXCEPT !.text = "clean"] \in Entries
    <3> SUFFICES ASSUME NEW e \in Entries PROVE [e EXCEPT !.text = "clean"] \in Entries
      OBVIOUS
    <3>1. CASE e \in Recs
      BY <3>1 DEF Recs, Entries
    <3>2. CASE e = Missing
      <4>1. [Missing EXCEPT !.text = "clean"] = Missing
        BY DEF Missing
      <4> QED
        BY <3>2, <4>1 DEF Entries
    <3> QED
      BY <3>1, <3>2 DEF Entries
  <2>2. CASE Sanitize(k)
    BY <2>1, <2>2 DEF Sanitize, IInv, TypeOK
  <2>3. CASE DoNotSanitize(k)
    BY <2>3 DEF DoNotSanitize, IInv, TypeOK
  <2> QED
    BY <2>2, <2>3
<1>7. call' \in [Calls -> [kind : Kinds \cup {"none"},
                          phase : Busy \cup {"idle", "done"}, prev : {Live} \cup Calls]]
  <2>1. p \in Busy
    BY DEF Busy
  <2>2. call' = [call EXCEPT ![k].phase = p]
    BY <1>1 DEF SettledCallMovesTo
  <2>3. call[k] \in [kind : Kinds \cup {"none"}, phase : Busy \cup {"idle", "done"},
                    prev : {Live} \cup Calls]
    BY DEF IInv, TypeOK
  <2>4. [call[k] EXCEPT !.phase = p] \in
          [kind : Kinds \cup {"none"}, phase : Busy \cup {"idle", "done"}, prev : {Live} \cup Calls]
    BY <2>1, <2>3
  <2>5. call \in [Calls -> [kind : Kinds \cup {"none"},
                           phase : Busy \cup {"idle", "done"}, prev : {Live} \cup Calls]]
    BY DEF IInv, TypeOK
  <2> QED
    BY <2>2, <2>4, <2>5
<1>8. TypeOK'
  <2>1. active' = active /\ UNCHANGED <<op, host, body, result, saved>>
    BY DEF Sanitize, DoNotSanitize
  <2> QED
    BY <1>6, <1>7, <2>1 DEF IInv, TypeOK
<1> QED
  BY <1>2, <1>5, <1>8 DEF IInv

\* The steps of the collectors' goroutines leave the calls alone.
LEMMA CallsStay ==
  ASSUME IInv, UNCHANGED <<call, active>>
  PROVE  OneCall' /\ InPlace' /\ \A k \in Calls : OwnSource(k)' = OwnSource(k)
BY DEF IInv, OneCall, InPlace, MutexFree, OwnSource

LEMMA StartStep ==
  ASSUME IInv, NEW k \in Calls, NEW c \in Cols, StartBody(k, c)
  PROVE  IInv'
<1>1. UNCHANGED <<op, host, call, active, bundle, result, saved>> /\ body' = Started(k, {c})
      /\ call[k].phase = "run" /\ body[<<k, c>>].at = "none"
  BY DEF StartBody
<1>2. /\ \A b \in Bodies \ {<<k, c>>} : body'[b] = body[b]
      /\ <<k, c>> \in Bodies
      /\ body'[<<k, c>>] = [body[<<k, c>>] EXCEPT !.at = "between"]
  <2>1. <<k, c>> \in Bodies
    BY DEF Bodies
  <2>2. \A b : b \in {k} \X {c} <=> b = <<k, c>>
    OBVIOUS
  <2> QED
    BY <1>1, <2>1, <2>2 DEF Started
<1>3. BodyTypes'
  <2>1. \A b \in Bodies : b \in {k} \X {c} => body[b].at = "none"
    BY <1>1
  <2> QED
    BY <1>1, <2>1, StartedType DEF IInv, TypeOK, BodyTypes
<1>4. TypeOK'
  BY <1>1, <1>3 DEF IInv, TypeOK, BodyTypes
<1>5. IdleUntouched'
  <2>1. call[<<k, c>>[1]].phase # "idle"
    BY <1>1
  <2> QED
    BY <1>1, <1>2, <2>1 DEF IInv, IdleUntouched
<1>6. OpenReadsAreOwn'
  <2>1. \A d \in Bodies : OwnSource(d[1])' = OwnSource(d[1])
    BY <1>1, CallsStay DEF Bodies
  <2> SUFFICES ASSUME NEW d \in Bodies
      PROVE /\ body'[d].at = "none" => body'[d].via = {}
            /\ result'[d] = "counted" =>
                 body'[d].at = "ended" /\ body'[d].via \subseteq {OwnSource(d[1])'}
            /\ result'[d] = "open" =>
                 /\ body'[d].at # "ended"
                 /\ body'[d].via \subseteq {OwnSource(d[1])'}
                 /\ body'[d].at # "none" => call'[d[1]].phase = "run"
                 /\ body'[d].at = "reading" => body'[d].src = OwnSource(d[1])'
    BY DEF OpenReadsAreOwn
  <2>2. CASE d # <<k, c>>
    BY <1>1, <1>2, <2>1, <2>2 DEF IInv, OpenReadsAreOwn
  <2>3. CASE d = <<k, c>>
    <3>1. d = <<k, c>> /\ body[d].at = "none" /\ body'[d] = [body[d] EXCEPT !.at = "between"]
      BY <1>1, <1>2, <2>3
    <3>2. body[d].via = {} /\ result[d] # "counted"
      BY <3>1 DEF IInv, OpenReadsAreOwn
    <3>3. body'[d].via = {} /\ body'[d].at = "between" /\ call[d[1]].phase = "run"
      BY <1>1, <3>1, <3>2 DEF IInv, TypeOK
    <3> QED
      BY <1>1, <3>2, <3>3
  <2> QED
    BY <2>2, <2>3
<1> QED
  BY <1>1, <1>4, <1>5, <1>6, CallsStay DEF IInv, SavedWhenSettled, AllSettled

LEMMA LookUpStep ==
  ASSUME IInv, NEW b \in Bodies, LookUp(b)
  PROVE  IInv'
<1>1. /\ UNCHANGED <<op, host, call, active, bundle, result, saved>>
      /\ body[b].at = "between"
      /\ body' = [body EXCEPT ![b] = [body[b] EXCEPT !.at = "reading", !.src = active]]
  BY DEF LookUp
<1>2. /\ body'[b] = [body[b] EXCEPT !.at = "reading", !.src = active]
      /\ \A d \in Bodies \ {b} : body'[d] = body[d]
  BY <1>1 DEF IInv, TypeOK
<1>3. /\ body'[b].at = "reading" /\ body'[b].src = active
      /\ body'[b].obs = body[b].obs /\ body'[b].via = body[b].via
      /\ body'[b] \in [at : {"none", "between", "reading", "ended"}, src : {Live} \cup Calls,
                       obs : Seq(Answers), via : SUBSET ({Live} \cup Calls)]
  <2>1. active \in {Live} \cup Calls
    BY DEF IInv, TypeOK
  <2>2. body[b] \in [at : {"none", "between", "reading", "ended"}, src : {Live} \cup Calls,
                    obs : Seq(Answers), via : SUBSET ({Live} \cup Calls)]
    BY DEF IInv, TypeOK
  <2> QED
    BY <1>2, <2>1, <2>2
<1>4. TypeOK'
  <2>1. BodyTypes'
    BY <1>1, <1>2, <1>3 DEF IInv, TypeOK, BodyTypes
  <2> QED
    BY <1>1, <2>1 DEF IInv, TypeOK, BodyTypes
<1>5. IdleUntouched'
  BY <1>1, <1>2 DEF IInv, IdleUntouched
<1>6. OpenReadsAreOwn'
  <2>1. result[b] # "counted"
    BY <1>1 DEF IInv, OpenReadsAreOwn
  <2>2. result[b] = "open" => call[b[1]].phase = "run" /\ active = OwnSource(b[1])
    BY <1>1 DEF IInv, OpenReadsAreOwn, InPlace, Busy, Bodies
  <2>3. \A d \in Bodies : OwnSource(d[1])' = OwnSource(d[1])
    BY <1>1, CallsStay DEF Bodies
  <2> SUFFICES ASSUME NEW d \in Bodies
      PROVE /\ body'[d].at = "none" => body'[d].via = {}
            /\ result'[d] = "counted" =>
                 body'[d].at = "ended" /\ body'[d].via \subseteq {OwnSource(d[1])'}
            /\ result'[d] = "open" =>
                 /\ body'[d].at # "ended"
                 /\ body'[d].via \subseteq {OwnSource(d[1])'}
                 /\ body'[d].at # "none" => call'[d[1]].phase = "run"
                 /\ body'[d].at = "reading" => body'[d].src = OwnSource(d[1])'
    BY DEF OpenReadsAreOwn
  <2>4. CASE d = b
    BY <1>1, <1>3, <2>1, <2>2, <2>3, <2>4 DEF IInv, OpenReadsAreOwn
  <2>5. CASE d # b
    BY <1>1, <1>2, <2>3, <2>5 DEF IInv, OpenReadsAreOwn
  <2> QED
    BY <2>4, <2>5
<1> QED
  BY <1>1, <1>4, <1>5, <1>6, CallsStay DEF IInv, SavedWhenSettled, AllSettled

LEMMA AnswerStep ==
  ASSUME IInv, NEW b \in Bodies, Answer(b)
  PROVE  IInv'
<1>1. UNCHANGED <<op, host, call, active, saved>> /\ body[b].at = "reading"
  BY DEF Answer
<1>2. PICK out : Observe(b, out)
  BY DEF Answer
<1>3. /\ body'[b].at \in {"between", "ended"}
      /\ body'[b].at = "ended" <=> Len(body[b].obs) + 1 = MaxInputs
      /\ body'[b].via = body[b].via \cup {body[b].src}
      /\ \A d \in Bodies \ {b} : body'[d] = body[d]
  BY <1>2 DEF Observe, IInv, TypeOK
<1>4. /\ result'[b] = IF Len(body[b].obs) + 1 = MaxInputs /\ result[b] = "open"
                      THEN "counted" ELSE result[b]
      /\ \A d \in Bodies \ {b} : result'[d] = result[d]
  BY <1>2 DEF Observe, IInv, TypeOK
<1>5. TypeOK'
  BY AnswerType DEF IInv
<1>6. IdleUntouched'
  <2>1. call[b[1]].phase # "idle"
    BY <1>1 DEF IInv, IdleUntouched
  <2> QED
    BY <1>1, <1>3, <2>1 DEF IInv, IdleUntouched
<1>7. OpenReadsAreOwn'
  <2>1. \A d \in Bodies : OwnSource(d[1])' = OwnSource(d[1])
    BY <1>1, CallsStay DEF Bodies
  <2> SUFFICES ASSUME NEW d \in Bodies
      PROVE /\ body'[d].at = "none" => body'[d].via = {}
            /\ result'[d] = "counted" =>
                 body'[d].at = "ended" /\ body'[d].via \subseteq {OwnSource(d[1])'}
            /\ result'[d] = "open" =>
                 /\ body'[d].at # "ended"
                 /\ body'[d].via \subseteq {OwnSource(d[1])'}
                 /\ body'[d].at # "none" => call'[d[1]].phase = "run"
                 /\ body'[d].at = "reading" => body'[d].src = OwnSource(d[1])'
    BY DEF OpenReadsAreOwn
  <2>2. CASE d = b
    <3>1. result[b] # "counted"
      BY <1>1 DEF IInv, OpenReadsAreOwn
    <3>2. result[b] = "open" => /\ call[b[1]].phase = "run"
                                /\ body'[b].via \subseteq {OwnSource(b[1])}
      BY <1>1, <1>3 DEF IInv, OpenReadsAreOwn
    <3> QED
      BY <1>1, <1>3, <1>4, <2>1, <2>2, <3>1, <3>2
  <2>3. CASE d # b
    BY <1>1, <1>3, <1>4, <2>1, <2>3 DEF IInv, OpenReadsAreOwn
  <2> QED
    BY <2>2, <2>3
<1>8. SavedWhenSettled'
  BY <1>1, <1>4 DEF IInv, SavedWhenSettled, AllSettled, Bodies
<1> QED
  BY <1>1, <1>5, <1>6, <1>7, <1>8, CallsStay DEF IInv

LEMMA GiveUpStep ==
  ASSUME IInv, NEW b \in Bodies, GiveUp(b)
  PROVE  IInv'
<1>1. /\ UNCHANGED <<op, host, call, active, bundle, body, saved>>
      /\ result' = [result EXCEPT ![b] = "timeout"]
  BY DEF GiveUp
<1>2. TypeOK'
  BY <1>1 DEF IInv, TypeOK
<1>3. IdleUntouched'
  BY <1>1 DEF IInv, IdleUntouched
<1>4. \A d \in Bodies : result'[d] = result[d] \/ result'[d] = "timeout"
  BY <1>1 DEF IInv, TypeOK
<1>5. OpenReadsAreOwn'
  BY <1>1, <1>4, CallsStay DEF IInv, OpenReadsAreOwn, Bodies
<1>6. SavedWhenSettled'
  BY <1>1, <1>4 DEF IInv, SavedWhenSettled, AllSettled, Bodies
<1> QED
  BY <1>1, <1>2, <1>3, <1>5, <1>6, CallsStay DEF IInv

LEMMA InvariantStep == IInv /\ [Next]_vars => IInv'
<1> SUFFICES ASSUME IInv, [Next]_vars PROVE IInv'
  OBVIOUS
<1>1. ASSUME NEW k \in Calls, BeginHealth(k) PROVE IInv'
  <2>1. BeginsAs(k, "health")
    BY <1>1 DEF BeginHealth, BeginsAs
  <2> QED
    BY <1>1, <2>1, BeginStep DEF BeginHealth, IInv, TypeOK, Kinds
<1>2. ASSUME NEW k \in Calls, BeginCapture(k) PROVE IInv'
  <2>1. BeginsAs(k, "capture")
    BY <1>2 DEF BeginCapture, BeginsAs
  <2> QED
    BY <1>2, <2>1, BeginStep DEF BeginCapture, IInv, TypeOK, Kinds
<1>3. ASSUME NEW k \in Calls, BeginReplay(k) PROVE IInv'
  <2>1. BeginsAs(k, "replay")
    BY <1>3 DEF BeginReplay, BeginsAs
  <2>2. bundle' \in [Calls -> [Inputs -> Entries]]
    BY <1>3 DEF BeginReplay, IInv, TypeOK
  <2> QED
    BY <2>1, <2>2, BeginStep DEF Kinds
<1>4. ASSUME NEW k \in Calls, RefuseReplay(k) PROVE IInv'
  <2>1. /\ call[k].phase = "idle" /\ MutexFree /\ active = Live
        /\ call' = [call EXCEPT ![k] = [kind |-> "replay", phase |-> "done", prev |-> active]]
        /\ UNCHANGED <<op, host, active, bundle, body, result, saved>>
    BY <1>4 DEF RefuseReplay, Enter, IsNext, IInv, InPlace
  <2>2. TypeOK'
    BY <2>1 DEF IInv, TypeOK, Kinds
  <2>3. /\ call'[k].phase = "done"
        /\ \A j \in Calls \ {k} : call'[j] = call[j]
    BY <2>1 DEF IInv, TypeOK
  <2>4. \A j \in Calls : call'[j].phase \notin Busy
    BY <2>1, <2>3 DEF MutexFree, Busy
  <2>5. IdleUntouched'
    BY <2>1, <2>3 DEF IInv, IdleUntouched, Bodies
  <2>6. OneCall' /\ InPlace'
    BY <2>1, <2>4 DEF OneCall, InPlace
  <2>7. \A b \in Bodies : b[1] = k =>
           body[b].at = "none" /\ body[b].via = {} /\ result[b] # "counted"
    BY <2>1 DEF IInv, IdleUntouched, OpenReadsAreOwn
  <2>8. \A j \in Calls \ {k} : OwnSource(j)' = OwnSource(j)
    BY <2>3 DEF OwnSource
  <2>9. OpenReadsAreOwn'
    BY <2>1, <2>3, <2>7, <2>8 DEF IInv, OpenReadsAreOwn, Bodies
  <2>10. SavedWhenSettled'
    BY <2>1, <2>3 DEF IInv, SavedWhenSettled, AllSettled
  <2> QED
    BY <2>2, <2>5, <2>6, <2>9, <2>10 DEF IInv
<1>5. ASSUME NEW k \in Calls, EndRun(k) PROVE IInv'
  BY <1>5, ReturnStep DEF EndRun, Busy
<1>6. ASSUME NEW k \in Calls, Save(k) PROVE IInv'
  <2>1. AllSettled(k)
    BY <1>6 DEF Save, IInv, SavedWhenSettled
  <2> QED
    BY <1>6, <2>1, ReturnStep DEF Save, Busy
<1>7. ASSUME NEW k \in Calls, Sanitize(k) \/ DoNotSanitize(k) PROVE IInv'
  BY <1>7, SanitizeStep
<1>8. ASSUME NEW k \in Calls, NEW c \in Cols, StartBody(k, c) PROVE IInv'
  BY <1>8, StartStep
<1>9. ASSUME NEW b \in Bodies, LookUp(b) \/ Answer(b) \/ GiveUp(b) PROVE IInv'
  BY <1>9, LookUpStep, AnswerStep, GiveUpStep
<1>10. CASE UNCHANGED vars
  BY <1>10 DEF vars, IInv, TypeOK, IdleUntouched, OneCall, InPlace, OpenReadsAreOwn,
               SavedWhenSettled, AllSettled, OwnSource, MutexFree
<1> QED
  BY <1>1, <1>2, <1>3, <1>4, <1>5, <1>6, <1>7, <1>8, <1>9, <1>10 DEF Next, Idle

LEMMA InvariantHolds == Spec => []IInv
BY InvariantInitially, InvariantStep, PTL DEF Spec

\* The state of calls, bundles and goroutines keeps its type: in particular a
\* goroutine makes no more accesses than its collector has.
THEOREM TypeCorrect == Spec => []TypeOK
<1>1. IInv => TypeOK
  BY DEF IInv
<1> QED
  BY <1>1, InvariantHolds, PTL

\* Serialized by mcpPipelineMu, no call counts a result that was read through
\* another call's source (mcp.go:195), and outside of calls the host is read live,
\* for any number of calls, collectors and inputs.
THEOREM NoCrossContamination == Spec => []CountedReadsAreOwn
<1>1. IInv => CountedReadsAreOwn
  BY DEF IInv, OpenReadsAreOwn, InPlace, CountedReadsAreOwn
<1> QED
  BY <1>1, InvariantHolds, PTL

-------------------------------------------------------------------------------
(* Who made the records of a bundle. *)

\* By results res, entry e of call k's bundle was made by a body that was given up on, or by a
\* body of call k; in the latter case Sanitize has been over it if it ran.
Accounted(res, e, k, sanitized) ==
  e.flags # Unrecorded =>
    \/ res[e.by] = "timeout"
    \/ e.by[1] = k /\ (sanitized => e.text = "clean")

\* A call that has not begun has an empty bundle, and only a capture gets past
\* Sanitize.
FreshCalls ==
  \A k \in Calls :
    /\ call[k].phase = "idle" => call[k].kind = "none" /\ bundle[k] = EmptyBundle
    /\ call[k].phase \in {"sanitized", "unsanitized"} => call[k].kind = "capture"

BundleAccounted ==
  \A k \in Calls : \A i \in Inputs :
    call[k].kind = "capture" => Accounted(result, bundle[k][i], k, call[k].phase = "sanitized")

FileAccounted ==
  saved.state = "whole" =>
    \A i \in Inputs : Accounted(result, saved.recs[i], saved.call, saved.as = "sanitized")

FInv == FreshCalls /\ BundleAccounted /\ FileAccounted

LEMMA AnswerResults ==
  ASSUME TypeOK, NEW b \in Bodies, Answer(b)
  PROVE  \A d \in Bodies : result[d] = "timeout" => result'[d] = "timeout"
<1>1. PICK out : Observe(b, out)
  BY DEF Answer
<1> QED
  BY <1>1 DEF Observe, TypeOK

\* runOne never takes a timeout back, so what was accounted for stays so.
LEMMA AccountedStays ==
  ASSUME TypeOK, [Next]_vars, NEW e \in Entries, NEW k, NEW c, Accounted(result, e, k, c)
  PROVE  Accounted(result', e, k, c)
<1>1. \A d \in Bodies : result[d] = "timeout" => result'[d] = "timeout"
  <2>1. CASE UNCHANGED result
    BY <2>1
  <2>2. ASSUME NEW b \in Bodies, Answer(b)
        PROVE  \A d \in Bodies : result[d] = "timeout" => result'[d] = "timeout"
    BY <2>2, AnswerResults
  <2>3. ASSUME NEW b \in Bodies, GiveUp(b)
        PROVE  \A d \in Bodies : result[d] = "timeout" => result'[d] = "timeout"
    BY <2>3 DEF GiveUp, TypeOK
  <2>4. CASE Next
    BY <2>1, <2>2, <2>3, <2>4
       DEF Next, BeginHealth, BeginCapture, BeginReplay, RefuseReplay, EndRun, Sanitize,
           DoNotSanitize, Save, StartBody, LookUp, Idle, vars
  <2> QED
    BY <2>1, <2>4 DEF vars
<1>2. e.flags # Unrecorded => e.by \in Bodies
  BY DEF Entries, Recs, Missing
<1> QED
  BY <1>1, <1>2 DEF Accounted

LEMMA FileStays ==
  ASSUME IInv, FInv, [Next]_vars, UNCHANGED saved
  PROVE  FileAccounted'
<1> SUFFICES ASSUME NEW i \in Inputs, saved.state = "whole"
             PROVE  Accounted(result', saved.recs[i], saved.call, saved.as = "sanitized")
  BY DEF FileAccounted
<1>1. Accounted(result, saved.recs[i], saved.call, saved.as = "sanitized")
  BY DEF FInv, FileAccounted
<1>2. saved.recs[i] \in Entries
  BY DEF IInv, TypeOK
<1> QED
  BY <1>1, <1>2, AccountedStays DEF IInv

\* Steps that leave bundles and the file alone and take no call to Sanitize.
LEMMA RecordsStay ==
  ASSUME IInv, FInv, [Next]_vars, UNCHANGED <<bundle, saved>>,
         \A k \in Calls : call'[k] # call[k] =>
            /\ call'[k].phase \notin {"idle", "sanitized"}
            /\ call'[k].phase = "unsanitized" => call'[k].kind = "capture"
            /\ \/ call'[k].kind \in {call[k].kind, "health", "replay"}
               \/ bundle[k] = EmptyBundle
  PROVE  FInv'
<1>1. FreshCalls'
  BY DEF FInv, FreshCalls
<1>2. ASSUME NEW k \in Calls, NEW i \in Inputs, call'[k].kind = "capture"
      PROVE  Accounted(result, bundle[k][i], k, call'[k].phase = "sanitized")
  <2>1. CASE call'[k] = call[k]
    BY <1>2, <2>1 DEF FInv, BundleAccounted
  <2>2. CASE call'[k] # call[k] /\ bundle[k] = EmptyBundle
    BY <2>2 DEF Accounted, EmptyBundle, Missing
  <2>3. CASE call'[k] # call[k] /\ call'[k].kind = call[k].kind
    BY <1>2, <2>3 DEF FInv, BundleAccounted, Accounted
  <2> QED
    BY <1>2, <2>1, <2>2, <2>3
<1>3. \A k \in Calls, i \in Inputs : bundle[k][i] \in Entries
  BY DEF IInv, TypeOK
<1>4. BundleAccounted'
  <2> SUFFICES ASSUME NEW k \in Calls, NEW i \in Inputs, call'[k].kind = "capture"
               PROVE  Accounted(result', bundle[k][i], k, call'[k].phase = "sanitized")
    BY DEF BundleAccounted
  <2> QED
    BY <1>2, <1>3, AccountedStays DEF IInv
<1>5. FileAccounted'
  BY FileStays
<1> QED
  BY <1>1, <1>4, <1>5 DEF FInv

\* Sanitize goes over the whole bundle.
LEMMA SanitizeAccounts ==
  ASSUME IInv, FInv, NEW k \in Calls, Sanitize(k)
  PROVE  FInv'
<1>1. /\ call[k].phase = "run" /\ call[k].kind = "capture"
      /\ call'[k].phase = "sanitized" /\ call'[k].kind = "capture"
      /\ \A j \in Calls \ {k} : call'[j] = call[j] /\ bundle'[j] = bundle[j]
      /\ \A i \in Inputs : bundle'[k][i] = [bundle[k][i] EXCEPT !.text = "clean"]
      /\ UNCHANGED <<result, saved>>
  BY DEF Sanitize, IInv, TypeOK
<1>2. FreshCalls'
  BY <1>1 DEF FInv, FreshCalls
<1>3. BundleAccounted'
  <2> SUFFICES ASSUME NEW j \in Calls, NEW i \in Inputs, call'[j].kind = "capture"
               PROVE  Accounted(result, bundle'[j][i], j, call'[j].phase = "sanitized")
    BY <1>1 DEF BundleAccounted
  <2>1. CASE j # k
    BY <1>1, <2>1 DEF FInv, BundleAccounted
  <2>2. CASE j = k
    <3>1. Accounted(result, bundle[k][i], k, call[k].phase = "sanitized")
      BY <1>1 DEF FInv, BundleAccounted
    <3>2. /\ bundle'[k][i].flags = bundle[k][i].flags /\ bundle'[k][i].by = bundle[k][i].by
          /\ bundle'[k][i].text = "clean"
      <4>1. bundle[k][i] \in Entries
        BY DEF IInv, TypeOK
      <4> QED
        BY <1>1, <4>1 DEF Entries, Recs, Missing
    <3> QED
      BY <2>2, <3>1, <3>2 DEF Accounted
  <2> QED
    BY <2>1, <2>2
<1>4. FileAccounted'
  BY <1>1 DEF FInv, FileAccounted
<1> QED
  BY <1>2, <1>3, <1>4 DEF FInv

\* A body that is not given up on records into its own call's bundle, before
\* Sanitize.
LEMMA AnswerAccounts ==
  ASSUME IInv, FInv, NEW b \in Bodies, Answer(b)
  PROVE  FInv'
<1>1. UNCHANGED <<call, saved>> /\ [Next]_vars
  BY DEF Answer, Next
<1>2. CASE UNCHANGED bundle
  BY <1>1, <1>2, RecordsStay
<1>3. CASE bundle' # bundle
  <2> DEFINE i == Len(body[b].obs) + 1
  <2> DEFINE k == body[b].src
  <2>1. PICK out : k # Live /\ call[k].kind = "capture" /\ Tee(b, i, out)
    BY <1>3 DEF Answer
  <2> DEFINE e == [flags |-> RecordOf(op[i], out), by |-> b, was |-> out, text |-> "raw"]
  <2>2. bundle' = [bundle EXCEPT ![k][i] = e]
    BY <1>3, <2>1 DEF Tee
  <2>3. k \in Calls /\ body[b].at = "reading"
    BY <2>1 DEF IInv, TypeOK, Answer
  <2>4. Accounted(result', e, k, call[k].phase = "sanitized")
    <3>1. result[b] \in {"open", "timeout"}
      BY <2>3 DEF IInv, TypeOK, OpenReadsAreOwn
    <3>2. CASE result[b] = "timeout"
      BY <3>2, AnswerResults DEF Accounted, IInv
    <3>3. CASE result[b] = "open"
      <4>1. k = OwnSource(b[1]) /\ call[b[1]].phase = "run"
        BY <2>3, <3>3 DEF IInv, OpenReadsAreOwn
      <4>2. k = b[1]
        BY <2>1, <4>1 DEF OwnSource
      <4> QED
        BY <4>1, <4>2 DEF Accounted
    <3> QED
      BY <3>1, <3>2, <3>3
  <2> HIDE DEF e
  <2>5. \A j \in Calls, n \in Inputs :
          bundle'[j][n] = bundle[j][n] \/ (j = k /\ bundle'[j][n] = e)
    BY <2>2, <2>3 DEF IInv, TypeOK
  <2>6. BundleAccounted'
    <3> SUFFICES ASSUME NEW j \in Calls, NEW n \in Inputs, call[j].kind = "capture"
                 PROVE  Accounted(result', bundle'[j][n], j, call[j].phase = "sanitized")
      BY <1>1 DEF BundleAccounted
    <3>1. CASE bundle'[j][n] = bundle[j][n]
      <4>1. Accounted(result, bundle[j][n], j, call[j].phase = "sanitized")
            /\ bundle[j][n] \in Entries
        BY DEF FInv, BundleAccounted, IInv, TypeOK
      <4> QED
        BY <1>1, <3>1, <4>1, AccountedStays DEF IInv
    <3>2. CASE j = k /\ bundle'[j][n] = e
      BY <2>4, <3>2
    <3> QED
      BY <2>5, <3>1, <3>2
  <2>7. FreshCalls'
    <3>1. call[k].phase # "idle"
      BY <2>1, <2>3 DEF FInv, FreshCalls
    <3>2. \A j \in Calls \ {k} : bundle'[j] = bundle[j]
      BY <2>2 DEF IInv, TypeOK
    <3> QED
      BY <1>1, <3>1, <3>2 DEF FInv, FreshCalls
  <2> QED
    BY <1>1, <2>6, <2>7, FileStays DEF FInv
<1> QED
  BY <1>2, <1>3

LEMMA SaveAccounts ==
  ASSUME IInv, FInv, NEW k \in Calls, Save(k)
  PROVE  FInv'
<1>1. /\ call[k].phase \in {"sanitized", "unsanitized"} /\ call[k].kind = "capture"
      /\ call'[k].phase = "done" /\ call'[k].kind = "capture"
      /\ \A j \in Calls \ {k} : call'[j] = call[j]
      /\ UNCHANGED <<bundle, result>> /\ [Next]_vars
  BY DEF Save, Return, IInv, TypeOK, FInv, FreshCalls, Next
<1>2. FreshCalls'
  BY <1>1 DEF FInv, FreshCalls
<1>3. BundleAccounted'
  <2> SUFFICES ASSUME NEW j \in Calls, NEW i \in Inputs, call'[j].kind = "capture"
               PROVE  Accounted(result, bundle[j][i], j, call'[j].phase = "sanitized")
    BY <1>1 DEF BundleAccounted
  <2>1. Accounted(result, bundle[j][i], j, call[j].phase = "sanitized")
    BY <1>1 DEF FInv, BundleAccounted
  <2> QED
    BY <1>1, <2>1 DEF Accounted
<1>4. FileAccounted'
  <2>1. CASE saved' = saved
    BY <1>1, <2>1, FileStays
  <2>2. CASE saved' = TornFile
    BY <2>2 DEF FileAccounted, TornFile, NoFile
  <2>3. CASE saved' = FileOf(k)
    <3> SUFFICES ASSUME NEW i \in Inputs
                 PROVE  Accounted(result, FileOf(k).recs[i], k, call[k].phase = "sanitized")
      BY <1>1, <2>3 DEF FileAccounted, FileOf
    <3>1. Accounted(result, bundle[k][i], k, call[k].phase = "sanitized")
      BY <1>1 DEF FInv, BundleAccounted
    <3>2. bundle[k][i] \in Entries
      BY DEF IInv, TypeOK
    <3> DEFINE f == Persisted(op[i], bundle[k][i].flags)
    <3>3. FileOf(k).recs[i] = [bundle[k][i] EXCEPT !.flags = f]
      BY DEF FileOf
    <3>4. f # Unrecorded => bundle[k][i].flags # Unrecorded
      BY DEF Persisted, Unrecorded
    <3> HIDE DEF f
    <3>5. LET new == FileOf(k).recs[i] IN
          new.flags = f /\ new.by = bundle[k][i].by /\ new.text = bundle[k][i].text
      BY <3>2, <3>3 DEF Entries, Recs, Missing
    <3> QED
      BY <3>1, <3>4, <3>5 DEF Accounted
  <2> QED
    BY <2>1, <2>2, <2>3 DEF Save
<1> QED
  BY <1>2, <1>3, <1>4 DEF FInv

LEMMA FileInitially == Init => FInv
BY DEF Init, FInv, FreshCalls, BundleAccounted, FileAccounted, NoFile

LEMMA FileStep == IInv /\ FInv /\ [Next]_vars => FInv'
<1> SUFFICES ASSUME IInv, FInv, [Next]_vars PROVE FInv'
  OBVIOUS
<1>1. ASSUME NEW k \in Calls, BeginHealth(k) \/ BeginCapture(k) \/ RefuseReplay(k) PROVE FInv'
  <2>1. bundle[k] = EmptyBundle
    BY <1>1 DEF BeginHealth, BeginCapture, RefuseReplay, Enter, IsNext, FInv, FreshCalls
  <2>2. call'[k].phase \in {"run", "done"} /\ \A j \in Calls \ {k} : call'[j] = call[j]
    BY <1>1 DEF BeginHealth, BeginCapture, RefuseReplay, IInv, TypeOK
  <2>3. UNCHANGED <<bundle, saved>>
    BY <1>1 DEF BeginHealth, BeginCapture, RefuseReplay
  <2> QED
    BY <2>1, <2>2, <2>3, RecordsStay
<1>2. ASSUME NEW k \in Calls, EndRun(k) \/ DoNotSanitize(k) PROVE FInv'
  <2>1. call'[k].phase \in {"done", "unsanitized"} /\ call'[k].kind = call[k].kind
        /\ \A j \in Calls \ {k} : call'[j] = call[j]
    BY <1>2 DEF EndRun, Return, DoNotSanitize, IInv, TypeOK
  <2>2. call'[k].phase = "unsanitized" => call[k].kind = "capture"
    BY <1>2 DEF EndRun, Return, DoNotSanitize, IInv, TypeOK
  <2>3. UNCHANGED <<bundle, saved>>
    BY <1>2 DEF EndRun, DoNotSanitize
  <2> QED
    BY <2>1, <2>2, <2>3, RecordsStay
<1>3. ASSUME NEW k \in Calls, BeginReplay(k) PROVE FInv'
  <2>1. /\ call'[k].kind = "replay" /\ call'[k].phase = "run"
        /\ \A j \in Calls \ {k} : call'[j] = call[j] /\ bundle'[j] = bundle[j]
        /\ UNCHANGED <<result, saved>>
    BY <1>3 DEF BeginReplay, IInv, TypeOK
  <2>2. BundleAccounted'
    <3> SUFFICES ASSUME NEW j \in Calls, NEW i \in Inputs, call'[j].kind = "capture"
                 PROVE  Accounted(result, bundle'[j][i], j, call'[j].phase = "sanitized")
      BY <2>1 DEF BundleAccounted
    <3>1. j # k
      BY <2>1
    <3> QED
      BY <2>1, <3>1 DEF FInv, BundleAccounted
  <2>3. FreshCalls' /\ FileAccounted'
    BY <2>1 DEF FInv, FreshCalls, FileAccounted
  <2> QED
    BY <2>2, <2>3 DEF FInv
<1>4. ASSUME NEW k \in Calls, Sanitize(k) \/ Save(k) PROVE FInv'
  BY <1>4, SanitizeAccounts, SaveAccounts
<1>5. ASSUME NEW k \in Calls, NEW c \in Cols, StartBody(k, c) PROVE FInv'
  BY <1>5, RecordsStay DEF StartBody
<1>6. ASSUME NEW b \in Bodies, LookUp(b) \/ GiveUp(b) PROVE FInv'
  BY <1>6, RecordsStay DEF LookUp, GiveUp
<1>7. ASSUME NEW b \in Bodies, Answer(b) PROVE FInv'
  BY <1>7, AnswerAccounts
<1>8. CASE UNCHANGED vars
  BY <1>8, RecordsStay DEF vars
<1> QED
  BY <1>1, <1>2, <1>3, <1>4, <1>5, <1>6, <1>7, <1>8 DEF Next, Idle

\* Whatever is in a bundle file that Sanitize (sanitize.go:276) did not see, or
\* that a collector of another call recorded, comes from a collector its runOne
\* had given up on, for any number of calls, collectors and inputs.
THEOREM OnlyAbandonedStray == Spec => []StrayRecordsAreAbandoned
<1>1. FInv => StrayRecordsAreAbandoned
  BY DEF FInv, FileAccounted, Accounted, StrayRecordsAreAbandoned
<1> QED
  BY <1>1, FileInitially, FileStep, InvariantHolds, PTL DEF Spec

-------------------------------------------------------------------------------
(* What a replay answers. *)

\* Calls are made one after the other.
Ordered ==
  \A j, k \in Calls : j < k /\ call[k].phase # "idle" => call[j].phase = "done"

\* What the host may answer is something the access can return.
HostLive == \A i \in Inputs : HostAnswers(i) \subseteq LiveOutcomes(op[i])

\* Entry e of a bundle under way is what the Recorder keeps of a host answer.
Truthful(i, e) ==
  e.flags # Unrecorded => e.flags = RecordOf(op[i], e.was) /\ e.was \in HostAnswers(i)

BundleTruthful ==
  \A k \in Calls : \A i \in Inputs : call[k].kind = "capture" => Truthful(i, bundle[k][i])

\* What a collector of a capture saw left a record, if the Recorder keeps any.
Kept(i, out, e) ==
  out \in HostAnswers(i) /\ (e.flags = Unrecorded => RecordOf(op[i], out) = Unrecorded)

\* What body b, not given up on, saw came from its own call's bundle, or went there.
SeenThroughBundle(b) ==
  /\ body[b].at = "none" => body[b].obs = <<>>
  /\ body[b].at = "ended" => Len(body[b].obs) = MaxInputs
  /\ result[b] # "timeout" =>
       \A i \in 1..Len(body[b].obs) :
         /\ call[b[1]].kind = "capture" => Kept(i, body[b].obs[i], bundle[b[1]][i])
         /\ call[b[1]].kind = "replay" =>
              body[b].obs[i] = ReplayOf(op[i], bundle[b[1]][i].flags)

\* The bundle file has what the counted collectors of its capture left, and the
\* replays since then answer from it.
FileReplayed ==
  saved.state = "whole" =>
    /\ call[saved.call].phase = "done" /\ AllSettled(saved.call)
    /\ \A i \in Inputs :
         LET e == saved.recs[i] IN
         /\ e.flags # Unrecorded =>
              e.flags = Persisted(op[i], RecordOf(op[i], e.was)) /\ e.was \in HostAnswers(i)
         /\ \A c \in Cols :
              result[<<saved.call, c>>] = "counted" => Kept(i, body[<<saved.call, c>>].obs[i], e)
    /\ \A k \in Calls : k > saved.call /\ call[k].kind = "replay" => bundle[k] = saved.recs

RInv ==
  /\ Ordered /\ HostLive /\ BundleTruthful /\ FileReplayed
  /\ \A b \in Bodies : SeenThroughBundle(b)


LEMMA ReplayInitially == Init => RInv
<1> SUFFICES ASSUME Init PROVE RInv
  OBVIOUS
<1>1. Ordered
  BY DEF Init, Ordered
<1>2. HostLive
  BY DEF Init, HostLive, HostAnswers, LiveOutcomes
<1>3. BundleTruthful /\ FileReplayed
  BY DEF Init, BundleTruthful, FileReplayed, NoFile
<1>4. ASSUME NEW b \in Bodies PROVE SeenThroughBundle(b)
  <2>1. body[b].at = "none" /\ body[b].obs = <<>>
    BY DEF Init, NotStarted
  <2>2. 1..Len(<<>>) = {}
    OBVIOUS
  <2> QED
    BY <2>1, <2>2 DEF SeenThroughBundle
<1> QED
  BY <1>1, <1>2, <1>3, <1>4 DEF RInv

\* Call k begins after those before it, or it is under way and goes on.
LEMMA OrderStays ==
  ASSUME TypeOK, Ordered, NEW k \in Calls, Enter(k) \/ call[k].phase \in Busy,
         call'[k].phase # "idle", \A j \in Calls \ {k} : call'[j] = call[j]
  PROVE  Ordered'
<1> SUFFICES ASSUME NEW i \in Calls, NEW j \in Calls, i < j, call'[j].phase # "idle"
             PROVE  call'[i].phase = "done"
  BY DEF Ordered
<1>0. i \in Nat /\ j \in Nat /\ k \in Nat /\ i # j
  BY MaxCallsAssumption DEF Calls
<1>1. CASE j # k /\ i # k
  BY <1>1 DEF Ordered
<1>2. CASE j = k
  <2>1. call[i].phase = "done"
    <3>1. CASE Enter(k)
      BY <1>2, <3>1 DEF Enter, IsNext, MutexFree, TypeOK
    <3>2. CASE call[k].phase \in Busy
      BY <1>2, <3>2 DEF Ordered, Busy
    <3> QED
      BY <3>1, <3>2
  <2> QED
    BY <1>0, <1>2, <2>1
<1>3. CASE i = k
  <2>1. call[j].phase # "idle"
    BY <1>0, <1>3
  <2>2. call[k].phase = "done"
    BY <1>3, <2>1 DEF Ordered
  <2> QED
    BY <2>2 DEF Enter, IsNext, Busy
<1> QED
  BY <1>1, <1>2, <1>3

\* What a step of the calls does to call k and its bundle: nothing; it goes on,
\* perhaps through Sanitize; or it begins, a replay with the records of the file.
Stands(k) == call'[k] = call[k] /\ bundle'[k] = bundle[k]
GoesOn(k) ==
  /\ call[k].phase \in Busy /\ call'[k].phase # "idle" /\ call'[k].kind = call[k].kind
  /\ \/ bundle'[k] = bundle[k]
     \/ /\ call[k].kind = "capture"
        /\ \A i \in Inputs : /\ bundle'[k][i].flags = bundle[k][i].flags
                             /\ bundle'[k][i].was = bundle[k][i].was
Begins(k) ==
  /\ Enter(k) /\ call'[k].phase # "idle"
  /\ \/ call'[k].kind \in {"health", "capture"} /\ bundle'[k] = bundle[k]
     \/ call'[k].kind = "replay" /\ (saved.state = "whole" => bundle'[k] = saved.recs)

\* No collector gets an answer.
NoAnswer ==
  /\ UNCHANGED <<op, host>>
  /\ \A b \in Bodies :
       /\ body'[b].obs = body[b].obs
       /\ body'[b].at = "none" => body[b].at = "none"
       /\ body'[b].at = "ended" => body[b].at = "ended"
       /\ result'[b] \in {result[b], "timeout"}

CallStep(k) == NoAnswer /\ (Stands(k) \/ GoesOn(k) \/ Begins(k))
               /\ \A j \in Calls \ {k} : Stands(j)

LEMMA BundleStays ==
  ASSUME FInv, BundleTruthful, NEW k \in Calls, CallStep(k)
  PROVE  BundleTruthful'
<1> SUFFICES ASSUME NEW j \in Calls, NEW i \in Inputs, call'[j].kind = "capture"
             PROVE  Truthful(i, bundle'[j][i])
  BY DEF BundleTruthful, Truthful, HostAnswers, CallStep, NoAnswer
<1>1. CASE Stands(j)
  BY <1>1 DEF Stands, BundleTruthful
<1>2. CASE GoesOn(j)
  BY <1>2 DEF GoesOn, BundleTruthful, Truthful
<1>3. CASE Begins(j)
  <2>1. bundle'[j] = EmptyBundle
    BY <1>3 DEF Begins, Enter, IsNext, FInv, FreshCalls
  <2> QED
    BY <2>1 DEF Truthful, EmptyBundle, Missing
<1> QED
  BY <1>1, <1>2, <1>3 DEF CallStep

LEMMA SeenStays ==
  ASSUME IInv, NEW k \in Calls, CallStep(k), NEW b \in Bodies, SeenThroughBundle(b)
  PROVE  SeenThroughBundle(b)'
<1>1. body'[b].obs = body[b].obs /\ UNCHANGED <<op, host>> /\ b[1] \in Calls
      /\ (body'[b].at = "none" => body[b].at = "none")
      /\ (body'[b].at = "ended" => body[b].at = "ended")
      /\ result'[b] \in {result[b], "timeout"}
  BY DEF CallStep, NoAnswer, Bodies
<1>2. body[b].obs \in Seq(Answers) /\ Len(body[b].obs) \in Nat
  BY DEF IInv, TypeOK
<1> SUFFICES ASSUME result[b] # "timeout", NEW i \in 1..Len(body[b].obs)
    PROVE /\ call'[b[1]].kind = "capture" => Kept(i, body[b].obs[i], bundle'[b[1]][i])
          /\ call'[b[1]].kind = "replay" =>
               body[b].obs[i] = ReplayOf(op[i], bundle'[b[1]][i].flags)
  BY <1>1 DEF SeenThroughBundle, Kept, HostAnswers
<1>3. i \in Inputs
  <2>1. Len(body[b].obs) <= MaxInputs
    BY <1>2, MaxInputsAssumption DEF SeenThroughBundle, IInv, TypeOK
  <2> QED
    BY <1>2, <2>1, MaxInputsAssumption DEF Inputs
<1>4. CASE Stands(b[1])
  BY <1>4 DEF Stands, SeenThroughBundle
<1>5. CASE GoesOn(b[1])
  BY <1>3, <1>5 DEF GoesOn, SeenThroughBundle, Kept
<1>6. CASE Begins(b[1])
  <2>1. body[b].obs = <<>>
    BY <1>6 DEF Begins, Enter, IsNext, IInv, IdleUntouched, SeenThroughBundle
  <2> QED
    BY <1>2, <2>1
<1> QED
  BY <1>1, <1>4, <1>5, <1>6 DEF CallStep

LEMMA FileReplayedStays ==
  ASSUME IInv, FInv, RInv, NEW k \in Calls, CallStep(k), UNCHANGED saved
  PROVE  FileReplayed'
<1> SUFFICES ASSUME saved.state = "whole" PROVE FileReplayed'
  BY DEF FileReplayed
<1>1. saved.call \in Calls /\ call[saved.call].phase = "done" /\ AllSettled(saved.call)
  BY DEF IInv, TypeOK, RInv, FileReplayed
<1>2. UNCHANGED <<op, host>> /\ \A b \in Bodies : body'[b].obs = body[b].obs
                                  /\ result'[b] \in {result[b], "timeout"}
  BY DEF CallStep, NoAnswer
<1>3. Stands(saved.call)
  BY <1>1 DEF CallStep, GoesOn, Begins, Enter, IsNext, Busy
<1>4. call'[saved.call].phase = "done" /\ AllSettled(saved.call)'
  BY <1>1, <1>2, <1>3 DEF Stands, AllSettled, Bodies
<1>5. ASSUME NEW j \in Calls, j > saved.call, call'[j].kind = "replay"
      PROVE  bundle'[j] = saved.recs
  BY <1>5 DEF CallStep, Stands, GoesOn, Begins, RInv, FileReplayed
<1>6. ASSUME NEW i \in Inputs
      PROVE  LET e == saved.recs[i] IN
             /\ e.flags # Unrecorded =>
                  e.flags = Persisted(op[i], RecordOf(op[i], e.was)) /\ e.was \in HostAnswers(i)
             /\ \A c \in Cols :
                  result'[<<saved.call, c>>] = "counted" =>
                    Kept(i, body'[<<saved.call, c>>].obs[i], e)
  <2>1. \A c \in Cols : <<saved.call, c>> \in Bodies
    BY <1>1 DEF Bodies
  <2> QED
    BY <1>2, <2>1 DEF RInv, FileReplayed
<1> QED
  BY <1>2, <1>4, <1>5, <1>6 DEF FileReplayed, Kept, HostAnswers

LEMMA CallStepReplayed ==
  ASSUME IInv, FInv, RInv, NEW k \in Calls, CallStep(k), UNCHANGED saved
  PROVE  RInv'
<1>1. Ordered'
  <2>1. CASE Stands(k)
    BY <2>1 DEF RInv, Ordered, CallStep, Stands
  <2>2. CASE GoesOn(k) \/ Begins(k)
    BY <2>2, OrderStays DEF RInv, IInv, CallStep, Stands, GoesOn, Begins
  <2> QED
    BY <2>1, <2>2 DEF CallStep
<1>2. HostLive'
  BY DEF RInv, HostLive, HostAnswers, CallStep, NoAnswer
<1>3. \A b \in Bodies : SeenThroughBundle(b)'
  BY SeenStays DEF RInv
<1> QED
  BY <1>1, <1>2, <1>3, BundleStays, FileReplayedStays DEF RInv

\* An answer to body b, bound to source s, for its access i.
AnswersWith(b, s, i, out) ==
  /\ body[b].at = "reading" /\ s = body[b].src /\ i = Len(body[b].obs) + 1
  /\ Observe(b, out)
  /\ UNCHANGED <<op, host, call, saved>>
  /\ \/ s = Live /\ out \in HostAnswers(i) /\ UNCHANGED bundle
     \/ s # Live /\ call[s].kind = "capture" /\ out \in HostAnswers(i) /\ Tee(b, i, out)
     \/ /\ s # Live /\ call[s].kind = "replay" /\ UNCHANGED bundle
        /\ out = ReplayOf(op[i], bundle[s][i].flags)

\* Records are added to the bundle of a capture, and none is lost.
LEMMA BundleGrows ==
  ASSUME IInv, NEW b \in Bodies, NEW s, NEW i, NEW out, AnswersWith(b, s, i, out)
  PROVE  /\ i \in Inputs
         /\ \A k \in Calls : call[k].kind # "capture" => bundle'[k] = bundle[k]
         /\ \A k \in Calls, n \in Inputs :
              \/ bundle'[k][n] = bundle[k][n]
              \/ /\ k = s /\ n = i /\ out \in HostAnswers(i)
                 /\ bundle'[k][n].flags = RecordOf(op[i], out)
                 /\ bundle'[k][n].flags # Unrecorded
                 /\ bundle'[k][n].was = out
         /\ (s # Live /\ call[s].kind = "capture") => Kept(i, out, bundle'[s][i])
<1>1. i \in Inputs /\ s \in {Live} \cup Calls
  <2>1. Len(body[b].obs) \in Nat /\ Len(body[b].obs) < MaxInputs /\ s \in {Live} \cup Calls
    BY DEF AnswersWith, IInv, TypeOK
  <2> QED
    BY <2>1, MaxInputsAssumption DEF AnswersWith, Inputs
<1>2. CASE UNCHANGED bundle /\ ~(s # Live /\ call[s].kind = "capture")
  BY <1>1, <1>2
<1>3. CASE s # Live /\ call[s].kind = "capture" /\ out \in HostAnswers(i) /\ Tee(b, i, out)
  <2> DEFINE e == [flags |-> RecordOf(op[i], out), by |-> b, was |-> out, text |-> "raw"]
  <2>1. e.flags = RecordOf(op[i], out) /\ e.was = out
    OBVIOUS
  <2>2. \/ RecordOf(op[i], out) = Unrecorded /\ bundle' = bundle
        \/ RecordOf(op[i], out) # Unrecorded /\ bundle' = [bundle EXCEPT ![s][i] = e]
    BY <1>3 DEF Tee, AnswersWith
  <2> HIDE DEF e
  <2>3. CASE RecordOf(op[i], out) = Unrecorded /\ bundle' = bundle
    BY <1>1, <1>3, <2>3 DEF Kept
  <2>4. CASE RecordOf(op[i], out) # Unrecorded /\ bundle' = [bundle EXCEPT ![s][i] = e]
    <3>1. \A k \in Calls, n \in Inputs :
            bundle'[k][n] = IF k = s /\ n = i THEN e ELSE bundle[k][n]
      BY <2>4 DEF IInv, TypeOK
    <3>2. \A k \in Calls \ {s} : bundle'[k] = bundle[k]
      BY <2>4 DEF IInv, TypeOK
    <3> QED
      BY <1>1, <1>3, <2>1, <2>4, <3>1, <3>2 DEF Kept
  <2> QED
    BY <2>2, <2>3, <2>4
<1> QED
  BY <1>2, <1>3 DEF AnswersWith

LEMMA AnswerBundle ==
  ASSUME IInv, BundleTruthful, NEW b \in Bodies, NEW s, NEW i, NEW out,
         AnswersWith(b, s, i, out)
  PROVE  BundleTruthful'
<1> SUFFICES ASSUME NEW k \in Calls, NEW n \in Inputs, call[k].kind = "capture"
             PROVE  Truthful(n, bundle'[k][n])
  BY DEF AnswersWith, BundleTruthful, Truthful, HostAnswers
<1>1. CASE bundle'[k][n] = bundle[k][n]
  BY <1>1 DEF BundleTruthful
<1>2. CASE bundle'[k][n] # bundle[k][n]
  BY <1>2, BundleGrows DEF Truthful
<1> QED
  BY <1>1, <1>2

\* What the answered body saw before stays, and the new answer came through the
\* bundle of its own call unless the body was given up on.
LEMMA AnswerSeen ==
  ASSUME IInv, NEW b \in Bodies, NEW s, NEW i, NEW out, AnswersWith(b, s, i, out),
         SeenThroughBundle(b)
  PROVE  SeenThroughBundle(b)'
<1>1. /\ UNCHANGED <<op, host, call>> /\ b[1] \in Calls /\ i = Len(body[b].obs) + 1
      /\ body[b].at = "reading" /\ body[b].obs \in Seq(Answers)
      /\ body[b].src = s /\ i \in Inputs
  BY BundleGrows DEF AnswersWith, IInv, TypeOK, Bodies
<1>2. /\ body'[b].at = IF i = MaxInputs THEN "ended" ELSE "between"
      /\ body'[b].obs = Append(body[b].obs, out)
  BY <1>1 DEF AnswersWith, Observe, IInv, TypeOK
<1>3. out \in Answers
  BY <1>1, ReplayType DEF AnswersWith, HostAnswers, IInv, TypeOK, Answers
<1>4. /\ Len(body'[b].obs) = i
      /\ \A n \in 1..i : body'[b].obs[n] = IF n = i THEN out ELSE body[b].obs[n]
  BY <1>1, <1>2, <1>3
<1>5. result'[b] # "timeout" => result[b] = "open"
  BY <1>1 DEF AnswersWith, Observe, IInv, TypeOK, OpenReadsAreOwn
<1>6. ASSUME result'[b] # "timeout", NEW n \in 1..i
      PROVE /\ call[b[1]].kind = "capture" => Kept(n, body'[b].obs[n], bundle'[b[1]][n])
            /\ call[b[1]].kind = "replay" =>
                 body'[b].obs[n] = ReplayOf(op[n], bundle'[b[1]][n].flags)
  <2>1. s = OwnSource(b[1]) /\ result[b] = "open" /\ n \in Inputs
    <3>1. n \in Inputs
      BY <1>1, MaxInputsAssumption DEF Inputs
    <3> QED
      BY <1>1, <1>5, <1>6, <3>1 DEF IInv, OpenReadsAreOwn
  <2>2. CASE n = i
    <3>1. call[b[1]].kind = "capture" => Kept(i, out, bundle'[b[1]][i])
      BY <1>1, <2>1, BundleGrows DEF OwnSource, Calls, Live
    <3>2. call[b[1]].kind = "replay" => out = ReplayOf(op[i], bundle'[b[1]][i].flags)
      BY <1>1, <2>1 DEF OwnSource, Calls, Live, AnswersWith
    <3> QED
      BY <1>4, <2>2, <3>1, <3>2
  <2>3. CASE n # i
    <3>1. n \in 1..Len(body[b].obs) /\ body'[b].obs[n] = body[b].obs[n]
      BY <1>1, <1>4, <2>3
    <3>2. /\ call[b[1]].kind = "capture" => Kept(n, body[b].obs[n], bundle[b[1]][n])
          /\ call[b[1]].kind = "replay" =>
               body[b].obs[n] = ReplayOf(op[n], bundle[b[1]][n].flags)
      BY <2>1, <3>1 DEF SeenThroughBundle
    <3>3. bundle'[b[1]][n] = bundle[b[1]][n]
      BY <1>1, <2>1, <2>3, BundleGrows
    <3> QED
      BY <3>1, <3>2, <3>3
  <2> QED
    BY <2>2, <2>3
<1> QED
  BY <1>1, <1>2, <1>4, <1>6 DEF SeenThroughBundle, Kept, HostAnswers

\* What the other bodies saw stays.
LEMMA OthersSeen ==
  ASSUME IInv, NEW b \in Bodies, NEW s, NEW i, NEW out, AnswersWith(b, s, i, out),
         NEW d \in Bodies \ {b}, SeenThroughBundle(d)
  PROVE  SeenThroughBundle(d)'
<1>1. /\ UNCHANGED <<op, host, call>> /\ d[1] \in Calls
      /\ body'[d] = body[d] /\ result'[d] = result[d]
      /\ body[d].obs \in Seq(Answers)
  BY DEF AnswersWith, Observe, IInv, TypeOK, Bodies
<1> SUFFICES ASSUME result[d] # "timeout", NEW n \in 1..Len(body[d].obs)
    PROVE /\ call[d[1]].kind = "capture" => Kept(n, body[d].obs[n], bundle'[d[1]][n])
          /\ call[d[1]].kind = "replay" =>
               body[d].obs[n] = ReplayOf(op[n], bundle'[d[1]][n].flags)
  BY <1>1 DEF SeenThroughBundle, Kept, HostAnswers
<1>2. n \in Inputs
  <2>1. Len(body[d].obs) <= MaxInputs /\ Len(body[d].obs) \in Nat
    BY <1>1, MaxInputsAssumption DEF SeenThroughBundle, IInv, TypeOK
  <2> QED
    BY <2>1, MaxInputsAssumption DEF Inputs
<1>3. /\ call[d[1]].kind = "capture" => Kept(n, body[d].obs[n], bundle[d[1]][n])
      /\ call[d[1]].kind = "replay" =>
           body[d].obs[n] = ReplayOf(op[n], bundle[d[1]][n].flags)
  BY DEF SeenThroughBundle
<1>4. bundle'[d[1]][n].flags = Unrecorded => bundle[d[1]][n].flags = Unrecorded
  BY <1>1, <1>2, BundleGrows
<1>5. call[d[1]].kind = "replay" => bundle'[d[1]] = bundle[d[1]]
  BY <1>1, BundleGrows
<1> QED
  BY <1>3, <1>4, <1>5 DEF Kept

LEMMA AnswerFile ==
  ASSUME IInv, RInv, NEW b \in Bodies, NEW s, NEW i, NEW out, AnswersWith(b, s, i, out)
  PROVE  FileReplayed'
<1>1. UNCHANGED <<op, host, call, saved>> /\ body[b].at = "reading"
  BY DEF AnswersWith
<1> SUFFICES ASSUME saved.state = "whole" PROVE FileReplayed'
  BY <1>1 DEF FileReplayed
<1>2. /\ saved.call \in Calls /\ call[saved.call].phase = "done" /\ AllSettled(saved.call)
      /\ \A c \in Cols : <<saved.call, c>> \in Bodies
  BY DEF IInv, TypeOK, RInv, FileReplayed, Bodies
<1>3. \A d \in Bodies : result[d] # "open" => result'[d] = result[d]
  BY DEF AnswersWith, Observe, IInv, TypeOK
<1>4. \A d \in Bodies : result[d] = "counted" => body'[d] = body[d]
  BY <1>1 DEF AnswersWith, Observe, IInv, TypeOK, OpenReadsAreOwn
<1>5. \A c \in Cols :
        /\ result'[<<saved.call, c>>] = result[<<saved.call, c>>]
        /\ result[<<saved.call, c>>] # "open"
        /\ result[<<saved.call, c>>] = "counted" =>
             body'[<<saved.call, c>>] = body[<<saved.call, c>>]
  BY <1>2, <1>3, <1>4 DEF AllSettled
<1>6. \A k \in Calls : call[k].kind = "replay" => bundle'[k] = bundle[k]
  BY BundleGrows
<1>7. ASSUME NEW n \in Inputs
      PROVE  LET e == saved.recs[n] IN
             /\ e.flags # Unrecorded =>
                  e.flags = Persisted(op[n], RecordOf(op[n], e.was)) /\ e.was \in HostAnswers(n)
             /\ \A c \in Cols :
                  result'[<<saved.call, c>>] = "counted" =>
                    Kept(n, body'[<<saved.call, c>>].obs[n], e)
  <2>1. LET e == saved.recs[n] IN
        e.flags # Unrecorded =>
          e.flags = Persisted(op[n], RecordOf(op[n], e.was)) /\ e.was \in HostAnswers(n)
    BY DEF RInv, FileReplayed
  <2>2. ASSUME NEW c \in Cols, result'[<<saved.call, c>>] = "counted"
        PROVE  Kept(n, body'[<<saved.call, c>>].obs[n], saved.recs[n])
    <3>1. result[<<saved.call, c>>] = "counted"
          /\ body'[<<saved.call, c>>] = body[<<saved.call, c>>]
      BY <1>5, <2>2
    <3>2. Kept(n, body[<<saved.call, c>>].obs[n], saved.recs[n])
      BY <3>1 DEF RInv, FileReplayed
    <3> QED
      BY <3>1, <3>2
  <2> QED
    BY <2>1, <2>2
<1>8. AllSettled(saved.call)'
  <2>1. \A c \in Cols : result'[<<saved.call, c>>] # "open"
    BY <1>5
  <2> QED
    BY <1>1, <2>1 DEF AllSettled
<1>9. \A k \in Calls : k > saved.call /\ call[k].kind = "replay" => bundle'[k] = saved.recs
  BY <1>6 DEF RInv, FileReplayed
<1> QED
  BY <1>1, <1>2, <1>7, <1>8, <1>9 DEF FileReplayed, Kept, HostAnswers

LEMMA AnswerReplayed ==
  ASSUME IInv, RInv, NEW b \in Bodies, Answer(b)
  PROVE  RInv'
<1> DEFINE i == Len(body[b].obs) + 1
<1> DEFINE s == body[b].src
<1>1. PICK out : AnswersWith(b, s, i, out)
  BY DEF Answer, AnswersWith
<1> HIDE DEF i, s
<1>2. Ordered' /\ HostLive'
  BY <1>1 DEF RInv, Ordered, HostLive, HostAnswers, AnswersWith
<1>3. ASSUME NEW d \in Bodies PROVE SeenThroughBundle(d)'
  BY <1>1, AnswerSeen, OthersSeen DEF RInv
<1>4. BundleTruthful' /\ FileReplayed'
  BY <1>1, AnswerBundle, AnswerFile DEF RInv
<1> QED
  BY <1>2, <1>3, <1>4 DEF RInv

LEMMA NothingLostOnSave ==
  ASSUME NEW m, NEW out, NEW rec, rec \in {Unrecorded, RecordOf(m, out)},
         Persisted(m, rec) = Unrecorded
  PROVE  rec = Unrecorded
BY DEF Persisted, RecordOf, PutFile, PutCmd, Unrecorded

\* The file of a capture has what its settled collectors left in the bundle.
LEMMA SaveReplayed ==
  ASSUME IInv, FInv, RInv, NEW k \in Calls, Save(k)
  PROVE  RInv'
<1>1. /\ call[k].phase \in {"sanitized", "unsanitized"} /\ call[k].kind = "capture"
      /\ AllSettled(k)
      /\ call'[k].phase = "done" /\ call'[k].kind = "capture"
      /\ \A j \in Calls \ {k} : call'[j] = call[j]
      /\ UNCHANGED <<op, host, bundle, body, result>>
  BY DEF Save, Return, IInv, TypeOK, FInv, FreshCalls, SavedWhenSettled
<1>2. CallStep(k)
  BY <1>1 DEF CallStep, NoAnswer, Stands, GoesOn, Busy
<1>3. Ordered'
  BY <1>1, OrderStays DEF RInv, IInv, Busy
<1>4. HostLive'
  BY <1>1 DEF RInv, HostLive, HostAnswers
<1>5. \A b \in Bodies : SeenThroughBundle(b)'
  BY <1>2, SeenStays DEF RInv
<1>6. BundleTruthful'
  BY <1>2, BundleStays DEF RInv
<1>7. FileReplayed'
  <2>1. CASE saved' = saved
    BY <1>2, <2>1, FileReplayedStays
  <2>2. CASE saved' = TornFile
    BY <2>2 DEF FileReplayed, TornFile, NoFile
  <2>3. CASE saved' = FileOf(k)
    <3>1. saved'.call = k /\ \A i \in Inputs :
            saved'.recs[i] = [bundle[k][i] EXCEPT !.flags = Persisted(op[i], @)]
      BY <2>3 DEF FileOf
    <3>2. ASSUME NEW j \in Calls, j > k PROVE call'[j].kind # "replay"
      <4>1. call[j].phase = "idle"
        BY <1>1, <3>2 DEF RInv, Ordered
      <4> QED
        BY <1>1, <3>2, <4>1, MaxCallsAssumption DEF FInv, FreshCalls, Calls
    <3>3. ASSUME NEW i \in Inputs
          PROVE  LET e == saved'.recs[i] IN
                 /\ e.flags # Unrecorded =>
                      /\ e.flags = Persisted(op[i], RecordOf(op[i], e.was))
                      /\ e.was \in HostAnswers(i)
                 /\ \A c \in Cols :
                      result[<<k, c>>] = "counted" => Kept(i, body[<<k, c>>].obs[i], e)
      <4> DEFINE rec == bundle[k][i].flags
      <4> DEFINE was == bundle[k][i].was
      <4>1. saved'.recs[i].flags = Persisted(op[i], rec) /\ saved'.recs[i].was = was
        <5>1. bundle[k][i] \in Entries
          BY DEF IInv, TypeOK
        <5> QED
          BY <3>1, <5>1 DEF Entries, Recs, Missing
      <4>2. rec # Unrecorded => rec = RecordOf(op[i], was) /\ was \in HostAnswers(i)
        BY <1>1 DEF RInv, BundleTruthful, Truthful
      <4>3. ASSUME NEW c \in Cols, result[<<k, c>>] = "counted"
            PROVE  Kept(i, body[<<k, c>>].obs[i], bundle[k][i])
        <5>1. <<k, c>> \in Bodies
          BY DEF Bodies
        <5>2. body[<<k, c>>].at = "ended"
          BY <4>3, <5>1 DEF IInv, OpenReadsAreOwn
        <5>3. Len(body[<<k, c>>].obs) = MaxInputs
          BY <5>1, <5>2 DEF RInv, SeenThroughBundle
        <5> QED
          BY <1>1, <4>3, <5>1, <5>3 DEF RInv, SeenThroughBundle, Inputs
      <4> HIDE DEF rec, was
      <4>4. Persisted(op[i], rec) # Unrecorded => rec # Unrecorded
        BY DEF Persisted, Unrecorded
      <4>5. Persisted(op[i], rec) = Unrecorded => rec = Unrecorded
        BY <4>2, NothingLostOnSave
      <4> QED
        BY <4>1, <4>2, <4>3, <4>4, <4>5 DEF Kept, rec
    <3>4. AllSettled(k)'
      BY <1>1 DEF AllSettled
    <3> QED
      BY <1>1, <3>1, <3>2, <3>3, <3>4 DEF FileReplayed, Kept, HostAnswers
  <2> QED
    BY <2>1, <2>2, <2>3 DEF Save
<1> QED
  BY <1>3, <1>4, <1>5, <1>6, <1>7 DEF RInv

LEMMA ReplayStep == IInv /\ FInv /\ RInv /\ [Next]_vars => RInv'
<1> SUFFICES ASSUME IInv, FInv, RInv, [Next]_vars PROVE RInv'
  OBVIOUS
<1>0. \A b \in Bodies, k \in Calls : \A cs :
        /\ Started(k, cs)[b].obs = body[b].obs
        /\ Started(k, cs)[b].at \in {body[b].at, "between"}
  BY DEF Started, IInv, TypeOK
<1>1. ASSUME NEW k \in Calls,
             BeginHealth(k) \/ BeginCapture(k) \/ BeginReplay(k) \/ RefuseReplay(k)
      PROVE  RInv'
  <2>1. NoAnswer
    BY <1>0, <1>1 DEF NoAnswer, BeginHealth, BeginCapture, BeginReplay, RefuseReplay
  <2>2. Begins(k) /\ UNCHANGED saved
    <3>1. CASE BeginHealth(k) \/ BeginCapture(k)
      BY <3>1 DEF BeginHealth, BeginCapture, Begins, IInv, TypeOK
    <3>2. CASE BeginReplay(k)
      BY <3>2 DEF BeginReplay, Begins, IInv, TypeOK
    <3>3. CASE RefuseReplay(k)
      BY <3>3 DEF RefuseReplay, Begins, IInv, TypeOK
    <3> QED
      BY <1>1, <3>1, <3>2, <3>3
  <2>3. \A j \in Calls \ {k} : Stands(j)
    BY <1>1 DEF Stands, BeginHealth, BeginCapture, BeginReplay, RefuseReplay, IInv, TypeOK
  <2> QED
    BY <2>1, <2>2, <2>3, CallStepReplayed DEF CallStep
<1>2. ASSUME NEW k \in Calls, EndRun(k) \/ Sanitize(k) \/ DoNotSanitize(k) PROVE RInv'
  <2>1. NoAnswer /\ UNCHANGED saved
    BY <1>2 DEF NoAnswer, EndRun, Sanitize, DoNotSanitize
  <2>2. \A j \in Calls \ {k} : Stands(j)
    BY <1>2 DEF Stands, EndRun, Return, Sanitize, DoNotSanitize, IInv, TypeOK
  <2>3. CASE EndRun(k) \/ DoNotSanitize(k)
    <3>1. GoesOn(k)
      BY <2>3 DEF GoesOn, EndRun, Return, DoNotSanitize, IInv, TypeOK, Busy
    <3> QED
      BY <2>1, <2>2, <3>1, CallStepReplayed DEF CallStep
  <2>4. CASE Sanitize(k)
    <3>1. \A i \in Inputs : /\ bundle'[k][i].flags = bundle[k][i].flags
                           /\ bundle'[k][i].was = bundle[k][i].was
      BY <2>4 DEF Sanitize, IInv, TypeOK, Entries, Recs, Missing
    <3>2. GoesOn(k)
      BY <2>4, <3>1 DEF GoesOn, Sanitize, IInv, TypeOK, Busy
    <3> QED
      BY <2>1, <2>2, <3>2, CallStepReplayed DEF CallStep
  <2> QED
    BY <1>2, <2>3, <2>4
<1>3. ASSUME NEW k \in Calls, Save(k) PROVE RInv'
  BY <1>3, SaveReplayed
<1>4. ASSUME NEW k \in Calls, UNCHANGED <<op, host, call, bundle, saved>>, NoAnswer PROVE RInv'
  BY <1>4, CallStepReplayed DEF CallStep, Stands
<1>5. ASSUME NEW k \in Calls, NEW c \in Cols, StartBody(k, c) PROVE RInv'
  <2>1. NoAnswer
    BY <1>0, <1>5 DEF NoAnswer, StartBody
  <2> QED
    BY <1>4, <1>5, <2>1 DEF StartBody
<1>6. ASSUME NEW b \in Bodies, LookUp(b) \/ GiveUp(b) PROVE RInv'
  <2>1. NoAnswer /\ b[1] \in Calls
    BY <1>6 DEF NoAnswer, LookUp, GiveUp, IInv, TypeOK, Bodies
  <2> QED
    BY <1>4, <1>6, <2>1 DEF LookUp, GiveUp
<1>7. ASSUME NEW b \in Bodies, Answer(b) PROVE RInv'
  BY <1>7, AnswerReplayed
<1>8. CASE UNCHANGED vars
  BY <1>8 DEF vars, RInv, Ordered, HostLive, HostAnswers, BundleTruthful, Truthful,
              FileReplayed, AllSettled, Kept, SeenThroughBundle
<1> QED
  BY <1>1, <1>2, <1>3, <1>5, <1>6, <1>7, <1>8 DEF Next, Idle

\* A record that came back: the replay answers with what made the record, and
\* two answers of the host to one access differ only if a command failed.
LEMMA Reproduces ==
  ASSUME HostLive, TypeOK, NEW i \in Inputs, NEW was \in HostAnswers(i),
         NEW then \in HostAnswers(i), NEW seen, seen = RoundTrip(op[i], was)
  PROVE  seen = then \/ Lossy(op[i], then) \/ Lossy(op[i], was)
<1>1. op[i] \in Ops /\ was \in LiveOutcomes(op[i])
  BY MethodsAssumption DEF HostLive, TypeOK
<1>2. CASE was = then
  BY <1>1, <1>2, OutcomesSurvive
<1>3. CASE was # then
  BY <1>3 DEF HostAnswers, Lossy
<1> QED
  BY <1>2, <1>3

\* ADR 0003, Source.Replay: whatever calls, timeouts and bundle files came before,
\* a counted collector of a replay sees access by access what the collector of the
\* capture saw, save for outcomes that do not survive recording and for commands of
\* which some access failed; for any number of calls, collectors and inputs.
THEOREM ReplayIsFaithful == Spec => []ReplayReproduces
<1>1. IInv /\ FInv /\ RInv => ReplayReproduces
  <2> SUFFICES ASSUME IInv, FInv, RInv, NEW k \in Calls, NEW c \in Cols, NEW i \in Inputs,
                      saved.state = "whole", call[k].kind = "replay", k > saved.call,
                      i <= Len(body[<<k, c>>].obs),
                      result[<<k, c>>] = "counted", result[<<saved.call, c>>] = "counted"
      PROVE  LET seen == body[<<k, c>>].obs
                 then == body[<<saved.call, c>>].obs IN
             \/ seen[i] = then[i]
             \/ Lossy(op[i], then[i])
             \/ saved.recs[i].flags # Unrecorded /\ Lossy(op[i], saved.recs[i].was)
    BY DEF ReplayReproduces
  <2> DEFINE e == saved.recs[i]
  <2> DEFINE then == body[<<saved.call, c>>].obs[i]
  <2> DEFINE seen == body[<<k, c>>].obs[i]
  <2>1. <<k, c>> \in Bodies /\ op[i] \in Ops
    BY MethodsAssumption DEF Bodies, IInv, TypeOK
  <2>2. seen = ReplayOf(op[i], e.flags)
    <3>1. i \in 1..Len(body[<<k, c>>].obs) /\ bundle[k] = saved.recs
      BY <2>1, MaxInputsAssumption DEF IInv, TypeOK, Inputs, RInv, FileReplayed
    <3> QED
      BY <2>1, <3>1 DEF RInv, SeenThroughBundle
  <2>3. Kept(i, then, e)
    BY DEF RInv, FileReplayed
  <2>4. e.flags # Unrecorded =>
          e.flags = Persisted(op[i], RecordOf(op[i], e.was)) /\ e.was \in HostAnswers(i)
    BY DEF RInv, FileReplayed
  <2>5. then \in HostAnswers(i) /\ HostLive /\ TypeOK
    BY <2>3 DEF Kept, RInv, IInv
  <2> HIDE DEF e, then, seen
  <2>6. CASE e.flags = Unrecorded
    <3>1. RecordOf(op[i], then) = Unrecorded /\ then \in LiveOutcomes(op[i])
      BY <2>3, <2>5, <2>6 DEF Kept, HostLive
    <3>2. Lossy(op[i], then)
      BY <2>1, <3>1 DEF RecordOf, PutFile, PutCmd, Unrecorded, LiveOutcomes, Lossy
    <3> QED
      BY <3>2 DEF then
  <2>7. CASE e.flags # Unrecorded
    <3>1. seen = RoundTrip(op[i], e.was) /\ e.was \in HostAnswers(i)
      BY <2>2, <2>4, <2>7 DEF RoundTrip
    <3>2. seen = then \/ Lossy(op[i], then) \/ Lossy(op[i], e.was)
      BY <2>5, <3>1, Reproduces
    <3> QED
      BY <2>7, <3>2 DEF seen, then, e
  <2> QED
    BY <2>6, <2>7
<1> QED
  BY <1>1, InvariantHolds, FileInitially, FileStep, ReplayInitially, ReplayStep, PTL DEF Spec

===============================================================================
