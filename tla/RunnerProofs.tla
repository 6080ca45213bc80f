----------------------------- MODULE RunnerProofs -----------------------------
(***************************************************************************)
(* Theorems about Runner, for any number of collectors, live or replay.    *)
(***************************************************************************)
EXTENDS Runner, TLAPS

\* Steps of the body goroutine and of the contexts: runOne and ch stay put.
LEMMA QuietSteps ==
  ASSUME NEW c \in Collectors, CollectEnds(c) \/ HitGap(c) \/ DeadlinePasses(c)
  PROVE  UNCHANGED <<serial, pc, sent, taken, closed, before, outcome>>
BY DEF CollectEnds, HitGap, DeadlinePasses, bodyVars, chanVars, timeVars

-------------------------------------------------------------------------------
\* The state of RunAll keeps its type; in particular the caller never receives
\* more than was sent and the serial loop's snapshot never exceeds the counter.
THEOREM TypeCorrect == SafeSpec => []TypeOK
<1>1. Init => TypeOK
  <2> SUFFICES ASSUME Init PROVE TypeOK
    OBVIOUS
  <2>1. /\ sent \in Seq(Results) /\ serial \in BOOLEAN
        /\ taken \in 0..Len(sent)
        /\ gaps \in Nat /\ before \in 0..gaps
    BY DEF Init
  <2>2. /\ closed \in BOOLEAN /\ cancelled \in BOOLEAN
        /\ expired \in [Collectors -> BOOLEAN]
    BY DEF Init
  <2>3. /\ pc \in [Collectors -> {"idle", "select", "grace", "settled", "sent"}]
        /\ body \in [Collectors -> {"none", "running", "returned"}]
        /\ done \in [Collectors -> Ends \cup {"empty"}]
        /\ outcome \in [Collectors -> Outcomes \cup {"none"}]
        /\ hit \in [Collectors -> {"never", "intime", "late"}]
    BY DEF Init
  <2>4. \A c \in Collectors :
          outcome[c] \in Outcomes <=> pc[c] \in {"settled", "sent"}
    BY DEF Init, Outcomes, Ends
  <2> QED
    BY <2>1, <2>2, <2>3, <2>4 DEF TypeOK
<1>2. TypeOK /\ [Next]_vars => TypeOK'
  <2> SUFFICES ASSUME TypeOK, [Next]_vars PROVE TypeOK'
    OBVIOUS
  <2> USE DEF TypeOK, Ends, Outcomes
  <2>1. ASSUME NEW c \in Collectors, CollectEnds(c) PROVE TypeOK'
    BY <2>1 DEF CollectEnds, chanVars, timeVars
  <2>2. ASSUME NEW c \in Collectors, HitGap(c) PROVE TypeOK'
    BY <2>2 DEF HitGap, chanVars, timeVars
  <2>3. ASSUME NEW c \in Collectors, DeadlinePasses(c) PROVE TypeOK'
    BY <2>3 DEF DeadlinePasses, bodyVars, chanVars
  <2>4. ASSUME NEW c \in Collectors, Start(c) PROVE TypeOK'
    BY <2>4 DEF Start, chanVars, timeVars
  <2>5. ASSUME NEW c \in Collectors, TakeResult(c) PROVE TypeOK'
    BY <2>5 DEF TakeResult, bodyVars, chanVars, timeVars
  <2>6. ASSUME NEW c \in Collectors, SeeDeadline(c) PROVE TypeOK'
    BY <2>6 DEF SeeDeadline, bodyVars, chanVars, timeVars
  <2>7. ASSUME NEW c \in Collectors, GracePasses(c) PROVE TypeOK'
    BY <2>7 DEF GracePasses, bodyVars, chanVars, timeVars
  <2>8. ASSUME NEW c \in Collectors, Send(c) PROVE TypeOK'
    <3> DEFINE r == [col |-> c, kind |-> outcome[c],
                     notRecorded |-> serial /\ gaps > before]
    <3>1. outcome[c] \in Outcomes
      BY <2>8 DEF Send
    <3>2. r \in Results
      BY <3>1 DEF Results
    <3>3. sent' \in Seq(Results) /\ Len(sent') = Len(sent) + 1
      BY <2>8, <3>2 DEF Send
    <3> QED
      BY <2>8, <3>3 DEF Send, bodyVars, timeVars
  <2>9. CASE Cancel
    BY <2>9 DEF Cancel, bodyVars, chanVars
  <2>10. CASE Close
    BY <2>10 DEF Close, bodyVars, timeVars
  <2>11. CASE Receive
    BY <2>11 DEF Receive, bodyVars, timeVars
  <2>12. CASE UNCHANGED vars
    BY <2>12 DEF vars
  <2> QED
    BY <2>1, <2>2, <2>3, <2>4, <2>5, <2>6, <2>7, <2>8, <2>9, <2>10, <2>11,
       <2>12 DEF Next, RunOne, Idle
<1> QED
  BY <1>1, <1>2, PTL DEF SafeSpec

-------------------------------------------------------------------------------
(* What has been sent on ch is exactly the Results of the collectors whose   *)
(* runOne is through, once each, and ch is closed only after all of them.    *)
Reported(c) == \E i \in 1..Len(sent) : sent[i].col = c

Bookkeeping ==
  /\ \A i, j \in 1..Len(sent) : sent[i].col = sent[j].col => i = j
  /\ \A c \in Collectors : pc[c] = "sent" <=> Reported(c)
  /\ closed => \A c \in Collectors : pc[c] = "sent"

\* A Send adds the one missing report.
LEMMA SendKeepsBookkeeping ==
  ASSUME TypeOK, Bookkeeping, NEW c \in Collectors, Send(c)
  PROVE  Bookkeeping'
<1> DEFINE r == [col |-> c, kind |-> outcome[c],
                 notRecorded |-> serial /\ gaps > before]
<1>1. /\ pc \in [Collectors -> {"idle", "select", "grace", "settled", "sent"}]
      /\ sent \in Seq(Results)
      /\ Len(sent) \in Nat
  BY DEF TypeOK
<1>2. /\ sent' = Append(sent, r)
      /\ pc[c] = "settled"
      /\ pc' = [pc EXCEPT ![c] = "sent"]
      /\ closed' = closed
  BY DEF Send
<1>3. /\ Len(sent') = Len(sent) + 1
      /\ \A i \in 1..Len(sent) : sent'[i] = sent[i]
      /\ sent'[Len(sent) + 1].col = c
  BY <1>1, <1>2
<1>4. \A i \in 1..Len(sent) : sent[i].col # c
  BY <1>2 DEF Bookkeeping, Reported
<1>5. \A i, j \in 1..Len(sent') : sent'[i].col = sent'[j].col => i = j
  BY <1>1, <1>3, <1>4 DEF Bookkeeping
<1>6. ASSUME NEW d \in Collectors PROVE pc'[d] = "sent" <=> Reported(d)'
  <2>1. CASE d = c
    BY <2>1, <1>1, <1>2, <1>3 DEF Reported
  <2>2. CASE d # c
    <3>1. pc'[d] = pc[d]
      BY <2>2, <1>1, <1>2
    <3>2. Reported(d)' <=> Reported(d)
      BY <2>2, <1>1, <1>3 DEF Reported
    <3> QED
      BY <3>1, <3>2 DEF Bookkeeping
  <2> QED
    BY <2>1, <2>2
<1>7. closed' => \A d \in Collectors : pc'[d] = "sent"
  BY <1>2 DEF Bookkeeping
<1> QED
  BY <1>5, <1>6, <1>7 DEF Bookkeeping

LEMMA BookkeepingInvariant == SafeSpec => []Bookkeeping
<1>1. Init => Bookkeeping
  BY DEF Init, Bookkeeping, Reported
<1>2. TypeOK /\ Bookkeeping /\ [Next]_vars => Bookkeeping'
  <2> SUFFICES ASSUME TypeOK, Bookkeeping, [Next]_vars PROVE Bookkeeping'
    OBVIOUS
  <2> USE DEF Bookkeeping, Reported
  <2>1. ASSUME NEW c \in Collectors,
               CollectEnds(c) \/ HitGap(c) \/ DeadlinePasses(c)
        PROVE  Bookkeeping'
    BY <2>1, QuietSteps
  <2>2. ASSUME NEW c \in Collectors,
               Start(c) \/ TakeResult(c) \/ SeeDeadline(c) \/ GracePasses(c)
        PROVE  Bookkeeping'
    <3>1. /\ UNCHANGED <<serial, sent, closed>>
          /\ pc[c] # "sent"
          /\ \E to \in {"select", "settled", "grace"} :
               pc' = [pc EXCEPT ![c] = to]
      BY <2>2 DEF Start, TakeResult, SeeDeadline, GracePasses, chanVars
    <3>2. \A d \in Collectors : pc'[d] = "sent" <=> pc[d] = "sent"
      BY <3>1 DEF TypeOK
    <3> QED
      BY <3>1, <3>2
  <2>3. ASSUME NEW c \in Collectors, Send(c) PROVE Bookkeeping'
    BY <2>3, SendKeepsBookkeeping
  <2>4. CASE Cancel \/ Receive \/ UNCHANGED vars
    BY <2>4 DEF Cancel, Receive, vars, chanVars
  <2>5. CASE Close
    BY <2>5 DEF Close
  <2> QED
    BY <2>1, <2>2, <2>3, <2>4, <2>5 DEF Next, RunOne, Idle
<1> QED
  BY <1>1, <1>2, TypeCorrect, PTL DEF SafeSpec

\* Every collector is reported exactly once and ch is closed only when no
\* goroutine can still send on it: runner.go's RunAll, for any N, live or replay.
THEOREM EveryCollectorOnce == SafeSpec => []ExactlyOneResult
<1>1. Bookkeeping => ExactlyOneResult
  BY DEF Bookkeeping, Reported, ExactlyOneResult, MustSend
<1> QED
  BY <1>1, BookkeepingInvariant, PTL

-------------------------------------------------------------------------------
(* Replay.  The serial loop has one collector in hand at a time, so a gap     *)
(* that collector hits always raises the counter above the loop's snapshot.   *)
OneInHand ==
  serial => \A c, d \in Collectors :
              d < c /\ pc[c] # "idle" => pc[d] = "sent"

InHand(c) == pc[c] \in {"select", "grace", "settled"}

GapsCounted ==
  /\ ~serial => \A c \in Collectors : hit[c] = "never"
  /\ \A c \in Collectors : body[c] = "none" <=> pc[c] = "idle"
  /\ \A c \in Collectors : pc[c] = "idle" => hit[c] = "never"
  /\ \A c \in Collectors : InHand(c) /\ hit[c] = "intime" => gaps > before

GapInv == OneInHand /\ GapsCounted /\ NoGapLost

LEMMA StartKeepsGapInv ==
  ASSUME TypeOK, Bookkeeping, GapInv, NEW c \in Collectors, Start(c)
  PROVE  GapInv'
<1>1. /\ pc[c] = "idle"
      /\ pc' = [pc EXCEPT ![c] = "select"]
      /\ body' = [body EXCEPT ![c] = "running"]
      /\ UNCHANGED <<serial, sent, hit, gaps>>
      /\ before' = IF serial THEN gaps ELSE before
      /\ serial => \A d \in Collectors : d < c => pc[d] = "sent"
  BY DEF Start, MyTurn, chanVars
<1>2. OneInHand'
  <2> SUFFICES ASSUME serial, NEW e \in Collectors, NEW d \in Collectors,
                      d < e, pc'[e] # "idle"
               PROVE  pc'[d] = "sent"
    BY <1>1 DEF OneInHand
  <2>1. CASE e = c
    BY <2>1, <1>1 DEF TypeOK, Collectors
  <2>2. CASE e # c
    <3>1. pc[d] = "sent"
      BY <2>2, <1>1 DEF TypeOK, GapInv, OneInHand
    <3> QED
      BY <3>1, <1>1 DEF TypeOK
  <2> QED
    BY <2>1, <2>2
<1>3. \A d \in Collectors : InHand(d)' /\ hit'[d] = "intime" => gaps' > before'
  <2> SUFFICES ASSUME NEW d \in Collectors, InHand(d)', hit'[d] = "intime"
               PROVE  gaps' > before'
    OBVIOUS
  <2>1. serial /\ d # c
    BY <1>1 DEF GapInv, GapsCounted
  <2>2. d < c \/ c < d
    BY <2>1 DEF Collectors
  <2>3. pc[d] \in {"select", "grace", "settled"}
    BY <1>1, <2>1 DEF TypeOK, InHand
  <2> QED
    BY <1>1, <2>1, <2>2, <2>3 DEF GapInv, OneInHand
<1>4. GapsCounted'
  BY <1>1, <1>3 DEF TypeOK, GapInv, GapsCounted
<1>5. NoGapLost'
  BY <1>1 DEF GapInv, NoGapLost
<1> QED
  BY <1>2, <1>4, <1>5 DEF GapInv

LEMMA HitKeepsGapInv ==
  ASSUME TypeOK, Bookkeeping, GapInv, NEW c \in Collectors, HitGap(c)
  PROVE  GapInv'
<1>1. /\ serial
      /\ body[c] = "running"
      /\ gaps' = gaps + 1
      /\ gaps \in Nat /\ before \in 0..gaps
      /\ UNCHANGED <<serial, pc, body, before, sent>>
      /\ hit' = [hit EXCEPT ![c] =
                   IF @ # "never" THEN @
                   ELSE IF pc[c] \in {"select", "grace"} THEN "intime" ELSE "late"]
  BY DEF HitGap, chanVars, TypeOK
<1>2. OneInHand'
  BY <1>1 DEF GapInv, OneInHand
<1>3. GapsCounted'
  <2>1. pc[c] # "idle"
    BY <1>1 DEF GapInv, GapsCounted
  <2>2. gaps' > before'
    BY <1>1
  <2> QED
    BY <1>1, <2>1, <2>2 DEF TypeOK, GapInv, GapsCounted
<1>4. NoGapLost'
  <2> SUFFICES ASSUME NEW i \in 1..Len(sent), hit'[sent[i].col] = "intime"
               PROVE  sent[i].notRecorded
    BY <1>1 DEF NoGapLost
  <2>1. sent[i].col \in Collectors
    <3>1. sent \in Seq(Results)
      BY DEF TypeOK
    <3>2. sent[i] \in Results
      BY <3>1
    <3> QED
      BY <3>2 DEF Results
  <2>2. pc[sent[i].col] = "sent"
    BY <2>1 DEF Bookkeeping, Reported
  <2>3. hit[sent[i].col] = "intime"
    BY <1>1, <2>1, <2>2 DEF TypeOK
  <2> QED
    BY <2>3 DEF GapInv, NoGapLost
<1> QED
  BY <1>2, <1>3, <1>4 DEF GapInv

LEMMA SendKeepsGapInv ==
  ASSUME TypeOK, Bookkeeping, GapInv, NEW c \in Collectors, Send(c)
  PROVE  GapInv'
<1> DEFINE r == [col |-> c, kind |-> outcome[c],
                 notRecorded |-> serial /\ gaps > before]
<1>1. /\ pc[c] = "settled"
      /\ pc' = [pc EXCEPT ![c] = "sent"]
      /\ sent' = Append(sent, r)
      /\ sent \in Seq(Results)
      /\ UNCHANGED <<serial, body, hit, gaps, before>>
  BY DEF Send, bodyVars, TypeOK
<1>2. OneInHand'
  BY <1>1 DEF TypeOK, GapInv, OneInHand
<1>3. GapsCounted'
  BY <1>1 DEF TypeOK, GapInv, GapsCounted, InHand
<1>4. NoGapLost'
  <2>1. hit[c] = "intime" => serial /\ gaps > before
    BY <1>1 DEF GapInv, GapsCounted, InHand
  <2>2. ASSUME NEW i \in 1..Len(sent'), hit'[sent'[i].col] = "intime"
        PROVE  sent'[i].notRecorded
    <3>1. CASE i = Len(sent) + 1
      <4>1. sent'[i] = r /\ r.col = c
        BY <3>1, <1>1
      <4>2. serial /\ gaps > before
        BY <4>1, <1>1, <2>1, <2>2
      <4>3. r.notRecorded
        BY <4>2, Zenon
      <4> QED
        BY <4>1, <4>3, Zenon
    <3>2. CASE i \in 1..Len(sent)
      BY <3>2, <1>1, <2>2 DEF GapInv, NoGapLost
    <3> QED
      BY <3>1, <3>2, <1>1
  <2> QED
    BY <2>2 DEF NoGapLost
<1> QED
  BY <1>2, <1>3, <1>4 DEF GapInv

LEMMA GapInvariant == SafeSpec => []GapInv
<1>1. Init => GapInv
  BY DEF Init, GapInv, OneInHand, GapsCounted, NoGapLost, InHand
<1>2. TypeOK /\ Bookkeeping /\ GapInv /\ [Next]_vars => GapInv'
  <2> SUFFICES ASSUME TypeOK, Bookkeeping, GapInv, [Next]_vars PROVE GapInv'
    OBVIOUS
  <2> USE DEF GapInv, OneInHand, GapsCounted, NoGapLost, InHand
  <2>1. ASSUME NEW c \in Collectors, Start(c) PROVE GapInv'
    BY <2>1, StartKeepsGapInv
  <2>2. ASSUME NEW c \in Collectors, HitGap(c) PROVE GapInv'
    BY <2>2, HitKeepsGapInv
  <2>3. ASSUME NEW c \in Collectors, Send(c) PROVE GapInv'
    BY <2>3, SendKeepsGapInv
  <2>4. ASSUME NEW c \in Collectors, CollectEnds(c) PROVE GapInv'
    BY <2>4 DEF CollectEnds, chanVars, TypeOK
  <2>5. ASSUME NEW c \in Collectors,
               TakeResult(c) \/ SeeDeadline(c) \/ GracePasses(c)
        PROVE  GapInv'
    <3>1. /\ UNCHANGED <<serial, sent, body, hit, gaps, before>>
          /\ InHand(c)
          /\ \E to \in {"settled", "grace"} : pc' = [pc EXCEPT ![c] = to]
      BY <2>5 DEF TakeResult, SeeDeadline, GracePasses, chanVars, bodyVars
    <3>2. \A d \in Collectors : /\ InHand(d)' <=> InHand(d)
                                /\ pc'[d] = "sent" <=> pc[d] = "sent"
                                /\ pc'[d] = "idle" <=> pc[d] = "idle"
      BY <3>1 DEF TypeOK
    <3> QED
      BY <3>1, <3>2
  <2>6. ASSUME NEW c \in Collectors, DeadlinePasses(c) PROVE GapInv'
    BY <2>6 DEF DeadlinePasses, bodyVars, chanVars
  <2>7. CASE Cancel \/ Close \/ Receive \/ UNCHANGED vars
    BY <2>7 DEF Cancel, Close, Receive, vars, bodyVars, chanVars
  <2> QED
    BY <2>1, <2>2, <2>3, <2>4, <2>5, <2>6, <2>7 DEF Next, RunOne, Idle
<1> QED
  BY <1>1, <1>2, TypeCorrect, BookkeepingInvariant, PTL DEF SafeSpec

\* In a replay, a collector that touched an input the bundle never recorded
\* before its Result was settled always has that Result marked NotRecorded,
\* whatever the other collectors, abandoned ones included, do.
THEOREM GapsAreNotLost == SafeSpec => []NoGapLost
<1>1. GapInv => NoGapLost
  BY DEF GapInv
<1> QED
  BY <1>1, GapInvariant, PTL

-------------------------------------------------------------------------------
\* A goroutine in the inner select has seen its deadline or a cancellation.
InGraceForAReason ==
  \A c \in Collectors : pc[c] = "grace" => expired[c] \/ cancelled

\* A timeout is blamed on a collector only after its deadline has passed or the
\* caller has given up, whichever case of the two selects is taken.
THEOREM TimeoutsAreDeserved == SafeSpec => []TimeoutOnlyAfterDeadline
<1>1. Init => InGraceForAReason /\ TimeoutOnlyAfterDeadline
  BY DEF Init, InGraceForAReason, TimeoutOnlyAfterDeadline
<1>2. TypeOK /\ InGraceForAReason /\ TimeoutOnlyAfterDeadline /\ [Next]_vars
        => (InGraceForAReason /\ TimeoutOnlyAfterDeadline)'
  <2> SUFFICES ASSUME TypeOK, InGraceForAReason, TimeoutOnlyAfterDeadline, [Next]_vars
               PROVE  (InGraceForAReason /\ TimeoutOnlyAfterDeadline)'
    OBVIOUS
  <2> USE DEF InGraceForAReason, TimeoutOnlyAfterDeadline, timeVars, TypeOK
  <2>1. ASSUME NEW c \in Collectors, TakeResult(c)
        PROVE  (InGraceForAReason /\ TimeoutOnlyAfterDeadline)'
    <3>1. done[c] # "timeout"
      BY <2>1 DEF TakeResult, Ends
    <3> QED
      BY <2>1, <3>1 DEF TakeResult
  <2>2. ASSUME NEW c \in Collectors,
               Start(c) \/ SeeDeadline(c) \/ GracePasses(c) \/ Send(c)
        PROVE  (InGraceForAReason /\ TimeoutOnlyAfterDeadline)'
    BY <2>2 DEF Start, SeeDeadline, GracePasses, Send
  <2>3. ASSUME NEW c \in Collectors,
               CollectEnds(c) \/ HitGap(c) \/ DeadlinePasses(c)
        PROVE  (InGraceForAReason /\ TimeoutOnlyAfterDeadline)'
    BY <2>3 DEF CollectEnds, HitGap, DeadlinePasses
  <2>4. CASE Cancel \/ Close \/ Receive \/ UNCHANGED vars
    BY <2>4 DEF Cancel, Close, Receive, vars
  <2> QED
    BY <2>1, <2>2, <2>3, <2>4 DEF Next, RunOne, Idle
<1> QED
  BY <1>1, <1>2, TypeCorrect, PTL DEF SafeSpec

-------------------------------------------------------------------------------
(* Replay, the other direction: who may have raised the counter.             *)

\* A body answers when it returns, and one that still runs when its runOne is
\* through was abandoned.
RunningUnanswered ==
  \A c \in Collectors :
    /\ body[c] # "returned" => done[c] = "empty"
    /\ body[c] = "running" /\ pc[c] \in {"settled", "sent"} => Abandoned(c)

HasCause(c) == hit[c] # "never" \/ \E d \in Collectors : d < c /\ Abandoned(d)

CounterExplained ==
  \A c \in Collectors : serial /\ InHand(c) /\ gaps > before => HasCause(c)

BlameInv == RunningUnanswered /\ CounterExplained /\ GapBlamedOnOwner

\* No step takes a cause away.
LEMMA CausesStay ==
  ASSUME TypeOK, [Next]_vars, NEW c \in Collectors, HasCause(c)
  PROVE  HasCause(c)'
<1>1. ASSUME NEW d \in Collectors, hit[d] # "never" PROVE hit'[d] # "never"
  <2>1. CASE \E e \in Collectors : HitGap(e)
    <3>1. PICK e \in Collectors : HitGap(e)
      BY <2>1
    <3> QED
      BY <1>1, <3>1 DEF HitGap, TypeOK
  <2>2. CASE UNCHANGED hit
    BY <1>1, <2>2
  <2> QED
    BY <2>1, <2>2
       DEF Next, RunOne, CollectEnds, DeadlinePasses, Start, TakeResult, SeeDeadline,
           GracePasses, Send, Cancel, Close, Receive, Idle, vars, bodyVars
<1>2. ASSUME NEW d \in Collectors, Abandoned(d) PROVE Abandoned(d)'
  <2>1. pc[d] \in {"settled", "sent"}
    BY <1>2 DEF Abandoned, TypeOK, Outcomes
  <2>2. CASE \E e \in Collectors : TakeResult(e) \/ GracePasses(e)
    <3>1. PICK e \in Collectors : TakeResult(e) \/ GracePasses(e)
      BY <2>2
    <3>2. e # d /\ \E o : outcome' = [outcome EXCEPT ![e] = o]
      BY <3>1, <2>1 DEF TakeResult, GracePasses
    <3> QED
      BY <1>2, <3>2 DEF Abandoned, TypeOK
  <2>3. CASE UNCHANGED outcome
    BY <1>2, <2>3 DEF Abandoned
  <2> QED
    BY <2>2, <2>3
       DEF Next, RunOne, CollectEnds, HitGap, DeadlinePasses, Start, SeeDeadline,
           Send, Cancel, Close, Receive, Idle, vars
<1> QED
  BY <1>1, <1>2 DEF HasCause

LEMMA BlameInvInductive ==
  ASSUME TypeOK, Bookkeeping, GapInv, BlameInv, [Next]_vars
  PROVE  BlameInv'
<1> USE DEF BlameInv
<1>1. \A c \in Collectors : HasCause(c) => HasCause(c)'
  BY CausesStay
<1>2. ASSUME UNCHANGED sent PROVE GapBlamedOnOwner'
  <2> SUFFICES ASSUME NEW i \in 1..Len(sent), sent[i].notRecorded
               PROVE  HasCause(sent[i].col)'
    BY <1>2 DEF GapBlamedOnOwner, HasCause
  <2>1. sent[i].col \in Collectors
    <3>1. sent \in Seq(Results)
      BY DEF TypeOK
    <3>2. sent[i] \in Results
      BY <3>1
    <3> QED
      BY <3>2 DEF Results
  <2>2. PICK c \in Collectors : c = sent[i].col
    BY <2>1
  <2>3. HasCause(c)
    BY <2>2 DEF GapBlamedOnOwner, HasCause
  <2>4. HasCause(c)'
    BY <1>1, <2>3
  <2> QED
    BY <1>2, <2>2, <2>4 DEF HasCause
<1>3. ASSUME NEW c \in Collectors, Start(c) PROVE BlameInv'
  <2>1. /\ pc[c] = "idle" /\ pc' = [pc EXCEPT ![c] = "select"]
        /\ body' = [body EXCEPT ![c] = "running"]
        /\ before' = IF serial THEN gaps ELSE before
        /\ UNCHANGED <<serial, done, gaps, sent, outcome>>
        /\ body[c] = "none"
    BY <1>3 DEF Start, chanVars, GapInv, GapsCounted
  <2>2. RunningUnanswered'
    BY <2>1 DEF RunningUnanswered, Abandoned, TypeOK
  <2>3. CounterExplained'
    BY <2>1 DEF CounterExplained, TypeOK
  <2> QED
    BY <1>2, <2>1, <2>2, <2>3
<1>4. ASSUME NEW c \in Collectors, HitGap(c) PROVE BlameInv'
  <2>1. /\ body[c] = "running" /\ serial
        /\ UNCHANGED <<serial, pc, body, done, outcome, before, sent>>
    BY <1>4 DEF HitGap, chanVars
  <2>2. hit'[c] # "never"
    BY <1>4 DEF HitGap, TypeOK
  <2>3. ASSUME NEW d \in Collectors, InHand(d) PROVE HasCause(d)'
    <3>1. CASE d = c
      BY <3>1, <2>2 DEF HasCause
    <3>2. CASE d # c
      <4>1. pc[c] # "idle"
        BY <2>1 DEF GapInv, GapsCounted
      <4>2. c < d \/ d < c
        BY <3>2 DEF Collectors
      <4>3. c < d /\ pc[c] = "sent"
        BY <2>1, <2>3, <4>1, <4>2 DEF GapInv, OneInHand, InHand
      <4>4. Abandoned(c)
        BY <2>1, <4>3 DEF RunningUnanswered
      <4> QED
        BY <1>1, <4>3, <4>4 DEF HasCause
    <3> QED
      BY <3>1, <3>2
  <2>4. CounterExplained'
    BY <2>1, <2>3 DEF CounterExplained, InHand
  <2>5. RunningUnanswered'
    BY <2>1 DEF RunningUnanswered, Abandoned
  <2> QED
    BY <1>2, <2>1, <2>4, <2>5
<1>5. ASSUME NEW c \in Collectors, CollectEnds(c) PROVE BlameInv'
  <2>1. /\ UNCHANGED <<serial, pc, outcome, gaps, before, sent, hit>>
        /\ body' = [body EXCEPT ![c] = "returned"]
        /\ \E e \in Ends : done' = [done EXCEPT ![c] = e]
    BY <1>5 DEF CollectEnds, chanVars
  <2>2. RunningUnanswered'
    BY <2>1 DEF RunningUnanswered, Abandoned, TypeOK
  <2>3. CounterExplained'
    BY <1>1, <2>1 DEF CounterExplained, InHand
  <2> QED
    BY <1>2, <2>1, <2>2, <2>3
<1>6. ASSUME NEW c \in Collectors, TakeResult(c) \/ SeeDeadline(c) \/ GracePasses(c)
      PROVE  BlameInv'
  <2>1. /\ UNCHANGED <<serial, body, done, gaps, before, sent, hit>>
        /\ InHand(c)
        /\ \E to \in {"settled", "grace"} : pc' = [pc EXCEPT ![c] = to]
    BY <1>6 DEF TakeResult, SeeDeadline, GracePasses, bodyVars, chanVars, InHand
  <2>2. \A d \in Collectors : InHand(d)' <=> InHand(d)
    BY <2>1 DEF InHand, TypeOK
  <2>3. CounterExplained'
    BY <1>1, <2>1, <2>2 DEF CounterExplained
  <2>4. RunningUnanswered'
    <3> SUFFICES ASSUME NEW d \in Collectors, body[d] = "running",
                        pc'[d] \in {"settled", "sent"}
                 PROVE  outcome'[d] = "timeout"
      BY <2>1 DEF RunningUnanswered, Abandoned
    <3>1. done[d] = "empty"
      BY DEF RunningUnanswered
    <3>2. CASE d = c
      BY <1>6, <3>1, <3>2 DEF TakeResult, SeeDeadline, GracePasses, TypeOK
    <3>3. CASE d # c
      BY <1>6, <3>3 DEF TakeResult, SeeDeadline, GracePasses, TypeOK,
                        RunningUnanswered, Abandoned
    <3> QED
      BY <3>1, <3>2, <3>3
  <2> QED
    BY <1>2, <2>1, <2>3, <2>4
<1>7. ASSUME NEW c \in Collectors, Send(c) PROVE BlameInv'
  <2> DEFINE r == [col |-> c, kind |-> outcome[c],
                   notRecorded |-> serial /\ gaps > before]
  <2>1. /\ pc[c] = "settled" /\ pc' = [pc EXCEPT ![c] = "sent"]
        /\ sent' = Append(sent, r)
        /\ UNCHANGED <<serial, body, done, hit, gaps, outcome, before>>
    BY <1>7 DEF Send, bodyVars
  <2>2. RunningUnanswered'
    BY <2>1 DEF RunningUnanswered, Abandoned, TypeOK
  <2>3. \A d \in Collectors : InHand(d)' => InHand(d)
    BY <2>1 DEF InHand, TypeOK
  <2>4. CounterExplained'
    BY <1>1, <2>1, <2>3 DEF CounterExplained
  <2>5. ASSUME NEW i \in 1..Len(sent'), sent'[i].notRecorded
        PROVE  HasCause(sent'[i].col)
    <3>1. sent \in Seq(Results)
      BY DEF TypeOK
    <3>2. CASE i = Len(sent) + 1
      <4>1. sent'[i] = r
        BY <2>1, <3>1, <3>2
      <4>2. r.notRecorded = (serial /\ gaps > before)
        BY Zenon
      <4>3. serial /\ gaps > before
        BY <2>5, <4>1, <4>2, Zenon
      <4> QED
        BY <2>1, <4>1, <4>3 DEF CounterExplained, InHand
    <3>3. CASE i \in 1..Len(sent)
      BY <2>1, <2>5, <3>1, <3>3 DEF GapBlamedOnOwner, HasCause
    <3> QED
      BY <2>1, <3>1, <3>2, <3>3
  <2>6. GapBlamedOnOwner'
    BY <2>1, <2>5 DEF GapBlamedOnOwner, HasCause, Abandoned
  <2> QED
    BY <2>2, <2>4, <2>6
<1>8. CASE (\E c \in Collectors : DeadlinePasses(c)) \/ Cancel \/ Close \/ Receive
             \/ UNCHANGED vars
  <2>1. UNCHANGED <<serial, pc, body, done, hit, gaps, before, sent, outcome>>
    BY <1>8 DEF DeadlinePasses, Cancel, Close, Receive, vars, bodyVars, chanVars
  <2> QED
    BY <2>1 DEF RunningUnanswered, CounterExplained, GapBlamedOnOwner, HasCause,
                Abandoned, InHand
<1> QED
  BY <1>3, <1>4, <1>5, <1>6, <1>7, <1>8 DEF Next, RunOne, Idle

\* In a replay, as long as no earlier collector was abandoned, only a collector
\* that hit a gap itself has its Result marked: the counter difference of the
\* serial loop is wrong for no other reason.
THEOREM BlameIsDeserved == SafeSpec => []GapBlamedOnOwner
<1>1. Init => BlameInv
  BY DEF Init, BlameInv, RunningUnanswered, CounterExplained, GapBlamedOnOwner, InHand
<1>2. TypeOK /\ Bookkeeping /\ GapInv /\ BlameInv /\ [Next]_vars => BlameInv'
  BY BlameInvInductive
<1>3. BlameInv => GapBlamedOnOwner
  BY DEF BlameInv
<1> QED
  BY <1>1, <1>2, <1>3, TypeCorrect, BookkeepingInvariant, GapInvariant, PTL DEF SafeSpec

-------------------------------------------------------------------------------
\* RunAll is a ResultStream: each of its steps delivers the Result of one
\* collector that still owed it, closes the channel, or changes neither.
THEOREM RunAllImplementsStream == SafeSpec => Stream!SafeSpec
<1> DEFINE owing == {c \in Collectors : MustSend(c)}
<1>1. Init => Stream!Init
  BY DEF Init, Stream!Init, MustSend
<1>2. TypeOK /\ Bookkeeping /\ [Next]_vars => [Stream!Next]_(Stream!vars)
  <2> SUFFICES ASSUME TypeOK, Bookkeeping, [Next]_vars
               PROVE  Stream!Next \/ UNCHANGED <<serial, owing, sent, closed>>
    BY DEF Stream!vars
  <2>1. ASSUME NEW c \in Collectors, Send(c) PROVE Stream!Next
    <3> DEFINE r == [col |-> c, kind |-> outcome[c],
                     notRecorded |-> serial /\ gaps > before]
    <3>1. r \in Results /\ r.col = c
      BY <2>1 DEF Send, TypeOK, Results
    <3>2. c \in owing /\ owing' = owing \ {c}
      BY <2>1 DEF Send, MustSend, TypeOK
    <3>3. ~closed /\ closed' = closed /\ sent' = Append(sent, r)
      BY <2>1 DEF Send, Bookkeeping
    <3>4. Stream!Deliver(c)
      BY <3>1, <3>2, <3>3 DEF Stream!Deliver
    <3> QED
      BY <3>4 DEF Stream!Next
  <2>2. CASE Close
    BY <2>2 DEF Close, Stream!Next, Stream!Close, MustSend
  <2>3. ASSUME NEW c \in Collectors,
               Start(c) \/ TakeResult(c) \/ SeeDeadline(c) \/ GracePasses(c)
        PROVE  UNCHANGED <<serial, owing, sent, closed>>
    <3>1. /\ UNCHANGED <<serial, sent, closed>>
          /\ pc[c] # "sent"
          /\ \E to \in {"select", "settled", "grace"} :
               pc' = [pc EXCEPT ![c] = to]
      BY <2>3 DEF Start, TakeResult, SeeDeadline, GracePasses, chanVars
    <3> QED
      BY <3>1 DEF TypeOK, MustSend
  <2>4. ASSUME NEW c \in Collectors,
               CollectEnds(c) \/ HitGap(c) \/ DeadlinePasses(c)
        PROVE  UNCHANGED <<serial, owing, sent, closed>>
    BY <2>4, QuietSteps DEF MustSend
  <2>5. CASE Cancel \/ Receive \/ UNCHANGED vars
    BY <2>5 DEF Cancel, Receive, vars, chanVars, MustSend
  <2> QED
    BY <2>1, <2>2, <2>3, <2>4, <2>5 DEF Next, RunOne, Idle
<1> QED
  BY <1>1, <1>2, TypeCorrect, BookkeepingInvariant, PTL
     DEF SafeSpec, Stream!SafeSpec

===============================================================================
